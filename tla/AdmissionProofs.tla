-------------------------- MODULE AdmissionProofs ---------------------------
(***************************************************************************)
(* Proofs about Semaphores, for any finite set of calls, any keys and any  *)
(* limits, and about Admission, for any runs, tenants, workflows, limits   *)
(* and inner calls.                                                        *)
(***************************************************************************)
EXTENDS Admission, FiniteSetTheorems, SequenceTheorems, TLAPS

-----------------------------------------------------------------------------
(*                                Semaphores                               *)

Users(s) == {c \in Calls : sem[c] = s}

Senders(s) == {c \in Calls : sem[c] = s /\ at[c] = "holding"}

(* Which calls have a semaphore, by where they are.                        *)
Placed ==
    \A c \in Calls :
        /\ at[c] = "out" => sem[c] = Nil
        /\ at[c] \in {"waiting", "leaving"} => sem[c] # Nil
        /\ at[c] = "holding" /\ Limit[KeyOf[c]] > 0 => sem[c] # Nil

(* A semaphore in use is the one its key finds, and no other key does.     *)
Found ==
    /\ \A c \in Calls : sem[c] # Nil => slots[KeyOf[c]] = sem[c]
    /\ \A j, k \in Keys : slots[j] # Nil /\ slots[j] = slots[k] => j = k
    /\ \A k \in Keys : slots[k] # Nil => \E c \in Calls : sem[c] = slots[k]

(* The two counts, and the channel's capacity.                             *)
Counted ==
    \A s \in Sems : /\ users[s] = Cardinality(Users(s))
                    /\ length[s] = Cardinality(Senders(s))

Capacity ==
    \A c \in Calls : sem[c] # Nil => length[sem[c]] <= Limit[KeyOf[c]]

SemInv == SemTypeOK /\ Placed /\ Found /\ Counted /\ Capacity

-----------------------------------------------------------------------------
(* Sets of calls are finite; a call that joins or leaves changes their     *)
(* size by one.                                                            *)
LEMMA CallSets ==
    ASSUME NEW S, S \subseteq Calls, NEW c \in Calls
    PROVE  /\ Cardinality(S) \in Nat
           /\ c \notin S => Cardinality(S \cup {c}) = Cardinality(S) + 1
           /\ c \in S => Cardinality(S \ {c}) = Cardinality(S) - 1
           /\ c \in S => Cardinality(S) > 0
           /\ Cardinality(S) = 0 <=> S = {}
  <1>1. IsFiniteSet(S)
    BY SemaphoreAssumption, FS_Subset DEF SemaphoreAssumption
  <1>2. Cardinality(S) \in Nat /\ (Cardinality(S) = 0 <=> S = {})
    BY <1>1, FS_CardinalityType, FS_EmptySet
  <1>3. Cardinality(S \cup {c}) = IF c \in S THEN Cardinality(S) ELSE Cardinality(S) + 1
    BY <1>1, FS_AddElement
  <1>4. Cardinality(S \ {c}) = IF c \in S THEN Cardinality(S) - 1 ELSE Cardinality(S)
    BY <1>1, FS_RemoveElement
  <1> QED BY <1>2, <1>3, <1>4

LEMMA InitSem == SemInit => SemInv
  <1> SUFFICES ASSUME SemInit PROVE SemInv
    OBVIOUS
  <1>1. SemTypeOK /\ Placed /\ Found /\ Capacity
    BY SemaphoreAssumption DEF SemaphoreAssumption, SemInit, SemTypeOK, Placed, Found, Capacity
  <1>2. ASSUME NEW s \in Sems PROVE Users(s) = {} /\ Senders(s) = {}
    BY SemaphoreAssumption DEF SemaphoreAssumption, SemInit, Users, Senders
  <1>3. Cardinality({}) = 0
    BY FS_EmptySet
  <1>4. Counted
    BY <1>2, <1>3 DEF Counted, SemInit
  <1> QED BY <1>1, <1>4 DEF SemInv

(* How a step of call c that joins, takes, gives back or leaves semaphore  *)
(* s moves c between the sets that Counted counts.                         *)
LEMMA LookupStep ==
    ASSUME NEW c \in Calls, SemInv, Lookup(c)
    PROVE  SemInv'
  <1> USE SemaphoreAssumption DEF SemaphoreAssumption
  <1> DEFINE k == KeyOf[c]
  <1>0. SemTypeOK /\ Placed /\ Found /\ Counted /\ Capacity /\ k \in Keys
    BY DEF SemInv
  <1>1. PICK s \in Sems :
           /\ sem' = [sem EXCEPT ![c] = s] /\ at' = [at EXCEPT ![c] = "waiting"]
           /\ slots' = [slots EXCEPT ![k] = s]
           /\ \/ /\ slots[k] = s /\ users' = [users EXCEPT ![s] = @ + 1]
                 /\ length' = length
              \/ /\ slots[k] = Nil /\ Fresh(s)
                 /\ users' = [users EXCEPT ![s] = 1] /\ length' = [length EXCEPT ![s] = 0]
    BY <1>0 DEF Lookup, CallTo, SemTypeOK
  <1>2. at[c] = "out" /\ sem[c] = Nil /\ Limit[k] > 0
    BY <1>0 DEF Lookup, Placed
  <1>3. SemTypeOK'
    BY <1>0, <1>1 DEF SemTypeOK
  <1>4. Placed'
    BY <1>0, <1>1 DEF Placed, SemTypeOK
  <1>5. Found'
    <2>1. \A d \in Calls : sem'[d] # Nil => slots'[KeyOf[d]] = sem'[d]
      BY <1>0, <1>1, <1>2 DEF Found, SemTypeOK, Fresh
    <2>2. \A i, j \in Keys : slots'[i] # Nil /\ slots'[i] = slots'[j] => i = j
      BY <1>0, <1>1 DEF Found, SemTypeOK, Fresh
    <2>3. ASSUME NEW j \in Keys, slots'[j] # Nil
          PROVE  \E d \in Calls : sem'[d] = slots'[j]
      <3>1. CASE j = k
        BY <3>1, <1>0, <1>1 DEF SemTypeOK
      <3>2. CASE j # k
        <4>1. slots'[j] = slots[j]
          BY <3>2, <1>0, <1>1 DEF SemTypeOK
        <4>2. PICK d \in Calls : sem[d] = slots[j]
          BY <4>1, <2>3, <1>0 DEF Found
        <4>3. d # c /\ sem'[d] = sem[d]
          BY <4>1, <4>2, <2>3, <1>0, <1>1, <1>2 DEF SemTypeOK
        <4> QED BY <4>1, <4>2, <4>3
      <3> QED BY <3>1, <3>2
    <2> QED BY <2>1, <2>2, <2>3 DEF Found
  <1>6. Counted'
    <2> SUFFICES ASSUME NEW t \in Sems
                 PROVE  /\ users'[t] = Cardinality(Users(t)')
                        /\ length'[t] = Cardinality(Senders(t)')
      BY DEF Counted
    <2>1. Senders(t)' = Senders(t)
      BY <1>0, <1>1, <1>2 DEF Senders, SemTypeOK
    <2>2. CASE t # s
      <3>1. Users(t)' = Users(t)
        BY <2>2, <1>0, <1>1, <1>2 DEF Users, SemTypeOK
      <3> QED BY <2>1, <2>2, <3>1, <1>0, <1>1 DEF Counted, SemTypeOK
    <2>3. CASE t = s
      <3>1. Users(t)' = Users(t) \cup {c} /\ c \notin Users(t) /\ Users(t) \subseteq Calls
        BY <2>3, <1>0, <1>1, <1>2 DEF Users, SemTypeOK
      <3>2. Cardinality(Users(t)') = Cardinality(Users(t)) + 1
        BY <3>1, CallSets
      <3>3. Fresh(s) => Users(t) = {} /\ Senders(t) = {}
        BY <2>3, <1>1 DEF Fresh, Users, Senders
      <3>4. Cardinality({}) = 0
        BY FS_EmptySet
      <3>5. /\ users[t] = Cardinality(Users(t)) /\ length[t] = Cardinality(Senders(t))
            /\ users \in [Sems -> Nat] /\ length \in [Sems -> Nat]
        BY <1>0 DEF Counted, SemTypeOK
      <3>6. CASE slots[k] = s
        <4>1. users'[t] = users[t] + 1 /\ length'[t] = length[t]
          BY <2>3, <3>5, <3>6, <1>1
        <4> QED BY <4>1, <2>1, <3>2, <3>5
      <3>7. CASE slots[k] = Nil
        <4>1. users'[t] = 1 /\ length'[t] = 0 /\ Fresh(s)
          BY <2>3, <3>5, <3>7, <1>1
        <4> QED BY <4>1, <2>1, <3>2, <3>3, <3>4
      <3> QED BY <3>6, <3>7, <1>1
    <2> QED BY <2>2, <2>3
  <1>7. Capacity'
    <2> SUFFICES ASSUME NEW d \in Calls, sem'[d] # Nil
                 PROVE  length'[sem'[d]] <= Limit[KeyOf[d]]
      BY DEF Capacity
    <2>1. CASE slots[k] = Nil
      BY <2>1, <1>0, <1>1, <1>2 DEF Capacity, SemTypeOK, Fresh
    <2>2. CASE slots[k] = s
      <3>1. PICK e \in Calls : sem[e] = s
        BY <2>2, <1>0 DEF Found
      <3>2. KeyOf[e] = k
        BY <2>2, <3>1, <1>0 DEF Found, SemTypeOK
      <3>3. length[s] <= Limit[k]
        BY <3>1, <3>2, <1>0 DEF Capacity
      <3> QED BY <2>2, <3>3, <1>0, <1>1 DEF Capacity, SemTypeOK
    <2> QED BY <2>1, <2>2, <1>1
  <1> QED BY <1>3, <1>4, <1>5, <1>6, <1>7 DEF SemInv

LEMMA TakeStep ==
    ASSUME NEW c \in Calls, SemInv, Take(c)
    PROVE  SemInv'
  <1> USE SemaphoreAssumption DEF SemaphoreAssumption
  <1> DEFINE s == sem[c]
  <1>0. SemTypeOK /\ Placed /\ Found /\ Counted /\ Capacity
    BY DEF SemInv
  <1>1. /\ at[c] = "waiting" /\ s \in Sems /\ length[s] < Limit[KeyOf[c]]
        /\ length' = [length EXCEPT ![s] = @ + 1] /\ at' = [at EXCEPT ![c] = "holding"]
        /\ slots' = slots /\ users' = users /\ sem' = sem
    BY <1>0 DEF Take, CallTo, SemTypeOK, Placed
  <1> HIDE DEF s
  <1>2. SemTypeOK'
    BY <1>0, <1>1 DEF SemTypeOK
  <1>3. Placed'
    BY <1>0, <1>1 DEF Placed, SemTypeOK, s
  <1>4. Found'
    BY <1>0, <1>1 DEF Found
  <1>5. Counted'
    <2> SUFFICES ASSUME NEW t \in Sems
                 PROVE  /\ users'[t] = Cardinality(Users(t)')
                        /\ length'[t] = Cardinality(Senders(t)')
      BY DEF Counted
    <2>1. Users(t)' = Users(t)
      BY <1>1 DEF Users
    <2>2. CASE t # s
      <3>1. Senders(t)' = Senders(t)
        BY <2>2, <1>0, <1>1 DEF Senders, SemTypeOK, s
      <3> QED BY <2>1, <2>2, <3>1, <1>0, <1>1 DEF Counted, SemTypeOK
    <2>3. CASE t = s
      <3>1. Senders(t)' = Senders(t) \cup {c} /\ c \notin Senders(t) /\ Senders(t) \subseteq Calls
        BY <2>3, <1>0, <1>1 DEF Senders, SemTypeOK, s
      <3>2. Cardinality(Senders(t)') = Cardinality(Senders(t)) + 1
        BY <3>1, CallSets
      <3> QED BY <2>1, <2>3, <3>2, <1>0, <1>1 DEF Counted, SemTypeOK
    <2> QED BY <2>2, <2>3
  <1>6. Capacity'
    <2> SUFFICES ASSUME NEW d \in Calls, sem[d] # Nil
                 PROVE  length'[sem[d]] <= Limit[KeyOf[d]]
      BY <1>1 DEF Capacity
    <2>1. CASE sem[d] = s
      <3>1. KeyOf[d] = KeyOf[c]
        BY <2>1, <1>0, <1>1 DEF Found, s
      <3>2. length[s] \in Nat /\ Limit[KeyOf[c]] \in Int /\ length'[s] = length[s] + 1
        BY <1>0, <1>1 DEF SemTypeOK
      <3> QED BY <2>1, <3>1, <3>2, <1>1
    <2>2. CASE sem[d] # s
      BY <2>2, <1>0, <1>1 DEF Capacity, SemTypeOK
    <2> QED BY <2>1, <2>2
  <1> QED BY <1>2, <1>3, <1>4, <1>5, <1>6 DEF SemInv

LEMMA ReceiveStep ==
    ASSUME NEW c \in Calls, SemInv, Receive(c), sem[c] # Nil
    PROVE  SemInv'
  <1> USE SemaphoreAssumption DEF SemaphoreAssumption
  <1> DEFINE s == sem[c]
  <1>0. SemTypeOK /\ Placed /\ Found /\ Counted /\ Capacity
    BY DEF SemInv
  <1>1. /\ at[c] = "holding" /\ s \in Sems /\ length[s] > 0
        /\ length' = [length EXCEPT ![s] = @ - 1] /\ at' = [at EXCEPT ![c] = "leaving"]
        /\ slots' = slots /\ users' = users /\ sem' = sem
    BY <1>0 DEF Receive, CallTo, SemTypeOK
  <1> HIDE DEF s
  <1>2. SemTypeOK'
    BY <1>0, <1>1 DEF SemTypeOK
  <1>3. Placed'
    BY <1>0, <1>1 DEF Placed, SemTypeOK, s
  <1>4. Found'
    BY <1>0, <1>1 DEF Found
  <1>5. Counted'
    <2> SUFFICES ASSUME NEW t \in Sems
                 PROVE  /\ users'[t] = Cardinality(Users(t)')
                        /\ length'[t] = Cardinality(Senders(t)')
      BY DEF Counted
    <2>1. Users(t)' = Users(t)
      BY <1>1 DEF Users
    <2>2. CASE t # s
      <3>1. Senders(t)' = Senders(t)
        BY <2>2, <1>0, <1>1 DEF Senders, SemTypeOK, s
      <3> QED BY <2>1, <2>2, <3>1, <1>0, <1>1 DEF Counted, SemTypeOK
    <2>3. CASE t = s
      <3>1. Senders(t)' = Senders(t) \ {c} /\ c \in Senders(t) /\ Senders(t) \subseteq Calls
        BY <2>3, <1>0, <1>1 DEF Senders, SemTypeOK, s
      <3>2. Cardinality(Senders(t)') = Cardinality(Senders(t)) - 1
        BY <3>1, CallSets
      <3> QED BY <2>1, <2>3, <3>2, <1>0, <1>1 DEF Counted, SemTypeOK
    <2> QED BY <2>2, <2>3
  <1>6. Capacity'
    BY <1>0, <1>1 DEF Capacity, SemTypeOK
  <1> QED BY <1>2, <1>3, <1>4, <1>5, <1>6 DEF SemInv

(* A call without a limit moves between "out" and "holding" only.          *)
LEMMA FreeStep ==
    ASSUME NEW c \in Calls, SemInv,
           Unlimited(c) \/ (Receive(c) /\ sem[c] = Nil)
    PROVE  SemInv'
  <1> USE SemaphoreAssumption DEF SemaphoreAssumption
  <1>0. SemTypeOK /\ Placed /\ Found /\ Counted /\ Capacity
    BY DEF SemInv
  <1>1. /\ sem[c] = Nil /\ slots' = slots /\ users' = users /\ length' = length /\ sem' = sem
        /\ \/ at' = [at EXCEPT ![c] = "holding"] /\ Limit[KeyOf[c]] <= 0
           \/ at' = [at EXCEPT ![c] = "out"]
    BY <1>0 DEF Unlimited, Receive, CallTo, Placed
  <1>2. SemTypeOK' /\ Found' /\ Capacity'
    BY <1>0, <1>1 DEF SemTypeOK, Found, Capacity
  <1>3. Placed'
    BY <1>0, <1>1 DEF Placed, SemTypeOK
  <1>4. ASSUME NEW t \in Sems PROVE Users(t)' = Users(t) /\ Senders(t)' = Senders(t)
    BY <1>0, <1>1 DEF Users, Senders, SemTypeOK
  <1>5. Counted'
    BY <1>0, <1>1, <1>4 DEF Counted
  <1> QED BY <1>2, <1>3, <1>5 DEF SemInv

(* The last user that leaves a key forgets it, and nobody else does.       *)
LEMMA LeaveStep ==
    ASSUME NEW c \in Calls, SemInv, GiveUp(c) \/ Leave(c)
    PROVE  SemInv'
  <1> USE SemaphoreAssumption DEF SemaphoreAssumption
  <1> DEFINE k == KeyOf[c]
  <1>0. SemTypeOK /\ Placed /\ Found /\ Counted /\ Capacity /\ k \in Keys
    BY DEF SemInv
  <1>s. PICK s \in Sems : s = sem[c]
    BY <1>0 DEF GiveUp, Leave, SemTypeOK, Placed
  <1>1. /\ at[c] \in {"waiting", "leaving"} /\ sem[c] = s /\ slots[k] = s
        /\ users' = [users EXCEPT ![s] = @ - 1]
        /\ slots' = IF users[s] = 1 THEN [slots EXCEPT ![k] = Nil] ELSE slots
        /\ sem' = [sem EXCEPT ![c] = Nil] /\ at' = [at EXCEPT ![c] = "out"]
        /\ length' = length
    BY <1>0, <1>s DEF GiveUp, Leave, leave, CallTo, SemTypeOK, Placed, Found
  <1> HIDE DEF k
  <1>2. /\ Users(s)' = Users(s) \ {c} /\ c \in Users(s) /\ Users(s) \subseteq Calls
        /\ users[s] = Cardinality(Users(s))
    BY <1>0, <1>1 DEF Users, SemTypeOK, Counted
  <1>3. /\ Cardinality(Users(s)') = users[s] - 1 /\ users[s] \in Nat /\ users[s] > 0
        /\ Cardinality(Users(s)') = 0 <=> Users(s)' = {}
    <2>1. Users(s)' \subseteq Calls
      BY <1>2
    <2> QED BY <2>1, <1>2, CallSets
  <1>4. SemTypeOK'
    BY <1>0, <1>1, <1>3 DEF SemTypeOK
  <1>5. Placed'
    BY <1>0, <1>1 DEF Placed, SemTypeOK
  <1>6. Found'
    <2>1. ASSUME NEW d \in Calls, sem'[d] # Nil
          PROVE  slots'[KeyOf[d]] = sem'[d]
      <3>1. d # c /\ sem'[d] = sem[d] /\ slots[KeyOf[d]] = sem[d]
        BY <2>1, <1>0, <1>1 DEF SemTypeOK, Found
      <3>2. CASE KeyOf[d] = k
        <4>1. d \in Users(s)'
          BY <3>1, <3>2, <1>1 DEF Users
        <4> QED BY <4>1, <3>1, <1>1, <1>3
      <3>3. CASE KeyOf[d] # k
        BY <3>1, <3>3, <1>0, <1>1 DEF SemTypeOK
      <3> QED BY <3>2, <3>3
    <2>2. \A i, j \in Keys : slots'[i] # Nil /\ slots'[i] = slots'[j] => i = j
      BY <1>0, <1>1 DEF Found, SemTypeOK
    <2>3. ASSUME NEW j \in Keys, slots'[j] # Nil
          PROVE  \E d \in Calls : sem'[d] = slots'[j]
      <3>1. slots'[j] = slots[j]
        BY <2>3, <1>0, <1>1 DEF SemTypeOK
      <3>2. CASE j = k
        <4>1. users[s] # 1
          BY <2>3, <3>2, <1>0, <1>1 DEF SemTypeOK
        <4>2. PICK d \in Calls : d \in Users(s)'
          BY <4>1, <1>2, <1>3
        <4> QED BY <4>2, <3>1, <3>2, <1>1 DEF Users
      <3>3. CASE j # k
        <4>1. PICK d \in Calls : sem[d] = slots[j]
          BY <2>3, <3>1, <1>0 DEF Found
        <4>2. d # c
          BY <4>1, <3>1, <3>3, <2>3, <1>0, <1>1 DEF Found
        <4> QED BY <4>1, <4>2, <3>1, <1>0, <1>1 DEF SemTypeOK
      <3> QED BY <3>2, <3>3
    <2> QED BY <2>1, <2>2, <2>3 DEF Found
  <1>7. Counted'
    <2> SUFFICES ASSUME NEW t \in Sems
                 PROVE  /\ users'[t] = Cardinality(Users(t)')
                        /\ length'[t] = Cardinality(Senders(t)')
      BY DEF Counted
    <2>1. Senders(t)' = Senders(t)
      BY <1>0, <1>1 DEF Senders, SemTypeOK
    <2>2. t # s => Users(t)' = Users(t)
      BY <1>0, <1>1 DEF Users, SemTypeOK
    <2>3. users'[t] = Cardinality(Users(t)')
      BY <2>2, <1>0, <1>1, <1>3 DEF Counted, SemTypeOK
    <2> QED BY <2>1, <2>3, <1>0, <1>1 DEF Counted
  <1>8. Capacity'
    BY <1>0, <1>1 DEF Capacity, SemTypeOK
  <1> QED BY <1>4, <1>5, <1>6, <1>7, <1>8 DEF SemInv

-----------------------------------------------------------------------------
LEMMA NextSem == SemInv /\ [SemNext]_svars => SemInv'
  <1> SUFFICES ASSUME SemInv, [SemNext]_svars PROVE SemInv'
    OBVIOUS
  <1>1. CASE SemNext
    <2>1. PICK c \in Calls : \/ Unlimited(c) \/ Lookup(c) \/ Take(c)
                             \/ GiveUp(c) \/ Receive(c) \/ Leave(c)
      BY <1>1 DEF SemNext
    <2> QED BY <2>1, FreeStep, LookupStep, TakeStep, ReceiveStep, LeaveStep
  <1>2. CASE UNCHANGED svars
    BY <1>2 DEF svars, SemInv, SemTypeOK, Placed, Found, Counted, Capacity, Users, Senders
  <1> QED BY <1>1, <1>2

LEMMA SemInvHolds == SemSpec => []SemInv
  BY InitSem, NextSem, PTL DEF SemSpec

(* The holders of a key all sent to the one channel its key finds, which   *)
(* has room for the limit: policy/concurrency.go's promise, for any        *)
(* number of callers and keys.                                             *)
THEOREM KeysStayBounded == SemSpec => []KeyBounded
  <1>1. SemInv => KeyBounded
    <2> SUFFICES ASSUME SemInv, NEW k \in Keys, Limit[k] > 0
                 PROVE  Cardinality(Holders(k)) <= Limit[k]
      BY DEF KeyBounded
    <2> USE SemaphoreAssumption DEF SemaphoreAssumption
    <2>1. CASE Holders(k) = {}
      <3>1. Cardinality(Holders(k)) = 0
        BY <2>1, FS_EmptySet
      <3> QED BY <3>1
    <2>2. CASE Holders(k) # {}
      <3>1. PICK c \in Calls : KeyOf[c] = k /\ at[c] = "holding"
        BY <2>2 DEF Holders
      <3>2. sem[c] # Nil /\ sem[c] = slots[k] /\ sem[c] \in Sems
        BY <3>1 DEF SemInv, Placed, Found, SemTypeOK
      <3>3. Holders(k) = Senders(sem[c])
        BY <3>1, <3>2 DEF Holders, Senders, SemInv, Placed, Found
      <3>4. Cardinality(Holders(k)) = length[sem[c]]
        BY <3>2, <3>3 DEF SemInv, Counted
      <3> QED BY <3>1, <3>2, <3>4 DEF SemInv, Capacity
    <2> QED BY <2>1, <2>2
  <1> QED BY <1>1, SemInvHolds, PTL

(* A key is in the map exactly while somebody holds it or waits for it,    *)
(* and everybody who does uses the same semaphore.                         *)
THEOREM KeysForgotten == SemSpec => []KeysInUse
  <1>1. SemInv => KeysInUse
    <2> SUFFICES ASSUME SemInv, NEW k \in Keys
                 PROVE  /\ slots[k] # Nil <=> \E c \in Calls : KeyOf[c] = k /\ sem[c] # Nil
                        /\ \A c \in Calls : KeyOf[c] = k /\ sem[c] # Nil => sem[c] = slots[k]
      BY DEF KeysInUse
    <2>1. ASSUME slots[k] # Nil PROVE \E c \in Calls : KeyOf[c] = k /\ sem[c] # Nil
      <3>1. PICK c \in Calls : sem[c] = slots[k]
        BY <2>1 DEF SemInv, Found
      <3>2. KeyOf[c] = k
        BY <2>1, <3>1, SemaphoreAssumption DEF SemInv, Found, SemaphoreAssumption
      <3> QED BY <2>1, <3>1, <3>2
    <2> QED BY <2>1 DEF SemInv, Found
  <1> QED BY <1>1, SemInvHolds, PTL

-----------------------------------------------------------------------------
(*                                Admission                                *)

(* The call a run makes for the i-th slot it wants, and which of them are  *)
(* slots of a key.                                                         *)
Slot(r, i) == <<r, Wants(r)[i]>>

Own(r) == {i \in 1 .. Len(Wants(r)) : Wants(r)[i] # Global}

Tenant(r) == <<"tenant", TenantOf[r]>>

Workflow(r) == <<"workflow", TenantOf[r], WorkflowOf[r]>>

-----------------------------------------------------------------------------
(* A sequence with one more element.                                       *)
LEMMA ConcatOne ==
    ASSUME NEW S, NEW s \in Seq(S), NEW b \in S
    PROVE  /\ s \o <<b>> \in Seq(S)
           /\ Len(s \o <<b>>) = Len(s) + 1
           /\ \A i \in 1 .. Len(s) : (s \o <<b>>)[i] = s[i]
           /\ (s \o <<b>>)[Len(s) + 1] = b
  <1> DEFINE t == <<b>>
  <1>1. t \in Seq(S) /\ Len(t) = 1 /\ t[1] = b
    OBVIOUS
  <1> HIDE DEF t
  <1>2. /\ s \o t \in Seq(S)
        /\ Len(s \o t) = Len(s) + Len(t)
        /\ \A i \in 1 .. Len(s) + Len(t) : (s \o t)[i] =
                     IF i <= Len(s) THEN s[i] ELSE t[i - Len(s)]
    BY <1>1, ConcatProperties
  <1>3. Len(s) \in Nat
    OBVIOUS
  <1>4. Len(s \o t) = Len(s) + 1
    BY <1>1, <1>2
  <1>5. \A i \in 1 .. Len(s) : (s \o t)[i] = s[i]
    BY <1>1, <1>2, <1>3
  <1>6. (s \o t)[Len(s) + 1] = b
    <2>1. (s \o t)[Len(s) + 1] = t[(Len(s) + 1) - Len(s)]
      BY <1>1, <1>2, <1>3
    <2>2. (Len(s) + 1) - Len(s) = 1
      BY <1>3
    <2> QED BY <1>1, <2>1, <2>2
  <1> QED BY <1>2, <1>4, <1>5, <1>6 DEF t

LEMMA KeysDiffer ==
    ASSUME NEW r \in Runs
    PROVE  /\ Tenant(r) # Global /\ Workflow(r) # Global /\ Tenant(r) # Workflow(r)
           /\ \A k : <<"call", k>> # Tenant(r) /\ <<"call", k>> # Workflow(r)
  BY DEF Tenant, Workflow, Global

(* acquireRunSlots takes a run's tenant first, then its workflow.          *)
LEMMA RunKeysAre ==
    ASSUME NEW r \in Runs
    PROVE  LET ks == RunKeys(r) IN
           /\ ks \in Seq({Tenant(r), Workflow(r), Global})
           /\ Len(ks) = IF WorkflowOf[r] = NoName THEN 1 ELSE 2
           /\ ks[1] = Tenant(r)
           /\ WorkflowOf[r] # NoName => ks[2] = Workflow(r)
  <1> DEFINE S == {Tenant(r), Workflow(r), Global}
             t == <<Tenant(r)>>
  <1>1. t \in Seq(S) /\ Len(t) = 1 /\ t[1] = Tenant(r)
    OBVIOUS
  <1>2. RunKeys(r) = t \o (IF WorkflowOf[r] = NoName THEN <<>> ELSE <<Workflow(r)>>)
    BY DEF RunKeys, Tenant, Workflow
  <1>3. CASE WorkflowOf[r] = NoName
    <2>1. RunKeys(r) = t
      BY <1>1, <1>2, <1>3
    <2> QED BY <1>1, <1>3, <2>1
  <1>4. CASE WorkflowOf[r] # NoName
    <2> HIDE DEF t, S
    <2>1. Workflow(r) \in S
      BY DEF S
    <2>2. RunKeys(r) = t \o <<Workflow(r)>>
      BY <1>2, <1>4
    <2>3. /\ RunKeys(r) \in Seq(S) /\ Len(RunKeys(r)) = 2
          /\ RunKeys(r)[1] = t[1] /\ RunKeys(r)[2] = Workflow(r)
      <3>1. /\ t \o <<Workflow(r)>> \in Seq(S)
            /\ Len(t \o <<Workflow(r)>>) = Len(t) + 1
            /\ \A i \in 1 .. Len(t) : (t \o <<Workflow(r)>>)[i] = t[i]
            /\ (t \o <<Workflow(r)>>)[Len(t) + 1] = Workflow(r)
        BY <1>1, <2>1, ConcatOne
      <3> QED BY <1>1, <2>2, <3>1
    <2> QED BY <1>1, <1>4, <2>3 DEF S
  <1> QED BY <1>3, <1>4

(* The process's slot comes last, if it is limited.                        *)
LEMMA WantsAre ==
    ASSUME NEW r \in Runs
    PROVE  LET n == Len(Wants(r)) IN
           /\ n \in 1 .. 3
           /\ 1 \in Own(r) /\ Wants(r)[1] = Tenant(r)
           /\ WorkflowOf[r] # NoName => 2 \in Own(r) /\ Wants(r)[2] = Workflow(r)
           /\ \A i \in Own(r) : i = 1 \/ (i = 2 /\ WorkflowOf[r] # NoName)
           /\ \A i \in 1 .. n : i \notin Own(r) <=> i = n /\ MaxActiveRuns > 0
           /\ MaxActiveRuns > 0 => n >= 2
  <1> DEFINE ks == RunKeys(r)
             S == {Tenant(r), Workflow(r), Global}
  <1>1. /\ ks \in Seq(S) /\ Len(ks) = IF WorkflowOf[r] = NoName THEN 1 ELSE 2
        /\ ks[1] = Tenant(r) /\ (WorkflowOf[r] # NoName => ks[2] = Workflow(r))
    BY RunKeysAre
  <1>2. Global \in S
    OBVIOUS
  <1> HIDE DEF ks, S
  <1>3. CASE MaxActiveRuns > 0
    <2>1. Wants(r) = ks \o <<Global>>
      BY <1>3 DEF Wants, ks
    <2>2. /\ Len(Wants(r)) = Len(ks) + 1
          /\ \A i \in 1 .. Len(ks) : Wants(r)[i] = ks[i]
          /\ Wants(r)[Len(ks) + 1] = Global
      BY <1>1, <1>2, <2>1, ConcatOne
    <2>3. Own(r) = 1 .. Len(ks)
      BY <1>1, <2>2, KeysDiffer DEF Own
    <2> QED BY <1>1, <1>3, <2>2, <2>3
  <1>4. CASE ~(MaxActiveRuns > 0)
    <2>1. Wants(r) = ks \o <<>>
      BY <1>4 DEF Wants, ks
    <2>2. Wants(r) = ks
      BY <1>1, <2>1, ConcatEmptySeq
    <2>3. Own(r) = 1 .. Len(ks)
      BY <1>1, <2>2, KeysDiffer DEF Own
    <2>4. CASE WorkflowOf[r] = NoName
      <3>1. Len(ks) = 1 /\ ks[1] = Tenant(r)
        BY <1>1, <2>4
      <3> QED BY <1>4, <2>2, <2>3, <2>4, <3>1
    <2>5. CASE WorkflowOf[r] # NoName
      <3>1. Len(ks) = 2 /\ ks[1] = Tenant(r) /\ ks[2] = Workflow(r)
        BY <1>1, <2>5
      <3> QED BY <1>4, <2>2, <2>3, <2>5, <3>1
    <2> QED BY <2>4, <2>5
  <1> QED BY <1>3, <1>4

(* The calls of the semaphores are the slots of the runs and the calls     *)
(* they make while they execute.                                           *)
LEMMA KeysOfRun ==
    ASSUME NEW r \in Runs, NEW k
    PROVE  k \in ToSet(RunKeys(r)) <=> \E i \in Own(r) : k = Wants(r)[i]
  <1> DEFINE ks == RunKeys(r)
  <1>1. /\ ks \in Seq({Tenant(r), Workflow(r), Global})
        /\ Len(ks) = IF WorkflowOf[r] = NoName THEN 1 ELSE 2
        /\ ks[1] = Tenant(r) /\ (WorkflowOf[r] # NoName => ks[2] = Workflow(r))
    BY RunKeysAre
  <1> HIDE DEF ks
  <1>2. ToSet(ks) = {ks[i] : i \in 1 .. Len(ks)}
    BY <1>1 DEF ToSet
  <1>3. k \in ToSet(ks) <=> k = Tenant(r) \/ (WorkflowOf[r] # NoName /\ k = Workflow(r))
    <2>1. CASE WorkflowOf[r] = NoName
      BY <1>1, <1>2, <2>1
    <2>2. CASE WorkflowOf[r] # NoName
      BY <1>1, <1>2, <2>2
    <2> QED BY <2>1, <2>2
  <1>4. (\E i \in Own(r) : k = Wants(r)[i])
           <=> k = Tenant(r) \/ (WorkflowOf[r] # NoName /\ k = Workflow(r))
    BY WantsAre
  <1> QED BY <1>3, <1>4 DEF ks

LEMMA CallsAre ==
    ASSUME NEW c
    PROVE  c \in Calls <=> \E r \in Runs : \/ \E i \in Own(r) : c = Slot(r, i)
                                           \/ \E k \in Inner : c = InnerCall(r, k)
  <1>1. c \in Calls <=> \E r \in Runs : \/ \E k \in ToSet(RunKeys(r)) : c = <<r, k>>
                                        \/ \E k \in Inner : c = InnerCall(r, k)
    BY AdmissionAssumption DEF AdmissionAssumption, SlotCalls
  <1>2. ASSUME NEW r \in Runs
        PROVE  (\E k \in ToSet(RunKeys(r)) : c = <<r, k>>) <=> \E i \in Own(r) : c = Slot(r, i)
    BY KeysOfRun DEF Slot
  <1> QED BY <1>1, <1>2

(* The calls of one run are different, and so are those of different runs. *)
LEMMA CallsDiffer ==
    ASSUME NEW r \in Runs, NEW i \in Own(r)
    PROVE  /\ \A j \in Own(r) : Slot(r, i) = Slot(r, j) => i = j
           /\ \A k \in Inner : Slot(r, i) # InnerCall(r, k)
           /\ \A q \in Runs : \A j : q # r => Slot(r, i) # Slot(q, j)
           /\ \A q \in Runs : \A k : q # r => Slot(r, i) # InnerCall(q, k)
  <1>1. \A j \in Own(r) : Slot(r, i) = Slot(r, j) => i = j
    BY WantsAre, KeysDiffer DEF Slot
  <1>2. ASSUME NEW k \in Inner PROVE Slot(r, i) # InnerCall(r, k)
    <2>1. Wants(r)[i] = Tenant(r) \/ Wants(r)[i] = Workflow(r)
      BY WantsAre
    <2>2. Wants(r)[i] # <<"call", k>>
      BY <2>1, KeysDiffer
    <2> QED BY <2>2 DEF Slot, InnerCall
  <1>3. \A q \in Runs : \A j : q # r => Slot(r, i) # Slot(q, j)
    BY DEF Slot
  <1>4. \A q \in Runs : \A k : q # r => Slot(r, i) # InnerCall(q, k)
    BY DEF Slot, InnerCall
  <1> QED BY <1>1, <1>2, <1>3, <1>4

LEMMA InnerDiffer ==
    ASSUME NEW r \in Runs, NEW k \in Inner
    PROVE  /\ \A j \in Inner : InnerCall(r, k) = InnerCall(r, j) => k = j
           /\ \A q \in Runs : \A j : q # r => InnerCall(r, k) # InnerCall(q, j)
  BY DEF InnerCall

(* The keys of a run's slots have the limits of the configuration.         *)
LEMMA LimitsAre ==
    ASSUME NEW r \in Runs
    PROVE  /\ Slot(r, 1) \in Calls /\ Slot(r, 1) = <<r, Tenant(r)>>
           /\ KeyOf[Slot(r, 1)] = Tenant(r) /\ Tenant(r) \in Keys
           /\ Limit[Tenant(r)] = PerTenant
           /\ WorkflowOf[r] # NoName =>
                /\ Slot(r, 2) \in Calls /\ Slot(r, 2) = <<r, Workflow(r)>>
                /\ KeyOf[Slot(r, 2)] = Workflow(r) /\ Workflow(r) \in Keys
                /\ Limit[Workflow(r)] = PerWorkflow
  <1> USE AdmissionAssumption DEF AdmissionAssumption
  <1>1. Slot(r, 1) \in Calls /\ Slot(r, 1) = <<r, Tenant(r)>>
    BY WantsAre, CallsAre DEF Slot
  <1>2. KeyOf[Slot(r, 1)] = Tenant(r)
    BY <1>1 DEF SlotKey, Tenant
  <1>3. Tenant(r) \in Keys
    BY <1>1, <1>2 DEF Keys
  <1>4. Limit[Tenant(r)] = PerTenant
    BY <1>3 DEF SlotLimit, Tenant, Keys
  <1>5. ASSUME WorkflowOf[r] # NoName
        PROVE  /\ Slot(r, 2) \in Calls /\ Slot(r, 2) = <<r, Workflow(r)>>
               /\ KeyOf[Slot(r, 2)] = Workflow(r) /\ Workflow(r) \in Keys
               /\ Limit[Workflow(r)] = PerWorkflow
    <2>1. Slot(r, 2) \in Calls /\ Slot(r, 2) = <<r, Workflow(r)>>
      BY <1>5, WantsAre, CallsAre DEF Slot
    <2>2. KeyOf[Slot(r, 2)] = Workflow(r)
      BY <2>1 DEF SlotKey, Workflow
    <2>3. Workflow(r) \in Keys
      BY <2>1, <2>2 DEF Keys
    <2>4. Limit[Workflow(r)] = PerWorkflow
      BY <2>3 DEF SlotLimit, Workflow, Keys
    <2> QED BY <2>1, <2>2, <2>3, <2>4
  <1> QED BY <1>1, <1>2, <1>3, <1>4, <1>5

-----------------------------------------------------------------------------
(* The inductive invariant.                                                *)

Places == {"new", "refused", "admitted", "executing", "unwinding", "aborting",
           "canceled", "executed", "queued", "done"}

(* Where the call for the i-th slot of a run may be, when the run is at    *)
(* place and has come to the n-th: slots are taken in order, all are held  *)
(* while it executes, and they are given back last first.                  *)
Place(place, n, i) ==
    IF place = "executing" THEN {"holding"}
    ELSE IF place \notin {"queued", "unwinding", "aborting"} THEN {"out"}
    ELSE IF i < n THEN {"holding"}
    ELSE IF i > n THEN {"out"}
    ELSE IF place = "queued" THEN {"out", "waiting"} ELSE {"holding", "leaving"}

RunOK(r) ==
    /\ pc[r] \in {"new", "admitted"} => next[r] = 1
    /\ pc[r] = "queued" => next[r] \in 1 .. Len(Wants(r)) + 1
    /\ pc[r] = "unwinding" => next[r] \in 0 .. Len(Wants(r))
    /\ pc[r] = "aborting" => next[r] \in 0 .. Len(Wants(r)) - 1
    /\ \A i \in Own(r) : at[Slot(r, i)] \in Place(pc[r], next[r], i)
    /\ \A k \in Inner : at[InnerCall(r, k)] # "out" => pc[r] = "executing"

(* The runs the process has taken in, and those that have its slot.        *)
Admitted == {r \in Runs : pc[r] \notin {"new", "refused", "done"}}

HasGlobal(r) ==
    /\ MaxActiveRuns > 0
    /\ \/ pc[r] = "executing"
       \/ pc[r] = "queued" /\ next[r] > Len(Wants(r))
       \/ pc[r] = "unwinding" /\ next[r] = Len(Wants(r))

Globals == {r \in Runs : HasGlobal(r)}

AdmTypes ==
    /\ pc \in [Runs -> Places] /\ next \in [Runs -> 0 .. 4]
    /\ ended \subseteq Runs
    /\ shutdown \in {"no", "draining", "stopped", "returned"}

Counts ==
    /\ inflight = Cardinality(Admitted)
    /\ active = Cardinality(Globals) /\ active <= MaxActiveRuns

Returned == shutdown = "returned" => Quiet

AdmInv ==
    /\ AdmTypes /\ SemInv /\ (\A r \in Runs : RunOK(r))
    /\ Counts /\ Returned

-----------------------------------------------------------------------------
(* Sets of runs.                                                           *)

LEMMA RunSets ==
    ASSUME NEW S, S \subseteq Runs, NEW r \in Runs
    PROVE  /\ IsFiniteSet(S) /\ Cardinality(S) \in Nat
           /\ Cardinality(S) <= Cardinality(Runs) /\ Cardinality(Runs) \in Nat
           /\ r \notin S => Cardinality(S \cup {r}) = Cardinality(S) + 1
           /\ r \in S => Cardinality(S \ {r}) = Cardinality(S) - 1
           /\ Cardinality(S) = 0 <=> S = {}
  <1>1. IsFiniteSet(S) /\ Cardinality(S) <= Cardinality(Runs) /\ IsFiniteSet(Runs)
    BY AdmissionAssumption, FS_Subset DEF AdmissionAssumption
  <1>2. Cardinality(S) \in Nat /\ Cardinality(Runs) \in Nat /\ (Cardinality(S) = 0 <=> S = {})
    BY <1>1, FS_CardinalityType, FS_EmptySet
  <1>3. Cardinality(S \cup {r}) = IF r \in S THEN Cardinality(S) ELSE Cardinality(S) + 1
    BY <1>1, FS_AddElement
  <1>4. Cardinality(S \ {r}) = IF r \in S THEN Cardinality(S) - 1 ELSE Cardinality(S)
    BY <1>1, FS_RemoveElement
  <1> QED BY <1>1, <1>2, <1>3, <1>4

(* A step of the semaphores moves one call.                                *)
Untouched(q) ==
    /\ \A j \in Own(q) : at'[Slot(q, j)] = at[Slot(q, j)]
    /\ \A k \in Inner : at'[InnerCall(q, k)] = at[InnerCall(q, k)]

LEMMA OwnCalls ==
    ASSUME NEW q \in Runs
    PROVE  /\ \A j \in Own(q) : Slot(q, j) \in Calls
           /\ \A k \in Inner : InnerCall(q, k) \in Calls
  BY CallsAre

LEMMA SlotMoves ==
    ASSUME SemTypeOK, NEW r \in Runs, NEW i \in Own(r), NEW x,
           at' = [at EXCEPT ![Slot(r, i)] = x]
    PROVE  /\ at'[Slot(r, i)] = x
           /\ \A j \in Own(r) : j # i => at'[Slot(r, j)] = at[Slot(r, j)]
           /\ \A k \in Inner : at'[InnerCall(r, k)] = at[InnerCall(r, k)]
           /\ \A q \in Runs : q # r => Untouched(q)
  <1>1. \A c \in Calls : at'[c] = IF c = Slot(r, i) THEN x ELSE at[c]
    BY DEF SemTypeOK
  <1>2. at'[Slot(r, i)] = x
    BY <1>1, OwnCalls
  <1>3. \A j \in Own(r) : j # i => at'[Slot(r, j)] = at[Slot(r, j)]
    BY <1>1, OwnCalls, CallsDiffer
  <1>4. \A k \in Inner : at'[InnerCall(r, k)] = at[InnerCall(r, k)]
    BY <1>1, OwnCalls, CallsDiffer
  <1>5. ASSUME NEW q \in Runs, q # r PROVE Untouched(q)
    BY <1>1, <1>5, OwnCalls, CallsDiffer DEF Untouched
  <1> QED BY <1>2, <1>3, <1>4, <1>5

LEMMA InnerMoves ==
    ASSUME SemTypeOK, NEW r \in Runs, NEW i \in Inner, NEW x,
           at' = [at EXCEPT ![InnerCall(r, i)] = x]
    PROVE  /\ at'[InnerCall(r, i)] = x
           /\ \A j \in Own(r) : at'[Slot(r, j)] = at[Slot(r, j)]
           /\ \A k \in Inner : k # i => at'[InnerCall(r, k)] = at[InnerCall(r, k)]
           /\ \A q \in Runs : q # r => Untouched(q)
  <1>1. \A c \in Calls : at'[c] = IF c = InnerCall(r, i) THEN x ELSE at[c]
    BY DEF SemTypeOK
  <1>2. at'[InnerCall(r, i)] = x
    BY <1>1, OwnCalls
  <1>3. \A j \in Own(r) : at'[Slot(r, j)] = at[Slot(r, j)]
    BY <1>1, OwnCalls, CallsDiffer
  <1>4. \A k \in Inner : k # i => at'[InnerCall(r, k)] = at[InnerCall(r, k)]
    BY <1>1, OwnCalls, InnerDiffer
  <1>5. ASSUME NEW q \in Runs, q # r PROVE Untouched(q)
    BY <1>1, <1>5, OwnCalls, CallsDiffer, InnerDiffer DEF Untouched
  <1> QED BY <1>2, <1>3, <1>4, <1>5

(* A step of run r leaves the others as they were.                         *)
LEMMA OneRun ==
    ASSUME \A q \in Runs : RunOK(q), NEW r \in Runs, RunOK(r)',
           \A q \in Runs : q # r => Untouched(q) /\ pc'[q] = pc[q] /\ next'[q] = next[q]
    PROVE  /\ \A q \in Runs : RunOK(q)'
           /\ \A q \in Runs : q # r => (HasGlobal(q)' <=> HasGlobal(q))
  <1>1. ASSUME NEW q \in Runs, q # r PROVE RunOK(q)'
    BY <1>1 DEF RunOK, Untouched
  <1>2. ASSUME NEW q \in Runs, q # r PROVE (HasGlobal(q)' <=> HasGlobal(q))
    BY <1>2 DEF HasGlobal
  <1> QED BY <1>1, <1>2

(* What a step of run r has to show.                                       *)
LEMMA RunStep ==
    ASSUME AdmInv, NEW r \in Runs, AdmTypes', [SemNext]_svars, RunOK(r)',
           \A q \in Runs : q # r => Untouched(q) /\ pc'[q] = pc[q] /\ next'[q] = next[q],
           inflight' = inflight + (IF r \in Admitted' THEN 1 ELSE 0)
                                - (IF r \in Admitted THEN 1 ELSE 0),
           active' = active + (IF HasGlobal(r)' THEN 1 ELSE 0)
                            - (IF HasGlobal(r) THEN 1 ELSE 0),
           active' <= MaxActiveRuns,
           shutdown' = shutdown,
           shutdown = "returned" /\ r \notin Admitted => r \notin Admitted'
    PROVE  AdmInv'
  <1>1. /\ \A q \in Runs : RunOK(q)'
        /\ \A q \in Runs : q # r => (HasGlobal(q)' <=> HasGlobal(q))
    BY OneRun DEF AdmInv
  <1>2. SemInv'
    BY NextSem DEF AdmInv
  <1>3. inflight' = Cardinality(Admitted')
    <2>1. Admitted \subseteq Runs /\ Admitted' \subseteq Runs
      BY DEF Admitted
    <2>2. \A q \in Runs : q # r => (q \in Admitted' <=> q \in Admitted)
      BY DEF Admitted
    <2>3. inflight = Cardinality(Admitted) /\ Cardinality(Admitted) \in Nat
      BY <2>1, RunSets DEF AdmInv, Counts
    <2>4. CASE r \in Admitted <=> r \in Admitted'
      <3>1. \A q \in Runs : q \in Admitted' <=> q \in Admitted
        BY <2>2, <2>4
      <3>2. Admitted' = Admitted
        BY <2>1, <3>1, Zenon
      <3> QED BY <2>3, <2>4, <3>2
    <2>5. CASE r \in Admitted' /\ r \notin Admitted
      <3>1. Admitted' = Admitted \cup {r}
        BY <2>1, <2>2, <2>5
      <3> QED BY <2>1, <2>3, <2>5, <3>1, RunSets
    <2>6. CASE r \notin Admitted' /\ r \in Admitted
      <3>1. Admitted' = Admitted \ {r}
        BY <2>1, <2>2, <2>6
      <3> QED BY <2>1, <2>3, <2>6, <3>1, RunSets
    <2> QED BY <2>4, <2>5, <2>6
  <1>4. active' = Cardinality(Globals')
    <2>1. Globals \subseteq Runs /\ Globals' \subseteq Runs
      BY DEF Globals
    <2>2. /\ r \in Globals <=> HasGlobal(r)
          /\ r \in Globals' <=> HasGlobal(r)'
          /\ \A q \in Runs : q # r => (q \in Globals' <=> q \in Globals)
      BY <1>1 DEF Globals
    <2>3. active = Cardinality(Globals) /\ Cardinality(Globals) \in Nat
      BY <2>1, RunSets DEF AdmInv, Counts
    <2> HIDE DEF HasGlobal
    <2>4. CASE r \in Globals <=> r \in Globals'
      <3>1. Globals' = Globals
        BY <2>1, <2>2, <2>4
      <3> QED BY <2>2, <2>3, <2>4, <3>1
    <2>5. CASE r \in Globals' /\ r \notin Globals
      <3>1. Globals' = Globals \cup {r}
        BY <2>1, <2>2, <2>5
      <3> QED BY <2>1, <2>2, <2>3, <2>5, <3>1, RunSets
    <2>6. CASE r \notin Globals' /\ r \in Globals
      <3>1. Globals' = Globals \ {r}
        BY <2>1, <2>2, <2>6
      <3> QED BY <2>1, <2>2, <2>3, <2>6, <3>1, RunSets
    <2> QED BY <2>4, <2>5, <2>6
  <1>5. Returned'
    BY DEF AdmInv, Returned, Quiet, Admitted
  <1> QED BY <1>1, <1>2, <1>3, <1>4, <1>5 DEF AdmInv, Counts

(* admit, what createRun and resume do then, and the steps of a run that   *)
(* touch no slot.                                                          *)
LEMMA AdmitStep ==
    ASSUME AdmInv, NEW r \in Runs,
           \/ admit(r) \/ refuse(r) \/ CreateFails(r) \/ Launch(r) \/ Starts(r)
           \/ Released(r) \/ ExecuteEnds(r) \/ release(r) \/ EndContext(r)
    PROVE  AdmInv'
  <1>1. AdmTypes /\ RunOK(r) /\ Counts /\ Returned
    BY DEF AdmInv
  <1>2. svars' = svars /\ shutdown' = shutdown /\ active' = active
    BY DEF admit, refuse, CreateFails, Launch, Starts, Released, ExecuteEnds, release,
           EndContext
  <1>3. at' = at
    BY <1>2 DEF svars
  <1>4. Len(Wants(r)) \in 1 .. 3
    BY WantsAre
  <1>5. AdmTypes'
    <2>1. pc' \in [Runs -> Places]
      BY <1>1 DEF AdmTypes, Places, admit, refuse, CreateFails, Launch, Starts, Released,
             ExecuteEnds, release, EndContext, RunTo
    <2>2. next' \in [Runs -> 0 .. 4]
      <3>1. next' = next \/ next' = [next EXCEPT ![r] = Len(Wants(r))]
        BY DEF admit, refuse, CreateFails, Launch, Starts, Released, ExecuteEnds, release,
               EndContext
      <3>2. Len(Wants(r)) \in 0 .. 4 /\ next \in [Runs -> 0 .. 4]
        BY <1>1, <1>4 DEF AdmTypes
      <3> HIDE DEF Wants
      <3> QED BY <3>1, <3>2
    <2>3. ended' \subseteq Runs
      BY <1>1 DEF AdmTypes, admit, refuse, CreateFails, Launch, Starts, Released,
             ExecuteEnds, release, EndContext
    <2> QED BY <1>1, <1>2, <2>1, <2>2, <2>3 DEF AdmTypes
  <1>6. \A q \in Runs : q # r => Untouched(q) /\ pc'[q] = pc[q] /\ next'[q] = next[q]
    BY <1>1, <1>3 DEF AdmTypes, Untouched, admit, refuse, CreateFails, Launch, Starts,
           Released, ExecuteEnds, release, EndContext, RunTo
  <1>7. RunOK(r)'
    <2> USE <1>1, <1>3, <1>4 DEF RunOK, Place, AdmTypes, RunTo
    <2>1. CASE admit(r) \/ refuse(r) \/ CreateFails(r)
      BY <2>1 DEF admit, refuse, CreateFails
    <2>2. CASE Launch(r)
      BY <2>2 DEF Launch, Own
    <2>3. CASE Starts(r)
      BY <2>3 DEF Starts, Own
    <2>4. CASE Released(r)
      BY <2>4 DEF Released, Own
    <2>5. CASE ExecuteEnds(r)
      BY <2>5 DEF ExecuteEnds, Own
    <2>6. CASE release(r) \/ EndContext(r)
      BY <2>6 DEF release, EndContext
    <2> QED BY <2>1, <2>2, <2>3, <2>4, <2>5, <2>6
  <1>8. HasGlobal(r)' <=> HasGlobal(r)
    <2> USE <1>1, <1>4 DEF AdmTypes, RunOK, HasGlobal, RunTo
    <2>1. CASE admit(r) \/ refuse(r) \/ CreateFails(r)
      BY <2>1 DEF admit, refuse, CreateFails
    <2>2. CASE Launch(r)
      <3>1. pc[r] = "admitted" /\ next[r] = 1 /\ pc'[r] = "queued" /\ next'[r] = 1
        BY <2>2 DEF Launch
      <3> QED BY <3>1
    <2>3. CASE Starts(r)
      <3>1. pc[r] = "queued" /\ next[r] > Len(Wants(r)) /\ pc'[r] = "executing"
        BY <2>3 DEF Starts
      <3> QED BY <3>1
    <2>5. CASE Released(r)
      <3>1. /\ pc[r] \in {"unwinding", "aborting"} /\ next[r] = 0
            /\ pc'[r] \in {"canceled", "executed"}
        BY <2>5 DEF Released
      <3>2. ~HasGlobal(r)
        <4>1. next[r] # Len(Wants(r))
          BY ONLY <3>1, <1>4
        <4> QED BY ONLY <3>1, <4>1 DEF HasGlobal
      <3>3. ~HasGlobal(r)'
        BY <3>1
      <3> QED BY <3>2, <3>3
    <2>6. CASE ExecuteEnds(r)
      <3>1. pc[r] = "executing" /\ pc'[r] = "unwinding" /\ next'[r] = Len(Wants(r))
        BY <2>6 DEF ExecuteEnds
      <3> QED BY <3>1
    <2>4. CASE release(r) \/ EndContext(r)
      BY <2>4 DEF release, EndContext
    <2> QED BY <2>1, <2>2, <2>3, <2>4, <2>5, <2>6
  <1>9. /\ inflight' = inflight + (IF r \in Admitted' THEN 1 ELSE 0)
                                - (IF r \in Admitted THEN 1 ELSE 0)
        /\ shutdown = "returned" /\ r \notin Admitted => r \notin Admitted'
    <2>1. inflight \in Int
      <3>1. Admitted \subseteq Runs
        BY DEF Admitted
      <3>2. Cardinality(Admitted) \in Nat
        BY <3>1, RunSets
      <3> QED BY <1>1, <3>2 DEF Counts
    <2> QED BY <1>1, <2>1 DEF AdmTypes, Admitted, admit, refuse, CreateFails, Launch, Starts,
           Released, ExecuteEnds, release, EndContext, RunTo
  <1>10. active \in Int /\ active <= MaxActiveRuns
    <2>1. Globals \subseteq Runs
      BY DEF Globals
    <2>2. Cardinality(Globals) \in Nat
      BY <2>1, RunSets
    <2> QED BY <1>1, <2>2 DEF Counts
  <1>11. active' = active + (IF HasGlobal(r)' THEN 1 ELSE 0) - (IF HasGlobal(r) THEN 1 ELSE 0)
    BY <1>2, <1>8, <1>10
  <1> QED BY <1>2, <1>5, <1>6, <1>7, <1>9, <1>10, <1>11, RunStep

(* How the operations of a semaphore move their call.                      *)
LEMMA CallMoves ==
    ASSUME NEW c
    PROVE  /\ Lookup(c) => at[c] = "out" /\ at' = [at EXCEPT ![c] = "waiting"]
           /\ Unlimited(c) => at[c] = "out" /\ at' = [at EXCEPT ![c] = "holding"]
           /\ Take(c) => at[c] = "waiting" /\ at' = [at EXCEPT ![c] = "holding"]
           /\ GiveUp(c) => at[c] = "waiting" /\ at' = [at EXCEPT ![c] = "out"]
           /\ Receive(c) => /\ at[c] = "holding"
                            /\ sem[c] = Nil => at' = [at EXCEPT ![c] = "out"]
                            /\ sem[c] # Nil => at' = [at EXCEPT ![c] = "leaving"]
           /\ Leave(c) => at[c] = "leaving" /\ at' = [at EXCEPT ![c] = "out"]
  BY Zenon DEF Lookup, Unlimited, Take, GiveUp, Receive, Leave, leave, CallTo

(* The slot a run has come to.                                             *)
LEMMA AtSlot ==
    ASSUME NEW r \in Runs, next[r] \in 1 .. Len(Wants(r))
    PROVE  /\ AtGlobal(r) <=> next[r] = Len(Wants(r)) /\ MaxActiveRuns > 0
           /\ AtGlobal(r) <=> next[r] \notin Own(r)
           /\ Call(r) = Slot(r, next[r])
           /\ next[r] \in Own(r) => Call(r) \in Calls
  <1>1. AtGlobal(r) <=> next[r] \notin Own(r)
    BY DEF AtGlobal, Own
  <1>2. next[r] \notin Own(r) <=> next[r] = Len(Wants(r)) /\ MaxActiveRuns > 0
    BY WantsAre
  <1>3. Call(r) = Slot(r, next[r])
    BY DEF Call, Slot
  <1> QED BY <1>1, <1>2, <1>3, OwnCalls

LEMMA ActiveIs ==
    ASSUME Counts
    PROVE  active \in Nat /\ inflight \in Nat /\ active <= MaxActiveRuns
  <1>1. Admitted \in SUBSET Runs /\ Globals \in SUBSET Runs
    BY DEF Admitted, Globals
  <1>2. IsFiniteSet(Admitted) /\ IsFiniteSet(Globals)
    BY <1>1, AdmissionAssumption, FS_Subset DEF AdmissionAssumption
  <1>3. Cardinality(Admitted) \in Nat /\ Cardinality(Globals) \in Nat
    BY <1>2, FS_CardinalityType
  <1> QED BY <1>3 DEF Counts

(* A step of run r that leaves both counts alone.                          *)
LEMMA RunMoves ==
    ASSUME AdmInv, NEW r \in Runs, AdmTypes', [SemNext]_svars, RunOK(r)',
           \A q \in Runs : q # r => Untouched(q) /\ pc'[q] = pc[q] /\ next'[q] = next[q],
           inflight' = inflight, active' = active, shutdown' = shutdown,
           r \in Admitted' <=> r \in Admitted,
           HasGlobal(r)' <=> HasGlobal(r)
    PROVE  AdmInv'
  <1>1. active \in Nat /\ inflight \in Nat /\ active <= MaxActiveRuns
    BY ActiveIs DEF AdmInv
  <1>2. inflight' = inflight + (IF r \in Admitted' THEN 1 ELSE 0)
                             - (IF r \in Admitted THEN 1 ELSE 0)
    BY <1>1
  <1>3. active' = active + (IF HasGlobal(r)' THEN 1 ELSE 0) - (IF HasGlobal(r) THEN 1 ELSE 0)
    BY <1>1
  <1> QED BY <1>1, <1>2, <1>3, RunStep

(* A call that moves is one of the semaphores', so Semaphores' invariant   *)
(* is kept.                                                                *)
LEMMA SlotStep ==
    ASSUME NEW c \in Calls,
           \/ Unlimited(c) \/ Lookup(c) \/ Take(c) \/ GiveUp(c) \/ Receive(c) \/ Leave(c)
    PROVE  [SemNext]_svars
  BY DEF SemNext

(* A run asks for, gets or gives up its next slot of a key.                *)
LEMMA QueueStep ==
    ASSUME AdmInv, NEW r \in Runs, Asks(r) \/ (Gets(r) /\ ~AtGlobal(r)) \/ (Aborts(r) /\ ~AtGlobal(r))
    PROVE  AdmInv'
  <1> DEFINE n == next[r]
             c == Call(r)
  <1>1. AdmTypes /\ RunOK(r) /\ Counts /\ Returned /\ SemTypeOK
    BY DEF AdmInv, SemInv
  <1>2. /\ pc[r] = "queued" /\ ~AtGlobal(r) /\ n \in 1 .. Len(Wants(r))
        /\ shutdown' = shutdown /\ active' = active /\ inflight' = inflight
    BY <1>1 DEF Asks, Gets, Aborts, Waits, RunOK, AdmTypes
  <1>3. Len(Wants(r)) \in 1 .. 3
    BY WantsAre
  <1>4. n \in Own(r) /\ c = Slot(r, n) /\ c \in Calls /\ ~(n = Len(Wants(r)) /\ MaxActiveRuns > 0)
    BY <1>2, AtSlot
  <1>5. PICK x \in {"waiting", "holding", "out"} :
           /\ at' = [at EXCEPT ![c] = x] /\ [SemNext]_svars
           /\ x = "waiting" => Asks(r)
           /\ x = "holding" => Gets(r)
           /\ x = "out" => Aborts(r)
    <2> HIDE DEF c
    <2>1. CASE Asks(r)
      BY <1>4, <2>1, CallMoves, SlotStep DEF Asks, c
    <2>2. CASE Gets(r)
      BY <1>2, <1>4, <2>2, CallMoves, SlotStep DEF Gets, c
    <2>3. CASE Aborts(r)
      BY <1>2, <1>4, <2>3, CallMoves, SlotStep DEF Aborts, c
    <2> QED BY <2>1, <2>2, <2>3
  <1>6. /\ at'[Slot(r, n)] = x
        /\ \A j \in Own(r) : j # n => at'[Slot(r, j)] = at[Slot(r, j)]
        /\ \A k \in Inner : at'[InnerCall(r, k)] = at[InnerCall(r, k)]
        /\ \A q \in Runs : q # r => Untouched(q)
    <2>1. at' = [at EXCEPT ![Slot(r, n)] = x]
      BY <1>4, <1>5
    <2> QED BY <1>1, <1>4, <2>1, SlotMoves
  <1> HIDE DEF c
  <1>7. CASE x = "waiting"
    <2>1. pc' = pc /\ next' = next /\ ended' = ended
      BY <1>5, <1>7 DEF Asks
    <2>2. AdmTypes' /\ (HasGlobal(r)' <=> HasGlobal(r)) /\ (r \in Admitted' <=> r \in Admitted)
      BY <1>1, <1>2, <2>1 DEF AdmTypes, HasGlobal, Admitted
    <2>3. RunOK(r)'
      BY <1>1, <1>2, <1>6, <1>7, <2>1 DEF RunOK, Place
    <2> QED BY <1>2, <1>5, <1>6, <2>1, <2>2, <2>3, RunMoves
  <1>8. CASE x = "holding"
    <2>1. pc' = pc /\ next' = [next EXCEPT ![r] = n + 1] /\ ended' = ended
      BY <1>5, <1>8 DEF Gets
    <2>2. next'[r] = n + 1 /\ n + 1 \in 2 .. 4 /\ \A q \in Runs : q # r => next'[q] = next[q]
      <3>1. n + 1 \in 2 .. 4
        <4> DEFINE L == Len(Wants(r))
        <4>1. L \in 1 .. 3 /\ n \in 1 .. L
          BY <1>2, <1>3
        <4> HIDE DEF n, L
        <4> QED BY <4>1
      <3>2. next \in [Runs -> 0 .. 4]
        BY <1>1 DEF AdmTypes
      <3> HIDE DEF n
      <3> QED BY <2>1, <3>1, <3>2
    <2>3. AdmTypes' /\ (r \in Admitted' <=> r \in Admitted)
      BY <1>1, <1>2, <2>1, <2>2 DEF AdmTypes, Admitted
    <2>4. ~HasGlobal(r) /\ ~HasGlobal(r)'
      <3>1. ~HasGlobal(r)
        BY <1>2, <1>3 DEF HasGlobal
      <3>2. MaxActiveRuns > 0 => n + 1 <= Len(Wants(r))
        BY <1>2, <1>3, <1>4
      <3> QED BY <1>2, <1>3, <2>1, <2>2, <3>1, <3>2 DEF HasGlobal
    <2>5. RunOK(r)'
      <3>1. n + 1 \in 1 .. Len(Wants(r)) + 1
        BY <1>2, <1>3
      <3>2. ASSUME NEW i \in Own(r) PROVE at'[Slot(r, i)] \in Place("queued", n + 1, i)
        <4>1. i \in 1 .. Len(Wants(r)) /\ at[Slot(r, i)] \in Place("queued", n, i)
          BY <1>1, <1>2 DEF Own, RunOK
        <4> QED BY <1>2, <1>3, <1>6, <1>8, <4>1 DEF Place
      <3> QED BY <1>1, <1>2, <1>6, <2>1, <2>2, <3>1, <3>2 DEF RunOK
    <2> QED BY <1>2, <1>5, <1>6, <2>1, <2>2, <2>3, <2>4, <2>5, RunMoves
  <1>9. CASE x = "out"
    <2>1. /\ pc' = [pc EXCEPT ![r] = "aborting"] /\ next' = [next EXCEPT ![r] = n - 1]
          /\ ended' = ended
      BY <1>5, <1>9 DEF Aborts, RunTo
    <2>2. /\ pc'[r] = "aborting" /\ next'[r] = n - 1 /\ n - 1 \in 0 .. Len(Wants(r)) - 1
          /\ \A q \in Runs : q # r => next'[q] = next[q] /\ pc'[q] = pc[q]
      BY <1>1, <1>2, <1>3, <2>1 DEF AdmTypes
    <2>3. AdmTypes' /\ (r \in Admitted' <=> r \in Admitted)
      <3>1. pc' \in [Runs -> Places]
        BY <1>1, <2>1 DEF AdmTypes, Places
      <3>2. next' \in [Runs -> 0 .. 4]
        BY <1>1, <1>3, <2>1, <2>2 DEF AdmTypes
      <3> QED BY <1>1, <1>2, <2>1, <2>2, <3>1, <3>2 DEF AdmTypes, Admitted
    <2>4. ~HasGlobal(r) /\ ~HasGlobal(r)'
      BY <1>2, <1>3, <2>2 DEF HasGlobal
    <2>5. RunOK(r)'
      <3>1. ASSUME NEW i \in Own(r) PROVE at'[Slot(r, i)] \in Place("aborting", n - 1, i)
        <4>1. i \in 1 .. Len(Wants(r)) /\ at[Slot(r, i)] \in Place("queued", n, i)
          BY <1>1, <1>2 DEF Own, RunOK
        <4> QED BY <1>2, <1>3, <1>6, <1>9, <4>1 DEF Place
      <3> QED BY <1>1, <1>2, <1>6, <2>2, <3>1 DEF RunOK
    <2> QED BY <1>2, <1>5, <1>6, <2>1, <2>2, <2>3, <2>4, <2>5, RunMoves
  <1> QED BY <1>7, <1>8, <1>9

(* A run gets, gives up or gives back the slot of the process.             *)
LEMMA GlobalStep ==
    ASSUME AdmInv, NEW r \in Runs, AtGlobal(r), Gets(r) \/ Aborts(r) \/ Releases(r)
    PROVE  AdmInv'
  <1> DEFINE n == next[r]
             L == Len(Wants(r))
  <1>1. AdmTypes /\ RunOK(r) /\ Counts /\ Returned
    BY DEF AdmInv
  <1>2. L \in 1 .. 3
    BY WantsAre
  <1>3. /\ pc[r] \in {"queued", "unwinding", "aborting"} /\ n \in 1 .. L
        /\ shutdown' = shutdown /\ inflight' = inflight /\ ended' = ended /\ svars' = svars
    <2>1. CASE Gets(r)
      BY <1>1, <2>1 DEF Gets, Waits, RunOK, AdmTypes
    <2>2. CASE Aborts(r)
      BY <1>1, <2>2 DEF Aborts, Waits, RunOK, AdmTypes
    <2>3. CASE Releases(r)
      BY <1>1, <1>2, <2>3 DEF Releases, RunOK, AdmTypes
    <2> QED BY <2>1, <2>2, <2>3
  <1>4. n = L /\ MaxActiveRuns > 0 /\ n \notin Own(r) /\ pc[r] \in {"queued", "unwinding"}
    <2>1. n = L /\ MaxActiveRuns > 0 /\ n \notin Own(r)
      BY <1>3, AtSlot
    <2>2. pc[r] # "aborting"
      BY <1>1, <1>2, <2>1 DEF RunOK
    <2> QED BY <1>3, <2>1, <2>2
  <1>5. at' = at /\ \A q \in Runs : Untouched(q)
    BY <1>3 DEF svars, Untouched
  <1>6. ASSUME NEW i \in Own(r) PROVE i \in Nat /\ i < n /\ at'[Slot(r, i)] = "holding"
    <2>1. i \in 1 .. L /\ i # n
      BY <1>4 DEF Own
    <2>2. i < n /\ i \in Nat
      BY <1>2, <1>4, <2>1
    <2>3. at[Slot(r, i)] \in Place(pc[r], n, i)
      BY <1>1 DEF RunOK
    <2> QED BY <1>4, <1>5, <2>2, <2>3 DEF Place
  <1>7. \A k \in Inner : at'[InnerCall(r, k)] # "out" => pc[r] = "executing"
    BY <1>1, <1>5 DEF RunOK
  <1>8. active \in Nat /\ inflight \in Nat /\ active <= MaxActiveRuns
    BY <1>1, ActiveIs
  <1> HIDE DEF n, L
  <1>9. CASE Gets(r)
    <2>1. /\ pc' = pc /\ next' = [next EXCEPT ![r] = n + 1] /\ pc[r] = "queued"
          /\ active' = active + 1 /\ active < MaxActiveRuns
      BY <1>9 DEF Gets, Waits, n
    <2>2. n + 1 \in 0 .. 4 /\ next'[r] = n + 1 /\ \A q \in Runs : q # r => next'[q] = next[q]
      BY <1>1, <1>2, <1>4, <2>1 DEF AdmTypes
    <2>3. AdmTypes' /\ r \in Admitted /\ r \in Admitted'
      BY <1>1, <1>3, <2>1, <2>2 DEF AdmTypes, Admitted
    <2>4. RunOK(r)'
      <3>1. ASSUME NEW i \in Own(r) PROVE at'[Slot(r, i)] \in Place("queued", n + 1, i)
        BY <1>2, <1>4, <1>6 DEF Place
      <3>2. n + 1 \in 1 .. L + 1
        BY <1>2, <1>4
      <3> QED BY <1>7, <2>1, <2>2, <3>1, <3>2 DEF RunOK, L
    <2>5. HasGlobal(r)' /\ ~HasGlobal(r)
      <3>1. n + 1 > L /\ ~(n > L)
        BY <1>2, <1>4
      <3> QED BY <1>4, <2>1, <2>2, <3>1 DEF HasGlobal, n, L
    <2>6. /\ active' = active + (IF HasGlobal(r)' THEN 1 ELSE 0) - (IF HasGlobal(r) THEN 1 ELSE 0)
          /\ active' <= MaxActiveRuns
      BY <1>8, <2>1, <2>5, AdmissionAssumption DEF AdmissionAssumption
    <2>7. inflight' = inflight + (IF r \in Admitted' THEN 1 ELSE 0)
                                - (IF r \in Admitted THEN 1 ELSE 0)
      BY <1>3, <1>8, <2>3
    <2> QED BY <1>3, <1>5, <2>1, <2>2, <2>3, <2>4, <2>6, <2>7, RunStep
  <1>10. CASE Aborts(r)
    <2>1. /\ pc' = [pc EXCEPT ![r] = "aborting"] /\ next' = [next EXCEPT ![r] = n - 1]
          /\ pc[r] = "queued" /\ active' = active
      BY <1>10 DEF Aborts, Waits, RunTo, n
    <2>2. /\ n - 1 \in 0 .. L - 1 /\ n - 1 \in 0 .. 4 /\ next'[r] = n - 1 /\ pc'[r] = "aborting"
          /\ \A q \in Runs : q # r => next'[q] = next[q] /\ pc'[q] = pc[q]
      BY <1>1, <1>2, <1>4, <2>1 DEF AdmTypes
    <2>3. AdmTypes' /\ r \in Admitted /\ r \in Admitted'
      <3>1. pc' \in [Runs -> Places]
        BY <1>1, <2>1 DEF AdmTypes, Places
      <3>2. next' \in [Runs -> 0 .. 4]
        BY <1>1, <2>1, <2>2 DEF AdmTypes
      <3> QED BY <1>1, <1>3, <2>1, <2>2, <3>1, <3>2 DEF AdmTypes, Admitted
    <2>4. RunOK(r)'
      <3>1. ASSUME NEW i \in Own(r) PROVE at'[Slot(r, i)] \in Place("aborting", n - 1, i)
        BY <1>2, <1>4, <1>6 DEF Place
      <3> QED BY <1>7, <2>1, <2>2, <3>1 DEF RunOK, L
    <2>5. ~HasGlobal(r)' /\ ~HasGlobal(r)
      <3>1. ~(n > L)
        BY <1>2, <1>4
      <3> QED BY <2>1, <2>2, <3>1 DEF HasGlobal, n, L
    <2> QED BY <1>3, <1>5, <2>1, <2>2, <2>3, <2>4, <2>5, RunMoves
  <1>11. CASE Releases(r)
    <2>1. /\ pc' = pc /\ next' = [next EXCEPT ![r] = n - 1]
          /\ pc[r] = "unwinding" /\ active' = active - 1
      BY <1>4, <1>11 DEF Releases, n
    <2>2. /\ n - 1 \in 0 .. L /\ n - 1 \in 0 .. 4 /\ next'[r] = n - 1
          /\ \A q \in Runs : q # r => next'[q] = next[q] /\ pc'[q] = pc[q]
      BY <1>1, <1>2, <1>4, <2>1 DEF AdmTypes
    <2>3. AdmTypes' /\ r \in Admitted /\ r \in Admitted'
      BY <1>1, <1>3, <2>1, <2>2 DEF AdmTypes, Admitted
    <2>4. RunOK(r)'
      <3>1. ASSUME NEW i \in Own(r) PROVE at'[Slot(r, i)] \in Place("unwinding", n - 1, i)
        BY <1>2, <1>4, <1>6 DEF Place
      <3> QED BY <1>7, <2>1, <2>2, <3>1 DEF RunOK, L
    <2>5. ~HasGlobal(r)' /\ HasGlobal(r)
      <3>1. n - 1 # L /\ n = L
        BY <1>2, <1>4
      <3> QED BY <1>4, <2>1, <2>2, <3>1 DEF HasGlobal, n, L
    <2>6. /\ active' = active + (IF HasGlobal(r)' THEN 1 ELSE 0) - (IF HasGlobal(r) THEN 1 ELSE 0)
          /\ active' <= MaxActiveRuns
      BY <1>8, <2>1, <2>5, AdmissionAssumption DEF AdmissionAssumption
    <2>7. inflight' = inflight + (IF r \in Admitted' THEN 1 ELSE 0)
                                - (IF r \in Admitted THEN 1 ELSE 0)
      BY <1>3, <1>8, <2>3
    <2> QED BY <1>3, <1>5, <2>1, <2>2, <2>3, <2>4, <2>6, <2>7, RunStep
  <1> QED BY <1>9, <1>10, <1>11

(* A run gives back the slot of a key: it receives from the semaphore,     *)
(* and then leaves it.                                                     *)
LEMMA ReleaseStep ==
    ASSUME AdmInv, NEW r \in Runs, ~AtGlobal(r), Releases(r)
    PROVE  AdmInv'
  <1> DEFINE n == next[r]
             L == Len(Wants(r))
             c == Call(r)
  <1>1. AdmTypes /\ RunOK(r) /\ Counts /\ Returned /\ SemTypeOK
    BY DEF AdmInv, SemInv
  <1>2. L \in 1 .. 3
    BY WantsAre
  <1>3. /\ pc[r] \in {"unwinding", "aborting"} /\ n \in 1 .. L
        /\ shutdown' = shutdown /\ inflight' = inflight /\ ended' = ended /\ active' = active
        /\ pc' = pc
    BY <1>1, <1>2 DEF Releases, RunOK, AdmTypes
  <1>4. n \in Own(r) /\ c = Slot(r, n) /\ c \in Calls /\ ~(n = L /\ MaxActiveRuns > 0)
    BY <1>3, AtSlot
  <1>5. PICK x \in {"leaving", "out"} :
           /\ at' = [at EXCEPT ![c] = x] /\ [SemNext]_svars
           /\ next' = [next EXCEPT ![r] = IF x = "out" THEN n - 1 ELSE n]
    <2>1. \/ /\ Receive(c) /\ next' = [next EXCEPT ![r] = IF sem[c] = Nil THEN n - 1 ELSE n]
          \/ Leave(c) /\ next' = [next EXCEPT ![r] = n - 1]
      BY DEF Releases
    <2> HIDE DEF c, n
    <2>2. CASE Leave(c)
      <3>1. at' = [at EXCEPT ![c] = "out"] /\ [SemNext]_svars /\ ~Receive(c)
        BY <1>4, <2>2, CallMoves, SlotStep
      <3> QED BY <2>1, <3>1
    <2>3. CASE Receive(c)
      <3>1. ~Leave(c) /\ [SemNext]_svars
        BY <1>4, <2>3, CallMoves, SlotStep
      <3>2. /\ sem[c] = Nil => at' = [at EXCEPT ![c] = "out"]
            /\ sem[c] # Nil => at' = [at EXCEPT ![c] = "leaving"]
        BY <2>3, CallMoves
      <3> QED BY <2>1, <3>1, <3>2
    <2> QED BY <2>1, <2>2, <2>3
  <1>6. /\ at'[Slot(r, n)] = x
        /\ \A j \in Own(r) : j # n => at'[Slot(r, j)] = at[Slot(r, j)]
        /\ \A k \in Inner : at'[InnerCall(r, k)] = at[InnerCall(r, k)]
        /\ \A q \in Runs : q # r => Untouched(q)
    <2>1. at' = [at EXCEPT ![Slot(r, n)] = x]
      BY <1>4, <1>5
    <2> QED BY <1>1, <1>4, <2>1, SlotMoves
  <1> HIDE DEF c, n, L
  <1> DEFINE m == IF x = "out" THEN n - 1 ELSE n
  <1>7. m \in 0 .. L /\ m \in 0 .. 4 /\ (pc[r] = "aborting" => m \in 0 .. L - 1)
    <2>1. pc[r] = "aborting" => n \in 0 .. L - 1
      BY <1>1 DEF RunOK, n, L
    <2> QED BY <1>2, <1>3, <2>1
  <1>8. next'[r] = m /\ \A q \in Runs : q # r => next'[q] = next[q]
    <2> HIDE DEF m
    <2>1. next' = [next EXCEPT ![r] = m]
      BY <1>5 DEF m
    <2> QED BY <1>1, <2>1 DEF AdmTypes
  <1>9. AdmTypes' /\ (r \in Admitted' <=> r \in Admitted)
    <2> HIDE DEF m
    <2>1. next' = [next EXCEPT ![r] = m]
      BY <1>5 DEF m
    <2>2. next' \in [Runs -> 0 .. 4]
      BY <1>1, <1>7, <2>1 DEF AdmTypes
    <2> QED BY <1>1, <1>3, <2>2 DEF AdmTypes, Admitted
  <1>10. ~HasGlobal(r) /\ ~HasGlobal(r)'
    <2>1. ~(n = L /\ MaxActiveRuns > 0) /\ ~(m = L /\ MaxActiveRuns > 0)
      BY <1>2, <1>3, <1>4
    <2> HIDE DEF m
    <2> QED BY <1>3, <1>8, <2>1 DEF HasGlobal, n, L
  <1>11. RunOK(r)'
    <2>1. ASSUME NEW i \in Own(r) PROVE at'[Slot(r, i)] \in Place(pc[r], m, i)
      <3>1. i \in 1 .. L /\ at[Slot(r, i)] \in Place(pc[r], n, i)
        BY <1>1 DEF Own, RunOK, L, n
      <3>2. CASE i = n
        BY <1>2, <1>3, <1>6, <3>1, <3>2 DEF Place
      <3>3. CASE i # n
        BY <1>2, <1>3, <1>6, <3>1, <3>3 DEF Place
      <3> QED BY <3>2, <3>3
    <2>2. \A k \in Inner : at'[InnerCall(r, k)] # "out" => pc[r] = "executing"
      BY <1>1, <1>6 DEF RunOK
    <2> HIDE DEF m
    <2> QED BY <1>3, <1>7, <1>8, <2>1, <2>2 DEF RunOK, L
  <1> QED BY <1>3, <1>5, <1>6, <1>8, <1>9, <1>10, <1>11, RunMoves

(* A model call or a tool of a run moves.                                  *)
LEMMA InnerKept ==
    ASSUME AdmInv, NEW r \in Runs, NEW k \in Inner, InnerStep(r, k)
    PROVE  AdmInv'
  <1> DEFINE c == InnerCall(r, k)
  <1>1. AdmTypes /\ RunOK(r) /\ SemTypeOK /\ c \in Calls
    BY OwnCalls DEF AdmInv, SemInv
  <1>2. /\ pc' = pc /\ next' = next /\ ended' = ended /\ shutdown' = shutdown
        /\ active' = active /\ inflight' = inflight
    BY DEF InnerStep
  <1>3. /\ \/ pc[r] = "executing" /\ (Lookup(c) \/ Unlimited(c))
           \/ Take(c) \/ GiveUp(c) \/ Receive(c) \/ Leave(c)
    BY DEF InnerStep
  <1> HIDE DEF c
  <1>4. pc[r] = "executing"
    <2>1. at[c] # "out" => pc[r] = "executing"
      BY <1>1 DEF RunOK, c
    <2> QED BY <1>3, <2>1, CallMoves
  <1>5. [SemNext]_svars
    BY <1>1, <1>3, SlotStep
  <1>6. PICK x : at' = [at EXCEPT ![c] = x]
    BY <1>3, CallMoves
  <1>7. /\ \A j \in Own(r) : at'[Slot(r, j)] = at[Slot(r, j)]
        /\ \A q \in Runs : q # r => Untouched(q)
    BY <1>1, <1>6, InnerMoves DEF c
  <1>8. RunOK(r)'
    BY <1>1, <1>2, <1>4, <1>7 DEF RunOK
  <1>9. AdmTypes' /\ (r \in Admitted' <=> r \in Admitted) /\ (HasGlobal(r)' <=> HasGlobal(r))
    BY <1>1, <1>2 DEF AdmTypes, Admitted, HasGlobal
  <1> QED BY <1>2, <1>5, <1>7, <1>8, <1>9, RunMoves

(* Shutdown waits until nothing is admitted.                               *)
LEMMA ShutdownKept ==
    ASSUME AdmInv, Shutdown \/ StopRuns \/ Drained \/ UNCHANGED vars
    PROVE  AdmInv'
  <1>1. /\ svars' = svars /\ pc' = pc /\ next' = next /\ inflight' = inflight
        /\ active' = active
    BY DEF Shutdown, StopRuns, Drained, vars
  <1>2. AdmTypes'
    BY <1>1 DEF AdmInv, AdmTypes, Shutdown, StopRuns, Drained, vars
  <1>3. SemInv'
    BY <1>1, NextSem DEF AdmInv
  <1>4. \A r \in Runs : RunOK(r)'
    BY <1>1 DEF AdmInv, RunOK, svars
  <1>5. Counts'
    <2>1. Admitted' = Admitted /\ Globals' = Globals
      BY <1>1 DEF Admitted, Globals, HasGlobal
    <2> QED BY <1>1, <2>1 DEF AdmInv, Counts
  <1>6. Returned'
    <2>1. CASE Drained
      <3>1. Cardinality(Admitted) = 0 /\ Admitted \subseteq Runs
        BY <2>1 DEF Drained, AdmInv, Counts, Admitted
      <3>2. IsFiniteSet(Admitted)
        BY <3>1, FS_Subset, AdmissionAssumption DEF AdmissionAssumption
      <3>3. Admitted = {}
        BY <3>1, <3>2, FS_EmptySet
      <3> QED BY <1>1, <3>3 DEF Returned, Quiet, Admitted
    <2>2. CASE Shutdown \/ StopRuns
      BY <2>2 DEF Returned, Shutdown, StopRuns
    <2>3. CASE UNCHANGED vars
      BY <2>3 DEF AdmInv, Returned, Quiet, vars
    <2> QED BY <2>1, <2>2, <2>3
  <1> QED BY <1>2, <1>3, <1>4, <1>5, <1>6 DEF AdmInv

LEMMA InitAdm == Init => AdmInv
  <1> SUFFICES ASSUME Init PROVE AdmInv
    OBVIOUS
  <1>1. AdmTypes
    BY DEF Init, AdmTypes, Places
  <1>2. SemInv
    BY InitSem DEF Init
  <1>3. ASSUME NEW r \in Runs PROVE RunOK(r)
    <2>1. pc[r] = "new" /\ next[r] = 1 /\ \A c \in Calls : at[c] = "out"
      BY DEF Init, SemInit
    <2> QED BY <2>1, OwnCalls DEF RunOK, Place
  <1>4. Counts
    <2>1. Admitted = {} /\ Globals = {}
      BY DEF Init, Admitted, Globals, HasGlobal
    <2>2. Cardinality(Admitted) = 0 /\ Cardinality(Globals) = 0
      BY <2>1, FS_EmptySet
    <2> QED BY <2>2, AdmissionAssumption DEF AdmissionAssumption, Init, Counts
  <1>5. Returned
    BY DEF Init, Returned
  <1> QED BY <1>1, <1>2, <1>3, <1>4, <1>5 DEF AdmInv

LEMMA NextAdm == AdmInv /\ [Next]_vars => AdmInv'
  <1> SUFFICES ASSUME AdmInv, [Next]_vars PROVE AdmInv'
    OBVIOUS
  <1>1. ASSUME NEW r \in Runs, Queueing(r) PROVE AdmInv'
    <2>1. CASE Starts(r) \/ Released(r) \/ release(r)
      BY <2>1, AdmitStep
    <2>2. CASE Asks(r)
      BY <2>2, QueueStep
    <2>3. CASE Gets(r) \/ Aborts(r)
      BY <2>3, QueueStep, GlobalStep
    <2>4. CASE Releases(r)
      BY <2>4, ReleaseStep, GlobalStep
    <2> QED BY <1>1, <2>1, <2>2, <2>3, <2>4 DEF Queueing
  <1>2. ASSUME NEW r \in Runs,
               \/ admit(r) \/ refuse(r) \/ CreateFails(r) \/ Launch(r)
               \/ ExecuteEnds(r) \/ EndContext(r)
        PROVE  AdmInv'
    BY <1>2, AdmitStep
  <1>3. ASSUME NEW r \in Runs, \E k \in Inner : InnerStep(r, k) PROVE AdmInv'
    BY <1>3, InnerKept
  <1>4. CASE Shutdown \/ StopRuns \/ Drained \/ UNCHANGED vars
    BY <1>4, ShutdownKept
  <1> QED BY <1>1, <1>2, <1>3, <1>4 DEF Next

-----------------------------------------------------------------------------
(* Wherever admission, queueing, cancellation and Shutdown have got to: a  *)
(* run holds a prefix of the slots it wants, all of them while it          *)
(* executes, and the two counters are the numbers of admitted runs and of  *)
(* runs that have the process's slot.                                      *)
THEOREM AdmissionInvariant == Spec => []AdmInv
  BY InitAdm, NextAdm, PTL DEF Spec

(* Variables stay in their ranges: inflight never falls below zero, and    *)
(* slots never holds more than its capacity.                               *)
THEOREM AdmissionTypes == Spec => []TypeOK
  <1>1. AdmInv => TypeOK
    <2> SUFFICES ASSUME AdmInv PROVE TypeOK
      OBVIOUS
    <2>1. active \in Nat /\ inflight \in Nat /\ active <= MaxActiveRuns
      BY ActiveIs DEF AdmInv
    <2>2. inflight <= Cardinality(Runs) /\ Cardinality(Runs) \in Nat
      <3>1. Admitted \in SUBSET Runs
        BY DEF Admitted
      <3>2. IsFiniteSet(Runs) /\ Cardinality(Admitted) <= Cardinality(Runs)
        BY <3>1, FS_Subset, AdmissionAssumption DEF AdmissionAssumption
      <3>3. Cardinality(Runs) \in Nat
        BY <3>2, FS_CardinalityType
      <3> QED BY <3>2, <3>3 DEF AdmInv, Counts
    <2>3. active \in 0 .. MaxActiveRuns /\ inflight \in 0 .. Cardinality(Runs)
      BY <2>1, <2>2, AdmissionAssumption DEF AdmissionAssumption
    <2> QED BY <2>3 DEF AdmInv, SemInv, AdmTypes, Places, TypeOK
  <1> QED BY <1>1, AdmissionInvariant, PTL

(* The runs have the slots the semaphores hand out: every step of          *)
(* admission and queueing is one of the semaphores, of a call that is      *)
(* theirs, or leaves them alone.  What is shown of them above,             *)
(* however they are used, is so true of the runs.                          *)
THEOREM SlotsRefined == Spec => SemSpec
  <1>1. Init => SemInit
    BY DEF Init
  <1>2. AdmInv /\ [Next]_vars => [SemNext]_svars
    <2> SUFFICES ASSUME AdmInv, [Next]_vars PROVE [SemNext]_svars
      OBVIOUS
    <2>1. ASSUME NEW r \in Runs, ~AtGlobal(r),
                 Asks(r) \/ Gets(r) \/ Aborts(r) \/ Releases(r)
          PROVE  [SemNext]_svars
      <3>1. next[r] \in 1 .. Len(Wants(r))
        <4>1. AdmTypes /\ RunOK(r) /\ Len(Wants(r)) \in 1 .. 3
          BY WantsAre DEF AdmInv
        <4> QED BY <2>1, <4>1 DEF Asks, Gets, Aborts, Releases, Waits, AdmTypes, RunOK
      <3>2. Call(r) \in Calls
        BY <2>1, <3>1, AtSlot
      <3>3. LET c == Call(r) IN
              \/ Unlimited(c) \/ Lookup(c) \/ Take(c) \/ GiveUp(c) \/ Receive(c) \/ Leave(c)
        BY <2>1 DEF Asks, Gets, Aborts, Releases
      <3> QED BY <3>2, <3>3, SlotStep
    <2>2. ASSUME NEW r \in Runs, AtGlobal(r), Gets(r) \/ Aborts(r) \/ Releases(r)
          PROVE  UNCHANGED svars
      BY <2>2 DEF Gets, Aborts, Releases
    <2>3. ASSUME NEW r \in Runs,
                 \/ admit(r) \/ refuse(r) \/ CreateFails(r) \/ Launch(r) \/ Starts(r)
                 \/ Released(r) \/ ExecuteEnds(r) \/ release(r) \/ EndContext(r)
          PROVE  UNCHANGED svars
      BY <2>3 DEF admit, refuse, CreateFails, Launch, Starts, Released, ExecuteEnds,
             release, EndContext
    <2>4. ASSUME NEW r \in Runs, NEW k \in Inner, InnerStep(r, k)
          PROVE  [SemNext]_svars
      <3>1. LET c == InnerCall(r, k) IN
              \/ Unlimited(c) \/ Lookup(c) \/ Take(c) \/ GiveUp(c) \/ Receive(c) \/ Leave(c)
        BY <2>4 DEF InnerStep
      <3> QED BY <3>1, OwnCalls, SlotStep
    <2>5. CASE Shutdown \/ StopRuns \/ Drained \/ UNCHANGED vars
      BY <2>5 DEF Shutdown, StopRuns, Drained, vars
    <2>6. ASSUME NEW r \in Runs, Asks(r) PROVE ~AtGlobal(r)
      BY <2>6 DEF Asks
    <2> QED BY <2>1, <2>2, <2>3, <2>4, <2>5, <2>6 DEF Next, Queueing
  <1> QED BY <1>1, <1>2, AdmissionInvariant, PTL DEF Spec, SemSpec

-----------------------------------------------------------------------------
(* A run that executes holds each of its slots.                            *)
LEMMA WorkersHold ==
    ASSUME AdmInv, NEW r \in Runs, Working(r)
    PROVE  /\ Slot(r, 1) \in Holders(Tenant(r))
           /\ WorkflowOf[r] # NoName => Slot(r, 2) \in Holders(Workflow(r))
           /\ MaxActiveRuns > 0 => r \in Globals
  <1>1. \A i \in Own(r) : at[Slot(r, i)] = "holding"
    BY DEF AdmInv, RunOK, Place, Working
  <1>2. 1 \in Own(r) /\ (WorkflowOf[r] # NoName => 2 \in Own(r))
    BY WantsAre
  <1>3. Slot(r, 1) \in Holders(Tenant(r))
    BY <1>1, <1>2, LimitsAre DEF Holders
  <1>4. WorkflowOf[r] # NoName => Slot(r, 2) \in Holders(Workflow(r))
    BY <1>1, <1>2, LimitsAre DEF Holders
  <1>5. MaxActiveRuns > 0 => r \in Globals
    BY DEF Globals, HasGlobal, Working
  <1> QED BY <1>3, <1>4, <1>5

(* A set of runs that each hold a slot of their own of a key is no larger  *)
(* than the key's limit.                                                   *)
LEMMA HoldersBound ==
    ASSUME KeyBounded, NEW k \in Keys, Limit[k] > 0, NEW S, S \subseteq Runs, NEW i,
           \A r \in S : Slot(r, i) \in Holders(k)
    PROVE  Cardinality(S) <= Limit[k]
  <1> DEFINE f == [r \in S |-> Slot(r, i)]
  <1>1. Holders(k) \in SUBSET Calls
    BY DEF Holders
  <1>2. IsFiniteSet(Holders(k))
    BY <1>1, FS_Subset, SemaphoreAssumption DEF SemaphoreAssumption
  <1>3. f \in Injection(S, Holders(k))
    <2>1. f \in [S -> Holders(k)]
      OBVIOUS
    <2>2. \A a, b \in S : f[a] = f[b] => a = b
      BY DEF Slot
    <2> QED BY <2>1, <2>2 DEF Injection, IsInjective
  <1>4. Cardinality(S) <= Cardinality(Holders(k)) /\ IsFiniteSet(S)
    <2> HIDE DEF f
    <2> QED BY <1>2, <1>3, FS_Injection
  <1>5. Cardinality(S) \in Nat /\ Cardinality(Holders(k)) \in Nat /\ Limit[k] \in Int
    BY <1>2, <1>4, FS_CardinalityType, SemaphoreAssumption DEF SemaphoreAssumption
  <1>6. Cardinality(Holders(k)) <= Limit[k]
    BY DEF KeyBounded
  <1> QED BY <1>4, <1>5, <1>6

(* However runs are canceled in the queue, give up half their slots or     *)
(* come from Recover past the queue's bound: the runs that execute stages  *)
(* stay within the process's, their tenant's and their workflow's limit.   *)
THEOREM WorkStaysBounded == Spec => []WorkBounded
  <1>1. AdmInv /\ KeyBounded => WorkBounded
    <2> SUFFICES ASSUME AdmInv, KeyBounded PROVE WorkBounded
      OBVIOUS
    <2>1. ASSUME MaxActiveRuns > 0
          PROVE  Cardinality({r \in Runs : Working(r)}) <= MaxActiveRuns
      <3> DEFINE W == {r \in Runs : Working(r)}
      <3>1. W \in SUBSET Globals /\ Globals \in SUBSET Runs
        BY <2>1, WorkersHold DEF Globals
      <3>2. IsFiniteSet(Globals)
        BY <3>1, FS_Subset, AdmissionAssumption DEF AdmissionAssumption
      <3>3. Cardinality(W) <= Cardinality(Globals) /\ IsFiniteSet(W)
        BY <3>1, <3>2, FS_Subset
      <3>4. Cardinality(W) \in Nat /\ Cardinality(Globals) \in Nat
        BY <3>2, <3>3, FS_CardinalityType
      <3>5. Cardinality(Globals) <= MaxActiveRuns
        BY DEF AdmInv, Counts
      <3> HIDE DEF W
      <3>6. Cardinality(W) <= MaxActiveRuns
        BY <3>3, <3>4, <3>5, AdmissionAssumption DEF AdmissionAssumption
      <3> QED BY <3>6 DEF W
    <2>2. ASSUME NEW q \in Runs, PerTenant > 0
          PROVE  Cardinality({r \in Runs : Working(r) /\ TenantOf[r] = TenantOf[q]})
                     <= PerTenant
      <3> DEFINE W == {r \in Runs : Working(r) /\ TenantOf[r] = TenantOf[q]}
      <3>1. Tenant(q) \in Keys /\ Limit[Tenant(q)] = PerTenant
        BY LimitsAre
      <3>2. \A r \in W : Slot(r, 1) \in Holders(Tenant(q))
        BY WorkersHold DEF Tenant
      <3>3. W \subseteq Runs
        OBVIOUS
      <3> HIDE DEF W
      <3>4. Cardinality(W) <= PerTenant
        BY <2>2, <3>1, <3>2, <3>3, HoldersBound
      <3> QED BY <3>4 DEF W
    <2>3. ASSUME NEW q \in Runs, PerWorkflow > 0, WorkflowOf[q] # NoName
          PROVE  Cardinality({r \in Runs : /\ Working(r) /\ TenantOf[r] = TenantOf[q]
                                           /\ WorkflowOf[r] = WorkflowOf[q]})
                     <= PerWorkflow
      <3> DEFINE W == {r \in Runs : /\ Working(r) /\ TenantOf[r] = TenantOf[q]
                                    /\ WorkflowOf[r] = WorkflowOf[q]}
      <3>1. Workflow(q) \in Keys /\ Limit[Workflow(q)] = PerWorkflow
        BY <2>3, LimitsAre
      <3>2. \A r \in W : Slot(r, 2) \in Holders(Workflow(q))
        BY <2>3, WorkersHold DEF Workflow
      <3>3. W \subseteq Runs
        OBVIOUS
      <3> HIDE DEF W
      <3>4. Cardinality(W) <= PerWorkflow
        BY <2>3, <3>1, <3>2, <3>3, HoldersBound
      <3> QED BY <3>4 DEF W
    <2> QED BY <2>1, <2>2, <2>3 DEF WorkBounded
  <1> QED BY <1>1, AdmissionInvariant, SlotsRefined, KeysStayBounded, PTL

(* No error path of createRun, acquireRunSlots or execute keeps a slot, a  *)
(* semaphore or a place in the queue, and Shutdown never returns while a   *)
(* run is admitted.                                                        *)
THEOREM NothingIsLeaked == Spec => []NothingLeaks
  <1>1. AdmInv => NothingLeaks
    <2> SUFFICES ASSUME AdmInv PROVE NothingLeaks
      OBVIOUS
    <2>1. ASSUME Quiet
          PROVE  inflight = 0 /\ active = 0 /\ \A k \in DOMAIN slots : slots[k] = Nil
      <3>1. Admitted = {} /\ Globals = {}
        BY <2>1 DEF Quiet, Admitted, Globals, HasGlobal
      <3>2. inflight = 0 /\ active = 0
        BY <3>1, FS_EmptySet DEF AdmInv, Counts
      <3>3. ASSUME NEW c \in Calls PROVE at[c] = "out"
        <4>1. PICK r \in Runs : \/ \E i \in Own(r) : c = Slot(r, i)
                                \/ \E k \in Inner : c = InnerCall(r, k)
          BY CallsAre
        <4>2. pc[r] \in {"new", "refused", "done"} /\ RunOK(r)
          BY <2>1 DEF Quiet, AdmInv
        <4> QED BY <4>1, <4>2 DEF RunOK, Place
      <3>4. \A c \in Calls : sem[c] = Nil
        BY <3>3 DEF AdmInv, SemInv, Placed
      <3>5. DOMAIN slots = Keys
        BY DEF AdmInv, SemInv, SemTypeOK
      <3>6. \A k \in Keys : slots[k] = Nil
        BY <3>4 DEF AdmInv, SemInv, Found
      <3> QED BY <3>2, <3>5, <3>6
    <2>2. shutdown = "returned" => Quiet
      BY DEF AdmInv, Returned
    <2> QED BY <2>1, <2>2 DEF NothingLeaks
  <1> QED BY <1>1, AdmissionInvariant, PTL

=============================================================================
