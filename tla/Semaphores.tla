----------------------------- MODULE Semaphores -----------------------------
(***************************************************************************)
(* policy/concurrency.go: a semaphore for every key in use.  Acquire makes *)
(* a key's semaphore when it is first asked for and leave forgets it with  *)
(* its last user, so in the course of time a key has many of them.         *)
(*                                                                         *)
(* A call is one use of Acquire and of the release it returned; it may be  *)
(* made again and again.                                                   *)
(***************************************************************************)
EXTENDS Integers, FiniteSets

CONSTANTS
    Calls,  \* the goroutines' uses of Acquire
    KeyOf,  \* the key of each call
    Limit,  \* the limit of each key
    Sems,   \* *semaphore values
    Nil

Keys == {KeyOf[c] : c \in Calls}

ASSUME SemaphoreAssumption ==
    /\ IsFiniteSet(Calls) /\ KeyOf \in [Calls -> Keys] /\ Limit \in [Keys -> Int]
    /\ Nil \notin Sems

VARIABLES
    slots,  \* Semaphores.slots: the semaphore of each key, or Nil
    users,  \* semaphore.users
    length, \* how many values semaphore.ch holds
    sem,    \* per call: its semaphore, or Nil
    at      \* per call: where it is

svars == <<slots, users, length, sem, at>>

SemTypeOK ==
    /\ slots \in [Keys -> Sems \cup {Nil}]
    /\ users \in [Sems -> Nat] /\ length \in [Sems -> Nat]
    /\ sem \in [Calls -> Sems \cup {Nil}]
    /\ at \in [Calls -> {"out", "waiting", "holding", "leaving"}]

SemInit ==
    /\ slots = [k \in Keys |-> Nil]
    /\ users = [s \in Sems |-> 0] /\ length = [s \in Sems |-> 0]
    /\ sem = [c \in Calls |-> Nil]
    /\ at = [c \in Calls |-> "out"]

-----------------------------------------------------------------------------
CallTo(c, place) == at' = [at EXCEPT ![c] = place]

(* A limit of zero or less never blocks.                                   *)
Unlimited(c) ==
    /\ at[c] = "out" /\ Limit[KeyOf[c]] <= 0
    /\ CallTo(c, "holding")
    /\ UNCHANGED <<slots, users, length, sem>>

(* A semaphore make can return: nobody refers to it.                       *)
Fresh(s) == (\A k \in Keys : slots[k] # s) /\ (\A c \in Calls : sem[c] # s)

Lookup(c) ==
    /\ at[c] = "out" /\ Limit[KeyOf[c]] > 0
    /\ \/ /\ slots[KeyOf[c]] # Nil
          /\ sem' = [sem EXCEPT ![c] = slots[KeyOf[c]]]
          /\ users' = [users EXCEPT ![slots[KeyOf[c]]] = @ + 1]
          /\ UNCHANGED <<slots, length>>
       \/ /\ slots[KeyOf[c]] = Nil
          /\ \E s \in Sems :
                /\ Fresh(s) /\ s = CHOOSE x \in Sems : Fresh(x)
                /\ slots' = [slots EXCEPT ![KeyOf[c]] = s]
                /\ sem' = [sem EXCEPT ![c] = s]
                /\ users' = [users EXCEPT ![s] = 1]
                /\ length' = [length EXCEPT ![s] = 0]
    /\ CallTo(c, "waiting")

Take(c) ==
    /\ at[c] = "waiting" /\ length[sem[c]] < Limit[KeyOf[c]]
    /\ length' = [length EXCEPT ![sem[c]] = @ + 1]
    /\ CallTo(c, "holding")
    /\ UNCHANGED <<slots, users, sem>>

(* Mutant of leave: the key is forgotten once nobody holds it.             *)
leaveUnheld(c) ==
    /\ users' = [users EXCEPT ![sem[c]] = @ - 1]
    /\ slots' = IF length[sem[c]] = 0 THEN [slots EXCEPT ![KeyOf[c]] = Nil] ELSE slots
    /\ sem' = [sem EXCEPT ![c] = Nil]
    /\ CallTo(c, "out")

leave(c) ==
    /\ users' = [users EXCEPT ![sem[c]] = @ - 1]
    /\ slots' = IF users[sem[c]] = 1 THEN [slots EXCEPT ![KeyOf[c]] = Nil] ELSE slots
    /\ sem' = [sem EXCEPT ![c] = Nil]
    /\ CallTo(c, "out")

(* The context ended first; the caller's model says when it can.           *)
GiveUp(c) ==
    /\ at[c] = "waiting"
    /\ leave(c)
    /\ UNCHANGED length

(* release: receive from the channel, then leave.                          *)
Receive(c) ==
    /\ at[c] = "holding"
    /\ \/ /\ sem[c] # Nil
          /\ length[sem[c]] > 0
          /\ length' = [length EXCEPT ![sem[c]] = @ - 1]
          /\ CallTo(c, "leaving")
       \/ /\ sem[c] = Nil
          /\ CallTo(c, "out")
          /\ UNCHANGED length
    /\ UNCHANGED <<slots, users, sem>>

(* Mutant of Leave: the user stays counted.                                *)
LeaveCounted(c) ==
    /\ at[c] = "leaving"
    /\ sem' = [sem EXCEPT ![c] = Nil]
    /\ CallTo(c, "out")
    /\ UNCHANGED <<slots, users, length>>

Leave(c) ==
    /\ at[c] = "leaving"
    /\ leave(c)
    /\ UNCHANGED length

SemNext ==
    \E c \in Calls :
        Unlimited(c) \/ Lookup(c) \/ Take(c) \/ GiveUp(c) \/ Receive(c) \/ Leave(c)

SemSpec == SemInit /\ [][SemNext]_svars

-----------------------------------------------------------------------------
Holders(k) == {c \in Calls : KeyOf[c] = k /\ at[c] = "holding"}

(* However often a key's semaphore is forgotten and made again between a   *)
(* receive and a leave, a lookup and a send: a limited key never has more  *)
(* holders than its limit.                                                 *)
KeyBounded ==
    \A k \in Keys : Limit[k] > 0 => Cardinality(Holders(k)) <= Limit[k]

(* The map keeps exactly the keys that are held or waited for: nothing     *)
(* leaks, and nobody waits on a semaphore that others no longer find.      *)
KeysInUse ==
    \A k \in Keys :
        /\ slots[k] # Nil <=> \E c \in Calls : KeyOf[c] = k /\ sem[c] # Nil
        /\ \A c \in Calls : KeyOf[c] = k /\ sem[c] # Nil => sem[c] = slots[k]

=============================================================================
