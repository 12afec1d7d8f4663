--------------------------- MODULE SysArchProofs ---------------------------
(***************************************************************************)
(* Proofs about SysArch, for every finite set of tasks and every length of *)
(* the queue.                                                              *)
(*                                                                         *)
(* WakeupsOwed is not inductive by itself.  A task that joins the list is  *)
(* no longer on its way, so everything in the queue has to be noted in     *)
(* cTxLock by then (Placing): the task has seen the count zero in the      *)
(* locked queue, and since then only the interrupt can have given.  For    *)
(* that, a locked queue has one owner, who has suspended the scheduler     *)
(* (Owner, Locked), and who wakes as many tasks as were noted.             *)
(***************************************************************************)
EXTENDS SysArch, FiniteSetTheorems, TLAPS

InLock == {"check", "place", "unlock", "late"}
Suspends == InLock \cup {"resume", "lateResume"}

Owner == \A t \in Takers : suspended = t <=> at[t] \in Suspends
Locked ==
  /\ \A t \in Takers : at[t] \in InLock => txLock # Unlocked
  /\ txLock # Unlocked => suspended # Nobody /\ at[suspended] \in InLock
Noted == txLock <= count
Placing == \A t \in Takers : at[t] = "place" => count <= txLock
Sleepers == \A t \in waiting : at[t] \in {"unlock", "resume", "blocked"}

Structure == TypeOK /\ Owner /\ Locked /\ Noted /\ Placing /\ Sleepers
Inv == Structure /\ WakeupsOwed

-----------------------------------------------------------------------------
(* The number of tasks on their way is a number, and grows with them.      *)
LEMMA OnItsWayCounted ==
  ASSUME NEW S \in SUBSET Takers, NEW T \in SUBSET S
  PROVE  /\ IsFiniteSet(S)
         /\ Cardinality(S) \in Nat
         /\ Cardinality(T) \in Nat
         /\ Cardinality(T) <= Cardinality(S)
<1>1. IsFiniteSet(S) /\ IsFiniteSet(T)
  BY FS_Subset, SysArchAssumption
<1>2. QED
  BY <1>1, FS_CardinalityType, FS_Subset

(* Who is woken is on its way at once: a wake-up of n adds n to them, or   *)
(* leaves nobody on the list (xTaskRemoveFromEventList).                   *)
LEMMA WokenAreOnTheirWay ==
  ASSUME TypeOK, TypeOK', Sleepers, NEW n \in Nat, WakeUpTo(n),
         \A t \in Takers : at'[t] = "out" <=> at[t] = "out"
  PROVE  \/ waiting' = {}
         \/ Cardinality(OnItsWay') = Cardinality(OnItsWay) + n
<1>1. PICK s \in SUBSET waiting :
        /\ Cardinality(s) = n \/ s = waiting
        /\ waiting' = waiting \ s
  BY DEF WakeUpTo
<1>2. CASE s = waiting
  BY <1>1, <1>2
<1>3. CASE Cardinality(s) = n
  <2>1. OnItsWay' = OnItsWay \cup s
    BY <1>1 DEF OnItsWay, TypeOK, Sleepers
  <2>2. OnItsWay \in SUBSET Takers /\ s \in SUBSET Takers /\ OnItsWay \cap s = {}
    BY <1>1 DEF OnItsWay, TypeOK
  <2>3. IsFiniteSet(OnItsWay) /\ IsFiniteSet(s)
    BY <2>2, OnItsWayCounted
  <2>4. Cardinality(OnItsWay \cup s) = Cardinality(OnItsWay) + Cardinality(s) - Cardinality(OnItsWay \cap s)
    BY <2>3, FS_Union
  <2>5. Cardinality(OnItsWay \cap s) = 0
    BY <2>2, FS_EmptySet
  <2>6. Cardinality(OnItsWay) \in Nat
    BY <2>3, FS_CardinalityType
  <2>7. QED
    BY <1>3, <2>1, <2>4, <2>5, <2>6
<1>4. QED
  BY <1>1, <1>2, <1>3
-----------------------------------------------------------------------------
(* Nobody waits and nothing is locked at first.                            *)
LEMMA InitInv == Init => Inv
<1> SUFFICES ASSUME Init
             PROVE  Inv
  OBVIOUS
<1>1. TypeOK
  BY SysArchAssumption DEF Init, TypeOK, Steps, Unlocked
<1>2. Owner /\ Locked /\ Noted /\ Placing /\ Sleepers
  BY SysArchAssumption DEF Init, Owner, Locked, Noted, Placing, Sleepers, InLock, Suspends, Unlocked
<1>3. WakeupsOwed
  BY DEF Init, WakeupsOwed
<1>4. QED
  BY <1>1, <1>2, <1>3 DEF Inv, Structure

(* The queue has one owner while it is locked, and what is given to it     *)
(* meanwhile is noted, under every step but the wake-ups.                  *)
LEMMA NextStructure == Structure /\ [Next]_vars => Structure'
<1> SUFFICES ASSUME Structure, [Next]_vars
             PROVE  Structure'
  OBVIOUS
<1> USE SysArchAssumption
<1> USE DEF Structure, TypeOK, Owner, Locked, Noted, Placing, Sleepers
<1> USE DEF InLock, Suspends, Steps, Unlocked
<1>1. ASSUME NEW t \in Takers, Begin(t)
      PROVE  Structure'
  BY <1>1 DEF Begin, Runs, Goto
<1>2. ASSUME NEW t \in Takers, Try(t)
      PROVE  Structure'
  <2>1. suspended = Nobody /\ txLock = Unlocked
    BY <1>2 DEF Try, Runs
  <2>2. QED
    BY <1>2, <2>1 DEF Try, Runs, Goto
<1>3. ASSUME NEW t \in Takers, Lock(t)
      PROVE  Structure'
  <2>1. suspended = Nobody /\ txLock = Unlocked
    BY <1>3 DEF Lock, Runs
  <2>2. QED
    BY <1>3, <2>1 DEF Lock, Runs, Goto
<1>4. ASSUME NEW t \in Takers, Check(t)
      PROVE  Structure'
  BY <1>4 DEF Check, Goto
<1>5. ASSUME NEW t \in Takers, Place(t)
      PROVE  Structure'
  BY <1>5 DEF Place, Goto
<1>6. ASSUME NEW t \in Takers, Unlock(t)
      PROVE  Structure'
  <2>1. waiting' \subseteq waiting
    BY <1>6 DEF Unlock, WakeUpTo
  <2>2. QED
    BY <1>6, <2>1 DEF Unlock, Goto
<1>7. ASSUME NEW t \in Takers, Resume(t)
      PROVE  Structure'
  BY <1>7 DEF Resume, Goto
<1>8. ASSUME NEW t \in Takers, Last(t)
      PROVE  Structure'
  BY <1>8 DEF Last, Runs, Goto
<1>9. ASSUME NEW t \in Takers, Expire(t)
      PROVE  Structure'
  BY <1>9 DEF Expire
<1>10. CASE Give
  <2>1. waiting' \subseteq waiting
    BY <1>10 DEF Give, WakeUpTo
  <2>2. txLock = Unlocked
    BY <1>10 DEF Give
  <2>3. QED
    BY <1>10, <2>1, <2>2 DEF Give
<1>11. CASE IsrGive
  <2>1. waiting' \subseteq waiting
    BY <1>11 DEF IsrGive, WakeUpTo
  <2>2. QED
    BY <1>11, <2>1 DEF IsrGive
<1>12. CASE UNCHANGED vars
  BY <1>12 DEF vars
<1>13. QED
  BY <1>1, <1>2, <1>3, <1>4, <1>5, <1>6, <1>7, <1>8, <1>9, <1>10, <1>11, <1>12
     DEF Next, Inside

(* No step loses a wake-up: who leaves the path takes a token along or     *)
(* leaves none behind, who joins the list has every token noted, and who   *)
(* gives wakes or notes.                                                   *)
LEMMA NextOwed == Inv /\ Structure' /\ [Next]_vars => WakeupsOwed'
<1> SUFFICES ASSUME Inv, Structure', [Next]_vars
             PROVE  WakeupsOwed'
  OBVIOUS
<1> DEFINE W == Cardinality(OnItsWay)
<1>a. TypeOK /\ TypeOK' /\ Sleepers /\ WakeupsOwed
  BY DEF Inv, Structure
<1>b. OnItsWay \in SUBSET Takers /\ OnItsWay' \in SUBSET Takers
  BY DEF OnItsWay
<1>c. W \in Nat /\ W' \in Nat
  BY <1>b, OnItsWayCounted
<1>d. count \in Nat /\ count' \in Nat /\ txLock \in Int /\ txLock' \in Int
  BY <1>a, SysArchAssumption DEF TypeOK, Unlocked
<1>e. ASSUME OnItsWay \subseteq OnItsWay'
      PROVE  W <= W'
  BY <1>b, <1>e, OnItsWayCounted
<1>f. ASSUME NEW t \in OnItsWay, OnItsWay' = OnItsWay \ {t}
      PROVE  W' = W - 1
  BY <1>b, <1>f, OnItsWayCounted, FS_RemoveElement
<1> HIDE DEF W
<1>1. ASSUME NEW t \in Takers, Begin(t)
      PROVE  WakeupsOwed'
  <2>1. OnItsWay \subseteq OnItsWay'
    BY <1>1, <1>a DEF Begin, Goto, OnItsWay, TypeOK
  <2>2. QED
    BY <1>1, <1>a, <1>c, <1>d, <1>e, <2>1 DEF Begin, WakeupsOwed, W
<1>2. ASSUME NEW t \in Takers, Try(t)
      PROVE  WakeupsOwed'
  <2>1. t \in OnItsWay
    BY <1>2, <1>a DEF Try, OnItsWay, Sleepers
  <2>2. CASE count > 0
    <3>1. OnItsWay' = OnItsWay \ {t}
      BY <1>2, <1>a, <2>2 DEF Try, Goto, OnItsWay, TypeOK
    <3>2. W' = W - 1
      BY <1>f, <2>1, <3>1
    <3>3. QED
      BY <1>2, <1>a, <1>c, <1>d, <2>2, <3>2 DEF Try, WakeupsOwed, W
  <2>3. CASE count = 0
    BY <1>2, <1>c, <1>d, <2>3 DEF Try, WakeupsOwed, W
  <2>4. QED
    BY <1>d, <2>2, <2>3
<1>3. ASSUME NEW t \in Takers, Lock(t)
      PROVE  WakeupsOwed'
  <2>1. OnItsWay \subseteq OnItsWay'
    BY <1>3, <1>a DEF Lock, Goto, OnItsWay, TypeOK
  <2>2. txLock = Unlocked
    BY <1>3, SysArchAssumption DEF Lock, Runs, Inv, Structure, Owner, Locked, Suspends, InLock
  <2>3. QED
    BY <1>3, <1>a, <1>c, <1>d, <1>e, <2>1, <2>2 DEF Lock, WakeupsOwed, W, Unlocked
<1>4. ASSUME NEW t \in Takers, Check(t)
      PROVE  WakeupsOwed'
  <2>1. OnItsWay \subseteq OnItsWay'
    BY <1>4, <1>a DEF Check, Goto, OnItsWay, TypeOK
  <2>2. QED
    BY <1>4, <1>a, <1>c, <1>d, <1>e, <2>1 DEF Check, WakeupsOwed, W
<1>5. ASSUME NEW t \in Takers, Place(t)
      PROVE  WakeupsOwed'
  <2>1. count <= txLock
    BY <1>5 DEF Place, Inv, Structure, Placing
  <2>2. QED
    BY <1>5, <1>c, <1>d, <2>1 DEF Place, WakeupsOwed, W
<1>6. ASSUME NEW t \in Takers, Unlock(t)
      PROVE  WakeupsOwed'
  <2>1. txLock \in Nat
    BY <1>6, <1>a DEF Unlock, Inv, Structure, Locked, InLock, TypeOK, Unlocked
  <2>2. \A u \in Takers : at'[u] = "out" <=> at[u] = "out"
    BY <1>6, <1>a DEF Unlock, Goto, TypeOK
  <2>3. waiting' = {} \/ W' = W + txLock
    BY <1>6, <1>a, <2>1, <2>2, WokenAreOnTheirWay DEF Unlock, W
  <2>4. waiting' # {} => waiting # {}
    BY <1>6 DEF Unlock, WakeUpTo
  <2>5. QED
    BY <1>6, <1>a, <1>c, <1>d, <2>1, <2>3, <2>4 DEF Unlock, WakeupsOwed, W
<1>7. ASSUME NEW t \in Takers, Resume(t)
      PROVE  WakeupsOwed'
  <2>1. OnItsWay \subseteq OnItsWay'
    BY <1>7, <1>a DEF Resume, Goto, OnItsWay, TypeOK
  <2>2. QED
    BY <1>7, <1>a, <1>c, <1>d, <1>e, <2>1 DEF Resume, WakeupsOwed, W
<1>8. ASSUME NEW t \in Takers, Last(t)
      PROVE  WakeupsOwed'
  <2>1. CASE count = 0
    BY <1>8, <1>c, <1>d, <2>1 DEF Last, WakeupsOwed, W
  <2>2. CASE count # 0
    <3>1. OnItsWay \subseteq OnItsWay'
      BY <1>8, <1>a, <2>2 DEF Last, Goto, OnItsWay, TypeOK
    <3>2. QED
      BY <1>8, <1>a, <1>c, <1>d, <1>e, <3>1 DEF Last, WakeupsOwed, W
  <2>3. QED
    BY <2>1, <2>2
<1>9. ASSUME NEW t \in Takers, Expire(t)
      PROVE  WakeupsOwed'
  <2>1. OnItsWay \subseteq OnItsWay'
    BY <1>9, <1>a DEF Expire, OnItsWay, TypeOK
  <2>2. QED
    BY <1>9, <1>a, <1>c, <1>d, <1>e, <2>1 DEF Expire, WakeupsOwed, W
<1>10. CASE Give
  <2>1. waiting' = {} \/ W' = W + 1
    BY <1>10, <1>a, WokenAreOnTheirWay DEF Give, W
  <2>2. waiting' # {} => waiting # {}
    BY <1>10 DEF Give, WakeUpTo
  <2>3. QED
    BY <1>10, <1>a, <1>c, <1>d, <2>1, <2>2 DEF Give, WakeupsOwed, W
<1>11. CASE IsrGive
  <2>1. CASE txLock = Unlocked
    <3>1. waiting' = {} \/ W' = W + 1
      BY <1>11, <1>a, <2>1, WokenAreOnTheirWay DEF IsrGive, W
    <3>2. waiting' # {} => waiting # {}
      BY <1>11, <2>1 DEF IsrGive, WakeUpTo
    <3>3. QED
      BY <1>11, <1>a, <1>c, <1>d, <2>1, <3>1, <3>2 DEF IsrGive, WakeupsOwed, W, Unlocked
  <2>2. CASE txLock # Unlocked
    <3>1. OnItsWay' = OnItsWay
      BY <1>11, <2>2 DEF IsrGive, OnItsWay
    <3>2. W' = W
      BY <3>1 DEF W
    <3>3. txLock \in Nat
      BY <1>a, <2>2 DEF TypeOK, Unlocked
    <3>4. QED
      BY <1>11, <1>a, <1>c, <1>d, <2>2, <3>2, <3>3 DEF IsrGive, WakeupsOwed, W
  <2>3. QED
    BY <2>1, <2>2
<1>12. CASE UNCHANGED vars
  BY <1>12, <1>a DEF vars, WakeupsOwed, OnItsWay
<1>13. QED
  BY <1>1, <1>2, <1>3, <1>4, <1>5, <1>6, <1>7, <1>8, <1>9, <1>10, <1>11, <1>12
     DEF Next, Inside

-----------------------------------------------------------------------------
(* The inductive invariant holds in every reachable state.                 *)
THEOREM Invariance == Spec => []Inv
<1>1. Inv /\ [Next]_vars => Inv'
  BY NextStructure, NextOwed DEF Inv
<1>2. QED
  BY InitInv, <1>1, PTL DEF Spec

(* The type invariant holds for every set of tasks and every length: a     *)
(* queue is never over-full, nor is more noted than it holds.              *)
THEOREM TypeCorrect == Spec => []TypeOK
<1>1. Inv => TypeOK
  BY DEF Inv, Structure
<1>2. QED
  BY Invariance, <1>1, PTL

(* No wake-up is lost, however many tasks wait, whatever interrupt,        *)
(* unlocker, sleeper and timeout interleave to (xQueueGenericReceive,      *)
(* xQueueGiveFromISR, prvUnlockQueue).                                     *)
THEOREM WakeupsNotLost == Spec => []WakeupsOwed
<1>1. Inv => WakeupsOwed
  BY DEF Inv
<1>2. QED
  BY Invariance, <1>1, PTL

(* Every step is one of the semaphore, or none: only the look that finds   *)
(* something takes, and only the last look that finds nothing times out.   *)
LEMMA SemaphoreNext ==
  TypeOK /\ Sleepers /\ [Next]_vars => [Abstract!Next]_(Abstract!vars)
<1> SUFFICES ASSUME TypeOK, Sleepers, [Next]_vars
             PROVE  [Abstract!Next]_(Abstract!vars)
  OBVIOUS
<1> DEFINE A == {t \in Takers : at[t] # "out"}
<1> USE DEF TypeOK, Goto
<1>1. ASSUME NEW t \in Takers, Begin(t)
      PROVE  Abstract!Ask(t)
  BY <1>1 DEF Begin, Abstract!Ask
<1>2. ASSUME NEW t \in Takers, Try(t)
      PROVE  Abstract!Take(t) \/ UNCHANGED <<count, A>>
  BY <1>2 DEF Try, Abstract!Take
<1>3. ASSUME NEW t \in Takers,
             Lock(t) \/ Check(t) \/ Place(t) \/ Unlock(t) \/ Resume(t)
      PROVE  UNCHANGED <<count, A>>
  BY <1>3 DEF Lock, Check, Place, Unlock, Resume
<1>4. ASSUME NEW t \in Takers, Last(t)
      PROVE  Abstract!TimeOut(t) \/ UNCHANGED <<count, A>>
  BY <1>4 DEF Last, Abstract!TimeOut
<1>5. ASSUME NEW t \in Takers, Expire(t)
      PROVE  UNCHANGED <<count, A>>
  BY <1>5 DEF Expire
<1>6. CASE Give \/ IsrGive
  BY <1>6 DEF Give, IsrGive, Abstract!Next, Abstract!Give
<1>7. CASE UNCHANGED vars
  BY <1>7 DEF vars, Abstract!vars
<1>8. QED
  BY <1>1, <1>2, <1>3, <1>4, <1>5, <1>6, <1>7
     DEF Next, Inside, Abstract!Next, Abstract!vars

(* The safety part of ImplementsSemaphore: to its users the queue is an    *)
(* atomic semaphore, and a wait that times out ends on an empty queue      *)
(* (sys_arch_sem_wait, sys_arch_mbox_fetch).                               *)
THEOREM QueueIsSemaphore == Spec => Abstract!Safety
<1>1. Init => Abstract!Init
  BY DEF Init, Abstract!Init
<1>2. Inv => TypeOK /\ Sleepers
  BY DEF Inv, Structure
<1>3. QED
  BY Invariance, SemaphoreNext, <1>1, <1>2, PTL DEF Spec, Abstract!Safety
=============================================================================
