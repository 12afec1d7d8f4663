------------------------------ MODULE SysArch ------------------------------
(***************************************************************************)
(* The semaphores and mailboxes of sys_arch.c on the queues of FreeRTOS:   *)
(* sys_arch_sem_wait and sys_arch_mbox_fetch are xQueueGenericReceive,     *)
(* sys_sem_signal and sys_mbox_trypost are xQueueGenericSend without       *)
(* waiting, and the Ethernet interrupt gives with xQueueGiveFromISR.       *)
(*                                                                         *)
(* A task that finds nothing suspends the scheduler, locks the queue,      *)
(* looks again, puts itself on the list of those waiting, and undoes the   *)
(* rest in reverse.  Meanwhile only interrupts run; what they give to a    *)
(* locked queue is noted in cTxLock, and the unlocker wakes for it.        *)
(*                                                                         *)
(* Messages are counted, not told apart.  Sending never waits: the program *)
(* posts with sys_mbox_trypost only.  Every critical section is one step.  *)
(***************************************************************************)
EXTENDS Integers, FiniteSets

CONSTANTS
  Takers,   (* the tasks that wait on the queue                            *)
  Timed,    (* those that wait with a timeout: the TCP/IP thread           *)
  Length    (* uxLength: 1 for a binary semaphore, 40 for s_xSemaphore     *)

Nobody == <<>>
Unlocked == -1

ASSUME SysArchAssumption ==
  /\ IsFiniteSet(Takers)
  /\ Nobody \notin Takers
  /\ Timed \subseteq Takers
  /\ Length \in Nat \ {0}

VARIABLES
  count,      (* uxMessagesWaiting                                         *)
  txLock,     (* cTxLock                                                   *)
  waiting,    (* xTasksWaitingToReceive                                    *)
  suspended,  (* the task that has suspended the scheduler, or Nobody      *)
  at,         (* where each task is in xQueueGenericReceive                *)
  expired     (* the tasks whose timeout has passed                        *)

vars == <<count, txLock, waiting, suspended, at, expired>>

Steps ==
  {"out",      \* not in a wait
   "try",      \* about to look at the count
   "lock",     \* has found nothing, about to suspend and lock
   "check",    \* about to look at the time and again at the count
   "place",    \* has found nothing again, about to join the list
   "unlock",   \* about to unlock, on the list of those waiting or not
   "resume",   \* about to resume the scheduler
   "blocked",  \* gives the processor away; ready again once off the list
   "late", "lateResume",  \* unlock and resume after a timeout
   "last"}     \* about to look at the count a last time

TypeOK ==
  /\ count \in 0 .. Length
  /\ txLock \in Unlocked .. Length
  /\ waiting \subseteq Takers
  /\ suspended \in Takers \cup {Nobody}
  /\ at \in [Takers -> Steps]
  /\ expired \subseteq Timed

Init ==
  /\ count = 0
  /\ txLock = Unlocked
  /\ waiting = {}
  /\ suspended = Nobody
  /\ at = [t \in Takers |-> "out"]
  /\ expired = {}

Runs(t) == suspended \in {t, Nobody}
Goto(t, step) == at' = [at EXCEPT ![t] = step]

(* xTaskRemoveFromEventList for n tasks, or for as many as there are; the  *)
(* list is in the order of the priorities, which are left open here.       *)
WakeUpTo(n) ==
  \E s \in SUBSET waiting :
    /\ \/ Cardinality(s) = n
       \/ s = waiting /\ Cardinality(s) < n
    /\ waiting' = waiting \ s

-----------------------------------------------------------------------------
(* sys_arch_sem_wait and sys_arch_mbox_fetch.                              *)
Begin(t) ==
  /\ Runs(t)
  /\ at[t] = "out"
  /\ Goto(t, "try")
  /\ expired' = expired \ {t}
  /\ UNCHANGED <<count, txLock, waiting, suspended>>

Try(t) ==
  /\ Runs(t)
  /\ at[t] = "try" \/ (at[t] = "blocked" /\ t \notin waiting)
  /\ IF count > 0
       THEN count' = count - 1 /\ Goto(t, "out")
       ELSE Goto(t, "lock") /\ UNCHANGED count
  /\ UNCHANGED <<txLock, waiting, suspended, expired>>

Lock(t) ==
  /\ Runs(t)
  /\ at[t] = "lock"
  /\ suspended' = t
  /\ txLock' = 0
  /\ Goto(t, "check")
  /\ UNCHANGED <<count, waiting, expired>>

Check(t) ==
  /\ at[t] = "check"
  /\ Goto(t, IF t \in expired THEN "late"
             ELSE IF count = 0 THEN "place" ELSE "unlock")
  /\ UNCHANGED <<count, txLock, waiting, suspended, expired>>

(* vTaskPlaceOnEventList                                                   *)
Place(t) ==
  /\ at[t] = "place"
  /\ waiting' = waiting \cup {t}
  /\ Goto(t, "unlock")
  /\ UNCHANGED <<count, txLock, suspended, expired>>

(* prvUnlockQueue                                                          *)
Unlock(t) ==
  /\ at[t] \in {"unlock", "late"}
  /\ WakeUpTo(txLock)
  /\ txLock' = Unlocked
  /\ Goto(t, IF at[t] = "unlock" THEN "resume" ELSE "lateResume")
  /\ UNCHANGED <<count, suspended, expired>>

(* xTaskResumeAll: a task still on the list gives the processor away.      *)
Resume(t) ==
  /\ at[t] \in {"resume", "lateResume"}
  /\ suspended' = Nobody
  /\ Goto(t, IF at[t] = "lateResume" THEN "last"
             ELSE IF t \in waiting THEN "blocked" ELSE "try")
  /\ UNCHANGED <<count, txLock, waiting, expired>>

(* mutant: a wait that is late gives up without a last look                *)
LastBlind(t) ==
  /\ Runs(t)
  /\ at[t] = "last"
  /\ Goto(t, "out")
  /\ UNCHANGED <<count, txLock, waiting, suspended, expired>>

Last(t) ==
  /\ Runs(t)
  /\ at[t] = "last"
  /\ Goto(t, IF count = 0 THEN "out" ELSE "try")
  /\ UNCHANGED <<count, txLock, waiting, suspended, expired>>

-----------------------------------------------------------------------------
(* mutant: the tick wakes the task but leaves it on the queue's list       *)
ExpireOnly(t) ==
  /\ suspended = Nobody
  /\ t \in Timed \ expired
  /\ at[t] \notin {"out", "try"}
  /\ expired' = expired \cup {t}
  /\ UNCHANGED <<count, txLock, suspended, at, waiting>>

(* The tick: time does not pass while the scheduler is suspended; a task   *)
(* whose time has come is taken off the list.  The timeout starts with the *)
(* first look that finds nothing (later looks do not wait for it).         *)
Expire(t) ==
  /\ suspended = Nobody
  /\ t \in Timed \ expired
  /\ at[t] \notin {"out", "try"}
  /\ expired' = expired \cup {t}
  /\ waiting' = waiting \ {t}
  /\ UNCHANGED <<count, txLock, suspended, at>>

(* sys_sem_signal, sys_mbox_trypost; a full queue refuses.                 *)
Give ==
  /\ suspended = Nobody
  /\ count < Length
  /\ count' = count + 1
  /\ WakeUpTo(1)
  /\ UNCHANGED <<txLock, suspended, at, expired>>

(* mutant: what is given to a locked queue is not noted                    *)
IsrGiveUnnoted ==
  /\ count < Length
  /\ count' = count + 1
  /\ IF txLock = Unlocked THEN WakeUpTo(1) ELSE UNCHANGED waiting
  /\ UNCHANGED <<txLock, suspended, at, expired>>

(* mutant: a full queue is not noticed                                     *)
IsrGiveUnbounded ==
  /\ count' = count + 1
  /\ IF txLock = Unlocked
       THEN WakeUpTo(1) /\ UNCHANGED txLock
       ELSE txLock' = txLock + 1 /\ UNCHANGED waiting
  /\ UNCHANGED <<suspended, at, expired>>

(* HAL_ETH_RxCpltCallback by xQueueGiveFromISR, at any time.               *)
IsrGive ==
  /\ count < Length
  /\ count' = count + 1
  /\ IF txLock = Unlocked
       THEN WakeUpTo(1) /\ UNCHANGED txLock
       ELSE txLock' = txLock + 1 /\ UNCHANGED waiting
  /\ UNCHANGED <<suspended, at, expired>>

-----------------------------------------------------------------------------
Inside(t) ==
  Try(t) \/ Lock(t) \/ Check(t) \/ Place(t) \/ Unlock(t) \/ Resume(t) \/ Last(t)

Next ==
  \/ \E t \in Takers : Begin(t) \/ Inside(t) \/ Expire(t)
  \/ Give
  \/ IsrGive

Spec == Init /\ [][Next]_vars

(* Fairness.  A task that can run runs, unless others suspend the          *)
(* scheduler again and again (strong), and the clock goes on, with the     *)
(* same proviso.                                                           *)
FairSpec ==
  /\ Spec
  /\ \A t \in Takers : SF_vars(Inside(t))
  /\ \A t \in Timed : SF_vars(Expire(t))

-----------------------------------------------------------------------------
(* While tasks sleep on the list, each token is owed to a task on its way  *)
(* to look at the count or to a wake-up noted in cTxLock: no interleaving  *)
(* of interrupt, unlocker, sleeper and timeout loses a wake-up             *)
(* (xQueueGenericReceive, xQueueGiveFromISR, prvUnlockQueue).              *)
OnItsWay == {t \in Takers : at[t] # "out" /\ t \notin waiting}
WakeupsOwed ==
  waiting # {} =>
    count <= Cardinality(OnItsWay) + (IF txLock > 0 THEN txLock ELSE 0)

(* To its users the queue is the semaphore they take it for, and also in   *)
(* that no token stays untaken while a task asks for it.                   *)
Abstract == INSTANCE Semaphore WITH
  Max <- Length, asking <- {t \in Takers : at[t] # "out"}
ImplementsSemaphore == Abstract!Spec

(* A wait with a timeout comes to an end, so that the TCP/IP thread goes   *)
(* back to its timers, unless another task takes away, again and again,    *)
(* what the late one saw in its last look (sys_arch_mbox_fetch).           *)
Takes(u) == count' < count /\ at[u] # "out" /\ at'[u] = "out"
TimedWaitEnds == \A t \in Timed :
  \/ at[t] # "out" ~> at[t] = "out"
  \/ \E u \in Takers \ {t} : []<><<Takes(u)>>_vars
=============================================================================
