----------------------------- MODULE Semaphore -----------------------------
(***************************************************************************)
(* What the other modules take a semaphore or mailbox of sys_arch.c to be: *)
(* a bounded count that is taken in one step as soon as it is not zero.    *)
(* A wait that ends by timeout ends while the count is zero, and a task    *)
(* that asks does not sleep over a count that stays positive.              *)
(***************************************************************************)
EXTENDS Integers

CONSTANTS Takers, Max

VARIABLES
  count,  (* tokens, or messages in the mailbox *)
  asking  (* the tasks inside a wait or fetch   *)

vars == <<count, asking>>

Init == count = 0 /\ asking = {}

Ask(t) == t \notin asking /\ asking' = asking \cup {t} /\ UNCHANGED count
Give == count < Max /\ count' = count + 1 /\ UNCHANGED asking
Take(t) == t \in asking /\ count > 0 /\ count' = count - 1 /\ asking' = asking \ {t}
TimeOut(t) == t \in asking /\ count = 0 /\ asking' = asking \ {t} /\ UNCHANGED count

Next == Give \/ \E t \in Takers : Ask(t) \/ Take(t) \/ TimeOut(t)

Safety == Init /\ [][Next]_vars
Spec == Safety /\ WF_vars(\E t \in Takers : Take(t))
=============================================================================
