---------------------------- MODULE StatusReport ----------------------------
(***************************************************************************)
(* The status path: an edge on an input pin, the one-second timer and a    *)
(* "query" command all ring the same bell, the task notification of the    *)
(* client task, which samples both pins and sends one of four messages.    *)
(*                                                                         *)
(*   EXTI line -> HAL_GPIO_EXTI_Callback --.                               *)
(*   timer service task, Swtmr1_Callback ---+-> ulNotifiedValue -> client  *)
(*   clientrecv, "query" ------------------'                               *)
(*                                                                         *)
(* One processor: an interrupt runs between any two steps of a task, a     *)
(* task runs only when no interrupt does.  A step of the model is what the *)
(* kernel's critical sections, or a single register access, make atomic.   *)
(* The model starts when client_init has returned: the task exists and     *)
(* Ethsend_Task_Handle names it.                                           *)
(***************************************************************************)
EXTENDS Integers, FiniteSets

CONSTANTS
  WordMod,     (* 2^32 on the target: ulNotifiedValue is a uint32_t        *)
  ValueMod,    (* 2^16 on the target: NotifyValue in client is a uint16_t  *)
  MaxQueries,  (* bound: "query" segments waiting in the receive mailbox   *)
  NoReport     (* what the host holds before the first message             *)

ASSUME StatusAssumption ==
  /\ ValueMod \in Nat \ {0, 1}
  /\ WordMod \in Nat \ {0, 1}
  /\ MaxQueries \in Nat

VARIABLES
  pin,      (* the level of each input, TRUE when high                     *)
  latch,    (* the EXTI pending bit of each input's line                   *)
  isr,      (* the line whose handler is between its clear and its give    *)
  notify,   (* ulNotifiedValue of the client task                          *)
  client,   (* where the client task is                                    *)
  scan,     (* the levels Input_Scan has read so far                       *)
  sent,     (* the levels named by the last message written, or NoReport   *)
  queries,  (* "query" segments that clientrecv has not taken yet          *)
  timer,    (* the auto-reload timer of main.c                             *)
  dropped   (* history: the last notification was lost to arithmetic       *)

vars == <<pin, latch, isr, notify, client, scan, sent, queries, timer, dropped>>

Inputs == {1, 2}
None == 0
Levels == [Inputs -> BOOLEAN]

ClientSteps ==
  {"connect",  \* before the inner loop: netconn_new, netconn_connect
   "take",     \* about to enter the first critical section of the take
   "blocked",  \* taskWAITING_NOTIFICATION, on the delayed list
   "woken",    \* about to enter the second critical section of the take
   "scan1",    \* NotifyValue # 0, about to read the first pin
   "scan2",    \* about to read the second pin
   "write"}    \* about to call netconn_write

TypeOK ==
  /\ pin \in Levels
  /\ latch \in [Inputs -> BOOLEAN]
  /\ isr \in Inputs \cup {None}
  /\ notify \in 0 .. WordMod - 1
  /\ client \in ClientSteps
  /\ scan \in Levels
  /\ sent \in Levels \cup {NoReport}
  /\ queries \in 0 .. MaxQueries
  /\ timer \in {"none", "running", "failed"}
  /\ dropped \in BOOLEAN

Init ==
  /\ pin \in Levels
  /\ latch = [i \in Inputs |-> FALSE]
  /\ isr = None
  /\ notify = 0
  /\ client = "connect"
  /\ scan = [i \in Inputs |-> FALSE]
  /\ sent = NoReport
  /\ queries = 0
  /\ timer = "none"
  /\ dropped = FALSE

-----------------------------------------------------------------------------
(* The kernel's give, from a task or from an interrupt: the count wraps,   *)
(* and the task is made ready only if it was waiting for a notification.   *)
Give ==
  /\ notify' = (notify + 1) % WordMod
  /\ client' = IF client = "blocked" THEN "woken" ELSE client
  /\ dropped' = (dropped \/ notify' = 0)

-----------------------------------------------------------------------------
(* The pins and their interrupts.                                          *)

(* mutant: the line is armed for rising edges only *)
EdgeRisingOnly(i) ==
  /\ pin' = [pin EXCEPT ![i] = ~@]
  /\ latch' = [latch EXCEPT ![i] = @ \/ ~pin[i]]
  /\ UNCHANGED <<isr, notify, client, scan, sent, queries, timer, dropped>>

(* A level changes; the line is armed for both edges.                      *)
Edge(i) ==
  /\ pin' = [pin EXCEPT ![i] = ~@]
  /\ latch' = [latch EXCEPT ![i] = TRUE]
  /\ UNCHANGED <<isr, notify, client, scan, sent, queries, timer, dropped>>

(* The handler finds its pending bit set and clears it ...                 *)
IsrClear(i) ==
  /\ isr = None
  /\ latch[i]
  /\ latch' = [latch EXCEPT ![i] = FALSE]
  /\ isr' = i
  /\ UNCHANGED <<pin, notify, client, scan, sent, queries, timer, dropped>>

(* ... and its callback notifies the client task.                          *)
IsrGive ==
  /\ isr # None
  /\ Give
  /\ isr' = None
  /\ UNCHANGED <<pin, latch, scan, sent, queries, timer>>

-----------------------------------------------------------------------------
(* The other two that ring.                                                *)

(* AppTaskCreate ends by creating and starting the timer; either call may  *)
(* fail for want of heap, and then there is no timer for good.             *)
TimerStart ==
  /\ isr = None
  /\ timer = "none"
  /\ timer' \in {"running", "failed"}
  /\ UNCHANGED <<pin, latch, isr, notify, client, scan, sent, queries, dropped>>

(* The timer service task runs Swtmr1_Callback.                            *)
TimerTick ==
  /\ isr = None
  /\ timer = "running"
  /\ Give
  /\ UNCHANGED <<pin, latch, isr, scan, sent, queries, timer>>

(* The host sends "query" over the connection.                             *)
HostQuery ==
  /\ client # "connect"
  /\ queries < MaxQueries
  /\ queries' = queries + 1
  /\ UNCHANGED <<pin, latch, isr, notify, client, scan, sent, timer, dropped>>

(* mutant: the command is taken but the client task is not told *)
RecvQuerySilent ==
  /\ isr = None
  /\ queries > 0
  /\ queries' = queries - 1
  /\ UNCHANGED <<pin, latch, isr, notify, client, scan, sent, timer, dropped>>

(* mutant: the loop body also runs when netconn_recv gave no segment *)
RecvQueryUnguarded ==
  /\ isr = None
  /\ queries' = queries - 1
  /\ Give
  /\ UNCHANGED <<pin, latch, isr, scan, sent, timer>>

(* clientrecv takes the segment and notifies the client task.              *)
RecvQuery ==
  /\ isr = None
  /\ queries > 0
  /\ queries' = queries - 1
  /\ Give
  /\ UNCHANGED <<pin, latch, isr, scan, sent, timer>>

-----------------------------------------------------------------------------
(* The client task.                                                        *)

(* netconn_connect returns something other than -1: the inner loop begins. *)
Connected ==
  /\ isr = None
  /\ client = "connect"
  /\ client' = "take"
  /\ UNCHANGED <<pin, latch, isr, notify, scan, sent, queries, timer, dropped>>

(* mutant: the take blocks without looking at the count first *)
TakeBeginAlwaysBlocks ==
  /\ isr = None
  /\ client = "take"
  /\ client' = "blocked"
  /\ UNCHANGED <<pin, latch, isr, notify, scan, sent, queries, timer, dropped>>

(* ulTaskNotifyTake, first critical section: block only on a zero count.   *)
TakeBegin ==
  /\ isr = None
  /\ client = "take"
  /\ client' = IF notify = 0 THEN "blocked" ELSE "woken"
  /\ UNCHANGED <<pin, latch, isr, notify, scan, sent, queries, timer, dropped>>

(* ulTaskNotifyTake, second critical section, and the test of NotifyValue: *)
(* the count is cleared whatever it was, but its low 16 bits decide.       *)
TakeEnd ==
  /\ isr = None
  /\ client = "woken"
  /\ notify' = 0
  /\ IF notify % ValueMod # 0
       THEN client' = "scan1" /\ dropped' = FALSE
       ELSE client' = "take" /\ dropped' = (dropped \/ notify # 0)
  /\ UNCHANGED <<pin, latch, isr, scan, sent, queries, timer>>

(* Input_Scan reads the first pin, then, in either branch, the second.     *)
ScanFirst ==
  /\ isr = None
  /\ client = "scan1"
  /\ scan' = [scan EXCEPT ![1] = pin[1]]
  /\ client' = "scan2"
  /\ UNCHANGED <<pin, latch, isr, notify, sent, queries, timer, dropped>>

ScanSecond ==
  /\ isr = None
  /\ client = "scan2"
  /\ scan' = [scan EXCEPT ![2] = pin[2]]
  /\ client' = "write"
  /\ UNCHANGED <<pin, latch, isr, notify, sent, queries, timer, dropped>>

(* The value Input_Scan returns: decimal 11, 10, 01 or 00.                 *)
ScanCode(s) == (IF s[1] THEN 10 ELSE 0) + (IF s[2] THEN 1 ELSE 0)

(* mutant: the buffers of the two mixed cases swapped *)
MessageSwapped(code) ==
  CASE code = 11 -> [i \in Inputs |-> TRUE]
    [] code = 10 -> [i \in Inputs |-> i = 2]
    [] code = 1  -> [i \in Inputs |-> i = 1]
    [] code = 0  -> [i \in Inputs |-> FALSE]

(* What send_buf1 .. send_buf4 say of the inputs.                          *)
Message(code) ==
  CASE code = 11 -> [i \in Inputs |-> TRUE]
    [] code = 10 -> [i \in Inputs |-> i = 1]
    [] code = 1  -> [i \in Inputs |-> i = 2]
    [] code = 0  -> [i \in Inputs |-> FALSE]

(* mutant: the count is reset after the write as well, "to be sure" *)
WriteAndReset ==
  /\ isr = None
  /\ client = "write"
  /\ sent' = Message(ScanCode(scan))
  /\ client' = "take"
  /\ notify' = 0
  /\ UNCHANGED <<pin, latch, isr, scan, queries, timer, dropped>>

(* netconn_write of the message; its result is not looked at.              *)
Write ==
  /\ isr = None
  /\ client = "write"
  /\ sent' = Message(ScanCode(scan))
  /\ client' = "take"
  /\ UNCHANGED <<pin, latch, isr, notify, scan, queries, timer, dropped>>

-----------------------------------------------------------------------------
Client == Connected \/ TakeBegin \/ TakeEnd \/ ScanFirst \/ ScanSecond \/ Write
Isr == IsrGive \/ \E i \in Inputs : IsrClear(i)
Environment == HostQuery \/ \E i \in Inputs : Edge(i)

Next ==
  \/ Environment
  \/ Isr
  \/ TimerStart
  \/ TimerTick
  \/ RecvQuery
  \/ Client

Spec == Init /\ [][Next]_vars

(* Fairness.  A pending interrupt is served, the kernel runs every ready   *)
(* task in the end (the application's tasks all block), the timer expires  *)
(* every second and netconn_write returns while the host keeps reading.    *)
(* An interrupt takes the processor from a task over and over if the pins  *)
(* never rest, so a task's fairness is strong; the pins and the host owe   *)
(* nothing.                                                                *)
FairSpec ==
  /\ Spec
  /\ WF_vars(Isr)
  /\ WF_vars(TimerStart)
  /\ SF_vars(TimerTick)
  /\ SF_vars(RecvQuery)
  /\ SF_vars(Client)

-----------------------------------------------------------------------------
(* Something still stands for input i that will make the client sample it: *)
(* a latched edge, a handler on its way to the give, or a count to take.   *)
Ringing == isr # None \/ notify # 0 \/ \E i \in Inputs : latch[i]
Sampling == client \in {"scan1", "scan2", "write"}

(* No sample is silently out of date: each level the client has read in    *)
(* the scan under way is still the level of its pin, or a notification     *)
(* that came after the take will make the client scan again.  A scan torn  *)
(* by an edge between its two reads is therefore always followed by a      *)
(* whole one (Input_Scan, HAL_GPIO_EXTI_Callback).                         *)
TornScanRepeated ==
  /\ client \in {"scan2", "write"} /\ scan[1] # pin[1] => Ringing \/ dropped
  /\ client = "write" /\ scan[2] # pin[2] => Ringing \/ dropped

(* The host is never left with a wrong picture: when no interrupt, no      *)
(* notification and no scan is outstanding, the last message names the     *)
(* levels of the pins, unless a notification was lost to the width of the  *)
(* counters (client, HAL_GPIO_EXTI_Callback, ulTaskNotifyTake).            *)
HostUpToDate ==
  ~Ringing /\ ~Sampling /\ ~dropped => sent \in {NoReport, pin}

(* No lost wake-up: the client never sleeps on a count that is not zero    *)
(* (ulTaskNotifyTake against vTaskNotifyGiveFromISR and xTaskNotifyGive).  *)
NoLostWakeup == client = "blocked" => notify = 0

(* The path implements the mirror: what is owed is whatever rings, is      *)
(* being sampled, or was dropped.                                          *)
Mirror == INSTANCE InputMirror WITH owed <- (Ringing \/ Sampling \/ dropped)
ImplementsMirror == Mirror!Spec

(* Once the pins rest, the host comes to hold their levels and keeps them, *)
(* unless notifications go on being dropped or none was ever given.        *)
StatusConverges ==
  \A v \in Levels :
    <>[](pin = v) => <>[](sent \in {NoReport, v}) \/ []<>dropped

(* A "query" is answered by a scan made after it arrived, with the timer   *)
(* running or not, unless its notification was dropped (clientrecv).       *)
QueryAnswered == queries > 0 ~> (client = "scan1" \/ dropped)
=============================================================================
