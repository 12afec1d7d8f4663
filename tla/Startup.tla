------------------------------ MODULE Startup ------------------------------
(***************************************************************************)
(* Start-up, composed with transmission: main and BSP_Init enable the      *)
(* interrupts, AppTaskCreate brings up the stack, sends DHCP's discover    *)
(* (EthOutput's task Boot), polls for an address, and creates client,      *)
(* clientrecv, I2ceeprom_Task and the timer before it deletes itself       *)
(* inside a critical section.                                              *)
(*                                                                         *)
(* Interrupts and tasks notify other tasks through handles that are null   *)
(* until their creator has stored them; any creation may fail for want of  *)
(* heap.  The address comes once a request of the TCP/IP thread has left   *)
(* undamaged: here what EthOutput does to that frame matters.              *)
(***************************************************************************)
EXTENDS EthOutput

CONSTANTS Client, Recv, Eeprom  (* client, clientrecv, I2ceeprom_Task      *)

ASSUME StartupAssumption ==
  /\ Clients = {Client, Recv}
  /\ Client # Recv
  /\ Eeprom \notin Senders

VARIABLES
  boot,     (* how far main and AppTaskCreate are                          *)
  alive,    (* the tasks created; Stack stands for tcpip_thread and ETHIN  *)
  handle,   (* the tasks whose handle is not null                          *)
  timer,    (* AutoReloadTimer runs                                        *)
  masked,   (* uxCriticalNesting > 0: no switch, no interrupt              *)
  address   (* gnetif.ip_addr is set                                       *)

startVars == <<boot, alive, handle, timer, masked, address>>
allVars == <<vars, startVars>>

Created == {Client, Recv, Eeprom}

BootSteps ==
  {"reset",    \* in BSP_Init, before INPUT_EXTI_Init
   "main",     \* the interrupts are on, the scheduler is not
   "tcpip",    \* AppTaskCreate runs, in TCPIP_Init
   "send",     \* in dhcp_start
   "dhcp",     \* polls for an address
   "client",   \* about to create client
   "clientH",  \* about to store its handle
   "recv",     \* about to create clientrecv
   "recvH",    \* about to store its handle
   "eeprom",   \* in its critical section, about to create I2ceeprom_Task
   "timer",    \* about to create and start the timer
   "delete",   \* about to delete itself
   "exit",     \* deleted, about to leave the critical section
   "gone",     \* switched out for the last time
   "halted"}   \* main has returned: AppTaskCreate could not be created

StartTypeOK ==
  /\ TypeOK
  /\ boot \in BootSteps
  /\ alive \subseteq Created \cup {Stack}
  /\ handle \subseteq alive
  /\ timer \in BOOLEAN
  /\ masked \in BOOLEAN
  /\ address \in BOOLEAN

StartInit ==
  /\ Init
  /\ boot = "reset"
  /\ alive = {}
  /\ handle = {}
  /\ timer = FALSE
  /\ masked = FALSE
  /\ address = FALSE

-----------------------------------------------------------------------------
BspInit ==
  /\ boot = "reset"
  /\ boot' = "main"
  /\ UNCHANGED <<vars, alive, handle, timer, masked, address>>

(* main creates AppTaskCreate and starts the scheduler, or returns.        *)
Main ==
  /\ boot = "main"
  /\ boot' \in {"tcpip", "halted"}
  /\ UNCHANGED <<vars, alive, handle, timer, masked, address>>

(* tcpip_init and netif_add create their threads; sys_thread_new only      *)
(* prints a failure.                                                       *)
TcpipInit ==
  /\ boot = "tcpip"
  /\ boot' = "send"
  /\ alive' \in {alive, alive \cup {Stack}}
  /\ UNCHANGED <<vars, handle, timer, masked, address>>

DhcpStarted ==
  /\ boot = "send"
  /\ BootDone
  /\ boot' = "dhcp"
  /\ UNCHANGED <<vars, alive, handle, timer, masked, address>>

(* The server has answered a whole request of the TCP/IP thread.           *)
Lease ==
  /\ ~masked /\ ~address
  /\ \E i \in DOMAIN wire : wire[i][1] = Stack /\ wire[i] \notin spoilt
  /\ address' = TRUE
  /\ UNCHANGED <<vars, boot, alive, handle, timer, masked>>

AddressSeen ==
  /\ boot = "dhcp"
  /\ address
  /\ boot' = "client"
  /\ UNCHANGED <<vars, alive, handle, timer, masked, address>>

(* client and clientrecv run (priority 4) before their handle is stored;   *)
(* if the creation fails the handle stays null and the start-up goes on.   *)
Create(step, task, next) ==
  /\ boot = step
  /\ alive' \in {alive, alive \cup {task}}
  /\ boot' = next
  /\ UNCHANGED <<vars, handle, timer, masked, address>>

Store(step, task, next) ==
  /\ boot = step
  /\ handle' = handle \cup ({task} \cap alive)
  /\ boot' = next
  /\ masked' = (next = "eeprom")
  /\ UNCHANGED <<vars, alive, timer, address>>

(* mutant: clientrecv_init comes before client_init                        *)
InitTasksSwapped ==
  \/ Create("client", Recv, "clientH") \/ Store("clientH", Recv, "recv")
  \/ Create("recv", Client, "recvH") \/ Store("recvH", Client, "eeprom")

InitTasks ==
  \/ Create("client", Client, "clientH") \/ Store("clientH", Client, "recv")
  \/ Create("recv", Recv, "recvH") \/ Store("recvH", Recv, "eeprom")

(* In the critical section: xTaskCreate stores the handle itself.          *)
CreateEeprom ==
  /\ boot = "eeprom"
  /\ \/ alive' = alive \cup {Eeprom} /\ handle' = handle \cup {Eeprom}
     \/ UNCHANGED <<alive, handle>>
  /\ boot' = "timer"
  /\ UNCHANGED <<vars, timer, masked, address>>

(* The if after the creation governs xTimerCreate only, so that without    *)
(* I2ceeprom_Task there is no timer; the timer's creation may fail too.    *)
CreateTimer ==
  /\ boot = "timer"
  /\ timer' \in {FALSE, (Eeprom \in alive)}
  /\ boot' = "delete"
  /\ UNCHANGED <<vars, alive, handle, masked, address>>

(* mutant: vTaskDelete does not return, the mask is never lifted           *)
DeleteSelfAtOnce ==
  /\ boot = "delete"
  /\ boot' = "gone"
  /\ UNCHANGED <<vars, alive, handle, timer, masked, address>>

(* vTaskDelete asks for a switch, which the mask holds back: the deleted   *)
(* task runs on and leaves the critical section.                           *)
DeleteSelf ==
  /\ boot = "delete"
  /\ boot' = "exit"
  /\ UNCHANGED <<vars, alive, handle, timer, masked, address>>

ExitCritical ==
  /\ boot = "exit"
  /\ masked' = FALSE
  /\ boot' = "gone"
  /\ UNCHANGED <<vars, alive, handle, timer, address>>

AppTaskCreate ==
  \/ BspInit \/ Main \/ TcpipInit \/ DhcpStarted \/ AddressSeen
  \/ InitTasks \/ CreateEeprom \/ CreateTimer \/ DeleteSelf \/ ExitCritical

-----------------------------------------------------------------------------
(* Who notifies whom, and since when: the interrupt of an input and of the *)
(* UART's idle line, clientrecv on a query (it has client's connection),   *)
(* the timer each second.                                                  *)
Sources ==
  [edge  |-> [to |-> Client, on |-> boot # "reset"],
   line  |-> [to |-> Eeprom, on |-> boot # "reset"],
   query |-> [to |-> Client, on |-> {Client, Recv} \subseteq alive],
   tick  |-> [to |-> Client, on |-> timer]]

(* A notification now would go to a null handle: the assertion prints a    *)
(* line, and the kernel writes through the null pointer.                   *)
NotifiesNull(s) ==
  Sources[s].on /\ ~masked /\ Sources[s].to \notin handle

-----------------------------------------------------------------------------
(* Transmission as in EthOutput: Boot sends within dhcp_start, the others  *)
(* once they exist, and no task runs while AppTaskCreate masks switches.   *)
MaySend(s) == ~masked /\ IF s = Boot THEN boot = "send" ELSE s \in alive
Begin(s) == MaySend(s) /\ Enter(s) /\ UNCHANGED startVars
Continue(s) == MaySend(s) /\ Inside(s) /\ UNCHANGED startVars
Device == (Dma \/ (IsrUnlock /\ ~masked)) /\ UNCHANGED startVars

StartNext ==
  \/ AppTaskCreate
  \/ Lease
  \/ \E s \in Senders : Begin(s) \/ Continue(s)
  \/ Device

(* Fairness.  AppTaskCreate runs again and again: everything above it      *)
(* blocks, and it yields only by vTaskDelay (weak).  Tasks inside          *)
(* low_level_output run on although AppTaskCreate may mask them once       *)
(* (weak).  DHCP's timer makes the TCP/IP thread send again while there is *)
(* no answer (weak), and the server answers a request that reached it      *)
(* (weak, and an assumption: without a server AppTaskCreate polls for      *)
(* ever).  The DMA works by itself.                                        *)
StartSpec ==
  /\ StartInit /\ [][StartNext]_allVars
  /\ WF_allVars(AppTaskCreate)
  /\ WF_allVars(Begin(Boot))
  /\ \A s \in Senders : WF_allVars(Continue(s))
  /\ WF_allVars(Begin(Stack))
  /\ WF_allVars(Lease)
  /\ WF_allVars(Dma /\ UNCHANGED startVars)

-----------------------------------------------------------------------------
(* A task or timer notifies a null handle only if client could not be      *)
(* created at all; an interrupt does so only during start-up or for the    *)
(* same reason (the order of client_init, clientrecv_init and xTimerStart).*)
NullOnlyAtStart ==
  /\ ~NotifiesNull("query")
  /\ NotifiesNull("tick") => Client \notin alive
  /\ boot = "gone" => handle = alive \cap Created

(* With a stack and a server the start-up comes to its end and leaves its  *)
(* critical section, although the first request may have left damaged and  *)
(* AppTaskCreate is deleted before it has lifted the mask (TCPIP_Init,     *)
(* AppTaskCreate).                                                         *)
StartupEnds == Stack \in alive ~> boot = "gone" /\ ~masked
=============================================================================
