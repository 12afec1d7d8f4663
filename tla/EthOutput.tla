----------------------------- MODULE EthOutput -----------------------------
(***************************************************************************)
(* Transmission: low_level_output copies a frame into the buffer of the    *)
(* descriptor heth.TxDesc and HAL_ETH_TransmitFrame hands the descriptor   *)
(* to the Ethernet DMA, which suspends itself when it finds nothing.       *)
(*                                                                         *)
(* The TCP/IP thread, client and clientrecv send under lwIP's core lock.   *)
(* AppTaskCreate sends the first frame of all, DHCP's discover, without it *)
(* (dhcp_start in TCPIP_Init), so its way through low_level_output may     *)
(* overlap that of the TCP/IP thread; the semaphore ousem is then all that *)
(* keeps them apart.                                                       *)
(*                                                                         *)
(* A frame fits one descriptor (ETH_TX_BUF_SIZE is 1524), so the branches  *)
(* for longer frames do not occur.  The DMA stores a frame before it sends *)
(* it (ETH_TRANSMITSTOREFORWARD_ENABLE), so there is no underflow.         *)
(***************************************************************************)
EXTENDS Integers, Sequences, FiniteSets

CONSTANTS
  Boot,       (* AppTaskCreate, priority 1                                 *)
  Stack,      (* the TCP/IP thread, priority 3                             *)
  Clients,    (* client and clientrecv, priority 4, started after DHCP     *)
  RingSize,   (* ETH_TXBUFNB, 8 on the target                              *)
  MaxFrames   (* bound: how many frames each of Stack and Clients sends    *)

Senders == {Boot, Stack} \cup Clients
Nobody == <<>>

ASSUME EthOutputAssumption ==
  /\ Boot # Stack
  /\ Nobody \notin Senders
  /\ {Boot, Stack} \cap Clients = {}
  /\ RingSize \in Nat \ {0}
  /\ MaxFrames \in Nat

VARIABLES
  core,     (* who has lwIP's core lock; Nobody if it is free              *)
  ousem,    (* the binary semaphore's count; Null until it is created      *)
  at,       (* where each task is in low_level_output                      *)
  mine,     (* DmaTxDesc of each task, read on the way in                  *)
  begun,    (* how many frames each task has passed to low_level_output    *)
  lock,     (* heth.Lock                                                   *)
  tx,       (* heth.TxDesc                                                 *)
  slot,     (* the frame whose descriptor the DMA owns; None if the CPU's  *)
  buffer,   (* the frame in the buffer of each descriptor                  *)
  dma,      (* the descriptor the DMA looks at next                        *)
  tbus,     (* ETH_DMASR_TBUS: the DMA has suspended itself                *)
  queued,   (* history: the frames handed to the DMA, in order             *)
  wire,     (* history: the frames that have left, in order                *)
  spoilt,   (* history: the frames that left with another frame's bytes    *)
  accepted  (* history: the frames for which ERR_OK was returned           *)

taskVars == <<core, at, mine, begun>>
dmaVars == <<dma, tbus, wire, spoilt>>
ringVars == <<tx, slot, buffer, queued>>
vars == <<taskVars, ousem, lock, ringVars, dmaVars, accepted>>

None == <<>>
Null == -1
Frames == {<<s, n>> : s \in Senders, n \in 1 .. MaxFrames + 1}
Slots == 0 .. RingSize - 1
Succ(d) == (d + 1) % RingSize

Steps ==
  {"out",      \* not in low_level_output
   "enter",    \* about to look at ousem
   "give1",    \* has created it, about to give it for the first time
   "read",     \* about to read heth.TxDesc
   "wait",     \* at sys_sem_wait
   "copy",     \* has the semaphore, about to copy the frame
   "hand",     \* about to call HAL_ETH_TransmitFrame
   "own",      \* has the HAL lock, about to set OWN
   "advance",  \* has set OWN, about to advance TxDesc
   "ok", "use"}\* about to signal and to return ERR_OK or ERR_USE

TypeOK ==
  /\ core \in Senders \cup {Nobody}
  /\ ousem \in {0, 1, Null}
  /\ at \in [Senders -> Steps]
  /\ mine \in [Senders -> Slots]
  /\ begun \in [Senders -> 0 .. MaxFrames + 1]
  /\ lock \in BOOLEAN
  /\ tx \in Slots
  /\ slot \in [Slots -> Frames \cup {None}]
  /\ buffer \in [Slots -> Frames \cup {None}]
  /\ dma \in Slots
  /\ tbus \in BOOLEAN
  /\ queued \in Seq(Frames)
  /\ wire \in Seq(Frames)
  /\ spoilt \in SUBSET Frames
  /\ accepted \in SUBSET Frames

Init ==
  /\ core = Nobody
  /\ ousem = Null
  /\ at = [s \in Senders |-> "out"]
  /\ mine = [s \in Senders |-> 0]
  /\ begun = [s \in Senders |-> 0]
  /\ lock = FALSE
  /\ tx = 0
  /\ slot = [d \in Slots |-> None]
  /\ buffer = [d \in Slots |-> None]
  /\ dma = 0
  /\ tbus = FALSE
  /\ queued = <<>>
  /\ wire = <<>>
  /\ spoilt = {}
  /\ accepted = {}

Frame(s) == <<s, begun[s]>>
BootDone == begun[Boot] = 1 /\ at[Boot] = "out"

(* AppTaskCreate runs only while the TCP/IP thread is blocked or has       *)
(* nothing to do.                                                          *)
Runs(s) == s = Boot => at[Stack] = "out" \/ (at[Stack] = "wait" /\ ousem = 0)

Goto(s, step) == at' = [at EXCEPT ![s] = step]

-----------------------------------------------------------------------------
(* A task has a frame to send.  Until the discover is out, the interface   *)
(* has no address and DHCP no timer runs, so the TCP/IP thread has         *)
(* nothing to send.                                                        *)
Enter(s) ==
  /\ at[s] = "out"
  /\ begun[s] < (IF s = Boot THEN 1 ELSE MaxFrames)
  /\ s = Stack => wire # <<>> \/ BootDone
  /\ s \in Clients => BootDone
  /\ IF s = Boot THEN UNCHANGED core ELSE core = Nobody /\ core' = s
  /\ begun' = [begun EXCEPT ![s] = @ + 1]
  /\ Goto(s, "enter")
  /\ UNCHANGED <<mine, ousem, lock, ringVars, dmaVars, accepted>>

(* The first caller creates the semaphore, empty, and then gives it.       *)
NewSem(s) ==
  /\ at[s] = "enter" /\ Runs(s)
  /\ IF ousem = Null
       THEN ousem' = 0 /\ Goto(s, "give1")
       ELSE Goto(s, "read") /\ UNCHANGED ousem
  /\ UNCHANGED <<core, mine, begun, lock, ringVars, dmaVars, accepted>>

FirstGive(s) ==
  /\ at[s] = "give1" /\ Runs(s)
  /\ ousem' = 1
  /\ Goto(s, "read")
  /\ UNCHANGED <<core, mine, begun, lock, ringVars, dmaVars, accepted>>

(* mutant: the descriptor is not looked at                                 *)
ReadBlindly(s) ==
  /\ at[s] = "read" /\ Runs(s)
  /\ mine' = [mine EXCEPT ![s] = tx]
  /\ Goto(s, "wait")
  /\ UNCHANGED <<core, begun, ousem, lock, ringVars, dmaVars, accepted>>

(* buffer and DmaTxDesc are read before the wait; a descriptor still with  *)
(* the DMA sends the task to the label error.                              *)
ReadDesc(s) ==
  /\ at[s] = "read" /\ Runs(s)
  /\ mine' = [mine EXCEPT ![s] = tx]
  /\ Goto(s, IF slot[tx] # None THEN "use" ELSE "wait")
  /\ UNCHANGED <<core, begun, ousem, lock, ringVars, dmaVars, accepted>>

(* mutant: the semaphore is not waited for                                 *)
WaitNot(s) ==
  /\ at[s] = "wait" /\ Runs(s)
  /\ Goto(s, "copy")
  /\ UNCHANGED <<core, mine, begun, ousem, lock, ringVars, dmaVars, accepted>>

Wait(s) ==
  /\ at[s] = "wait" /\ Runs(s)
  /\ ousem = 1
  /\ ousem' = 0
  /\ Goto(s, "copy")
  /\ UNCHANGED <<core, mine, begun, lock, ringVars, dmaVars, accepted>>

Copy(s) ==
  /\ at[s] = "copy" /\ Runs(s)
  /\ buffer' = [buffer EXCEPT ![mine[s]] = Frame(s)]
  /\ Goto(s, "hand")
  /\ UNCHANGED <<core, mine, begun, ousem, lock, tx, slot, queued, dmaVars, accepted>>

(* HAL_ETH_TransmitFrame: HAL_BUSY and HAL_ERROR are not looked at by its  *)
(* caller, which returns ERR_OK.                                           *)
Hand(s) ==
  /\ at[s] = "hand" /\ Runs(s)
  /\ IF lock \/ slot[tx] # None
       THEN Goto(s, "ok") /\ UNCHANGED lock
       ELSE Goto(s, "own") /\ lock' = TRUE
  /\ UNCHANGED <<core, mine, begun, ousem, ringVars, dmaVars, accepted>>

SetOwn(s) ==
  /\ at[s] = "own" /\ Runs(s)
  /\ slot' = [slot EXCEPT ![tx] = Frame(s)]
  /\ queued' = Append(queued, Frame(s))
  /\ Goto(s, "advance")
  /\ UNCHANGED <<core, mine, begun, ousem, lock, tx, buffer, dmaVars, accepted>>

(* mutant: the suspended DMA is not resumed                                *)
AdvanceOnly(s) ==
  /\ at[s] = "advance" /\ Runs(s)
  /\ tx' = Succ(tx)
  /\ lock' = FALSE
  /\ Goto(s, "ok")
  /\ UNCHANGED <<core, mine, begun, ousem, slot, buffer, queued, dmaVars, accepted>>

(* mutant: TxDesc moves on by two                                          *)
AdvanceTwice(s) ==
  /\ at[s] = "advance" /\ Runs(s)
  /\ tx' = Succ(Succ(tx))
  /\ tbus' = FALSE
  /\ lock' = FALSE
  /\ Goto(s, "ok")
  /\ UNCHANGED <<core, mine, begun, ousem, slot, buffer, queued, dma, wire, spoilt, accepted>>

(* TxDesc moves on, a suspended DMA is resumed, the handle unlocked.       *)
Advance(s) ==
  /\ at[s] = "advance" /\ Runs(s)
  /\ tx' = Succ(tx)
  /\ tbus' = FALSE
  /\ lock' = FALSE
  /\ Goto(s, "ok")
  /\ UNCHANGED <<core, mine, begun, ousem, slot, buffer, queued, dma, wire, spoilt, accepted>>

(* mutant: no signal on the way out                                        *)
LeaveSilently(s) ==
  /\ at[s] \in {"ok", "use"} /\ Runs(s)
  /\ accepted' = IF at[s] = "ok" THEN accepted \cup {Frame(s)} ELSE accepted
  /\ core' = IF core = s THEN Nobody ELSE core
  /\ Goto(s, "out")
  /\ UNCHANGED <<mine, begun, ousem, lock, ringVars, dmaVars>>

(* mutant: a counting semaphore, given twice                               *)
LeaveCounting(s) ==
  /\ at[s] \in {"ok", "use"} /\ Runs(s)
  /\ ousem' = ousem + 1
  /\ accepted' = IF at[s] = "ok" THEN accepted \cup {Frame(s)} ELSE accepted
  /\ core' = IF core = s THEN Nobody ELSE core
  /\ Goto(s, "out")
  /\ UNCHANGED <<mine, begun, lock, ringVars, dmaVars>>

(* The label error: the semaphore is signalled, waited for or not (its     *)
(* count stays at most 1), and the caller gives up the core lock.          *)
Leave(s) ==
  /\ at[s] \in {"ok", "use"} /\ Runs(s)
  /\ ousem' = 1
  /\ accepted' = IF at[s] = "ok" THEN accepted \cup {Frame(s)} ELSE accepted
  /\ core' = IF core = s THEN Nobody ELSE core
  /\ Goto(s, "out")
  /\ UNCHANGED <<mine, begun, lock, ringVars, dmaVars>>

-----------------------------------------------------------------------------
(* The DMA sends the next frame and gives the descriptor back, or finds no *)
(* frame and suspends itself.                                              *)
DmaSend ==
  /\ ~tbus
  /\ slot[dma] # None
  /\ wire' = Append(wire, slot[dma])
  /\ spoilt' = IF buffer[dma] = slot[dma] THEN spoilt ELSE spoilt \cup {slot[dma]}
  /\ slot' = [slot EXCEPT ![dma] = None]
  /\ dma' = Succ(dma)
  /\ UNCHANGED <<taskVars, ousem, lock, tx, buffer, queued, tbus, accepted>>

DmaSuspend ==
  /\ ~tbus
  /\ slot[dma] = None
  /\ tbus' = TRUE
  /\ UNCHANGED <<taskVars, ousem, lock, ringVars, dma, wire, spoilt, accepted>>

(* HAL_ETH_IRQHandler unlocks the handle for a frame received, at any      *)
(* time.  (HAL_ETH_GetReceivedFrame leaves a locked handle alone and locks *)
(* a free one only within a critical section of ETHIN.)                    *)
IsrUnlock ==
  /\ lock
  /\ lock' = FALSE
  /\ UNCHANGED <<taskVars, ousem, ringVars, dmaVars, accepted>>

-----------------------------------------------------------------------------
Inside(s) ==
  \/ NewSem(s) \/ FirstGive(s) \/ ReadDesc(s) \/ Wait(s) \/ Copy(s)
  \/ Hand(s) \/ SetOwn(s) \/ Advance(s) \/ Leave(s)

Dma == DmaSend \/ DmaSuspend

Next ==
  \/ \E s \in Senders : Enter(s) \/ Inside(s)
  \/ Dma
  \/ IsrUnlock

Spec == Init /\ [][Next]_vars

-----------------------------------------------------------------------------
(* ERR_OK means that the frame was handed to the DMA: the HAL never        *)
(* refuses HAL_ETH_TransmitFrame the lock nor the descriptor, although the *)
(* interrupt unlocks the handle, and tasks that did not wait for the       *)
(* semaphore signal it (low_level_output).                                 *)
AcceptedIsQueued == \A f \in accepted : \E i \in DOMAIN queued : queued[i] = f

(* Frames leave in the order they were accepted in, each once: the ring    *)
(* of descriptors is a pipe (HAL_ETH_TransmitFrame, low_level_output).     *)
Out == INSTANCE CommandPipe WITH Segments <- Frames, sent <- queued, taken <- wire
ImplementsPipe == Out!Spec

(* Only the first answer of the TCP/IP thread can leave with bytes that    *)
(* are not its own: after AppTaskCreate's frame the core lock orders the   *)
(* callers, and the check before the wait keeps a frame off a buffer that  *)
(* is still with the DMA (low_level_output, line 229 against line 244).    *)
SpoiltOnlyAtStart == spoilt \subseteq {<<Stack, 1>>}

(* Every frame handed to the DMA leaves: the DMA is never left suspended   *)
(* over a frame (OWN is set before TBUS is looked at).                     *)
FramesLeave == \A f \in Frames :
  (\E d \in Slots : slot[d] = f) ~> (\E i \in DOMAIN wire : wire[i] = f)

(* Whoever enters low_level_output returns: the semaphore is never lost,   *)
(* although it may be given twice.                                         *)
SendersReturn == \A s \in Senders : at[s] # "out" ~> at[s] = "out"

(* "This function should do the actual transmission of the packet"         *)
(* (ethernetif.c:203), and ERR_OK is returned "if the packet could be      *)
(* sent" (ethernetif.c:209): what leaves is the packet passed.             *)
PacketIsSent == spoilt = {}
=============================================================================
