------------------------------ MODULE EthInput ------------------------------
(***************************************************************************)
(* Reception: the Ethernet DMA fills a ring of descriptors and raises its  *)
(* interrupt, the handler gives the counting semaphore s_xSemaphore, and   *)
(* the task ETHIN (ethernetif_input) copies every frame it finds into a    *)
(* pbuf and posts it to the mailbox of the TCP/IP thread.                  *)
(*                                                                         *)
(* One token may stand for several frames and several tokens for none:     *)
(* ETHIN polls the ring until low_level_input returns NULL, which it also  *)
(* does when the HAL handle is locked or no pbuf is left.                  *)
(*                                                                         *)
(* The DMA runs at any time.  The handler runs unless a critical section   *)
(* masks it.  A frame fits one descriptor (ETH_RX_BUF_SIZE is 1524), so    *)
(* the multi-segment branches of HAL_ETH_GetReceivedFrame do not occur.    *)
(***************************************************************************)
EXTENDS Integers, Sequences, FiniteSets

CONSTANTS
  RingSize,   (* ETH_RXBUFNB, 8 on the target                              *)
  PoolSize,   (* PBUF_POOL_SIZE, 20 on the target                          *)
  MboxSize,   (* TCPIP_MBOX_SIZE and MEMP_NUM_TCPIP_MSG_INPKT, both 8      *)
  MaxTokens,  (* the maximum count of s_xSemaphore, 40 on the target       *)
  MaxFrames   (* bound: how many frames come from the wire                 *)

ASSUME EthAssumption ==
  /\ RingSize \in Nat \ {0}
  /\ PoolSize \in Nat \ {0}
  /\ MboxSize \in Nat \ {0}
  /\ MaxTokens \in Nat \ {0}
  /\ MaxFrames \in Nat

VARIABLES
  arrived,  (* how many frames have come from the wire                     *)
  ring,     (* the frame in each descriptor; Own while the DMA owns it     *)
  dma,      (* the descriptor the DMA fills next                           *)
  rx,       (* heth.RxDesc, the descriptor ETHIN reads next                *)
  flagR,    (* ETH_DMA_FLAG_R, the pending receive interrupt               *)
  isr,      (* the handler is between the give and the clear               *)
  tokens,   (* the count of s_xSemaphore                                   *)
  lock,     (* heth.Lock                                                   *)
  tx,       (* a transmitter is inside HAL_ETH_TransmitFrame               *)
  ethin,    (* where ETHIN is                                              *)
  frame,    (* the frame in the pbuf ETHIN holds                           *)
  mbox,     (* frames posted to the TCP/IP thread                          *)
  held,     (* frames whose pbufs the stack or the application keeps       *)
  pool,     (* free pbufs of PBUF_POOL                                     *)
  posted,   (* history: the frames posted so far                           *)
  cut       (* history: why ETHIN's last poll of the ring ended            *)

dmaVars == <<arrived, ring, dma>>
taskVars == <<ethin, frame, rx, cut>>
stackVars == <<mbox, held, posted>>
vars == <<dmaVars, flagR, isr, tokens, lock, tx, taskVars, pool, stackVars>>

Own == 0
Slots == 0 .. RingSize - 1
Frames == 1 .. MaxFrames
Succ(d) == (d + 1) % RingSize

EthinSteps ==
  {"wait",   \* blocked on the semaphore
   "get",    \* in a critical section, about to call low_level_input
   "input"}  \* a pbuf in hand, about to post it

TypeOK ==
  /\ arrived \in 0 .. MaxFrames
  /\ ring \in [Slots -> Frames \cup {Own}]
  /\ dma \in Slots
  /\ rx \in Slots
  /\ flagR \in BOOLEAN
  /\ isr \in BOOLEAN
  /\ tokens \in 0 .. MaxTokens
  /\ lock \in BOOLEAN
  /\ tx \in BOOLEAN
  /\ ethin \in EthinSteps
  /\ frame \in Frames \cup {Own}
  /\ mbox \in Seq(Frames)
  /\ held \in SUBSET Frames
  /\ pool \in 0 .. PoolSize
  /\ posted \in Seq(Frames)
  /\ cut \in {"empty", "busy", "nopbuf", "full"}

Init ==
  /\ arrived = 0
  /\ ring = [d \in Slots |-> Own]
  /\ dma = 0
  /\ rx = 0
  /\ flagR = FALSE
  /\ isr = FALSE
  /\ tokens = 0
  /\ lock = FALSE
  /\ tx = FALSE
  /\ ethin = "wait"
  /\ frame = Own
  /\ mbox = <<>>
  /\ held = {}
  /\ pool = PoolSize
  /\ posted = <<>>
  /\ cut = "empty"

Critical == ethin = "get"

-----------------------------------------------------------------------------
(* The DMA: a frame goes into the next descriptor if the DMA owns it, and  *)
(* the receive flag is raised.  If not, the frame is lost, and no receive  *)
(* interrupt is raised for it.                                             *)
Arrive ==
  /\ arrived < MaxFrames
  /\ arrived' = arrived + 1
  /\ IF ring[dma] = Own
       THEN /\ ring' = [ring EXCEPT ![dma] = arrived + 1]
            /\ dma' = Succ(dma)
            /\ flagR' = TRUE
       ELSE UNCHANGED <<ring, dma, flagR>>
  /\ UNCHANGED <<isr, tokens, lock, tx, taskVars, pool, stackVars>>

(* HAL_ETH_IRQHandler finds the receive flag: its callback gives a token.  *)
IsrGive ==
  /\ flagR
  /\ ~isr
  /\ ~Critical
  /\ tokens' = IF tokens < MaxTokens THEN tokens + 1 ELSE tokens
  /\ isr' = TRUE
  /\ UNCHANGED <<dmaVars, flagR, lock, tx, taskVars, pool, stackVars>>

(* Then it clears the flag and unlocks the handle, whoever locked it.      *)
IsrClear ==
  /\ isr
  /\ flagR' = FALSE
  /\ lock' = FALSE
  /\ isr' = FALSE
  /\ UNCHANGED <<dmaVars, tokens, tx, taskVars, pool, stackVars>>

-----------------------------------------------------------------------------
(* A transmitter enters HAL_ETH_TransmitFrame, and leaves it (EthOutput).  *)
TxBegin ==
  /\ ~isr /\ ~Critical
  /\ ~tx /\ ~lock
  /\ lock' = TRUE
  /\ tx' = TRUE
  /\ UNCHANGED <<dmaVars, flagR, isr, tokens, taskVars, pool, stackVars>>

TxEnd ==
  /\ ~isr /\ ~Critical
  /\ tx
  /\ lock' = FALSE
  /\ tx' = FALSE
  /\ UNCHANGED <<dmaVars, flagR, isr, tokens, taskVars, pool, stackVars>>

-----------------------------------------------------------------------------
(* ETHIN takes a token and enters its critical section.                    *)
TakeToken ==
  /\ ~isr
  /\ ethin = "wait"
  /\ tokens > 0
  /\ tokens' = tokens - 1
  /\ ethin' = "get"
  /\ UNCHANGED <<dmaVars, flagR, isr, lock, tx, frame, rx, cut, pool, stackVars>>

(* low_level_input returns NULL: HAL_ETH_GetReceivedFrame was refused the  *)
(* lock, or found the descriptor still with the DMA.                       *)
GetNothing ==
  /\ ethin = "get"
  /\ lock \/ ring[rx] = Own
  /\ cut' = IF lock THEN "busy" ELSE "empty"
  /\ ethin' = "wait"
  /\ UNCHANGED <<dmaVars, flagR, isr, tokens, lock, tx, frame, rx, pool, stackVars>>

(* mutant: the descriptor is not given back to the DMA                     *)
GetFrameKeeps ==
  /\ ethin = "get"
  /\ ~lock /\ ring[rx] # Own
  /\ rx' = Succ(rx)
  /\ IF pool > 0
       THEN /\ pool' = pool - 1
            /\ frame' = ring[rx]
            /\ ethin' = "input"
            /\ UNCHANGED cut
       ELSE /\ ethin' = "wait"
            /\ cut' = "nopbuf"
            /\ UNCHANGED <<pool, frame>>
  /\ UNCHANGED <<dmaVars, flagR, isr, tokens, lock, tx, stackVars>>

(* mutant: RxDesc stays where it is                                        *)
GetFrameNoAdvance ==
  /\ ethin = "get"
  /\ ~lock /\ ring[rx] # Own
  /\ ring' = [ring EXCEPT ![rx] = Own]
  /\ IF pool > 0
       THEN /\ pool' = pool - 1
            /\ frame' = ring[rx]
            /\ ethin' = "input"
            /\ UNCHANGED cut
       ELSE /\ ethin' = "wait"
            /\ cut' = "nopbuf"
            /\ UNCHANGED <<pool, frame>>
  /\ UNCHANGED <<arrived, dma, rx, flagR, isr, tokens, lock, tx, stackVars>>

(* It finds a frame: the descriptor goes back to the DMA, with the frame   *)
(* copied into a pbuf, or lost if there is none.                           *)
GetFrame ==
  /\ ethin = "get"
  /\ ~lock /\ ring[rx] # Own
  /\ ring' = [ring EXCEPT ![rx] = Own]
  /\ rx' = Succ(rx)
  /\ IF pool > 0
       THEN /\ pool' = pool - 1
            /\ frame' = ring[rx]
            /\ ethin' = "input"
            /\ UNCHANGED cut
       ELSE /\ ethin' = "wait"
            /\ cut' = "nopbuf"
            /\ UNCHANGED <<pool, frame>>
  /\ UNCHANGED <<arrived, dma, flagR, isr, tokens, lock, tx, stackVars>>

(* mutant: one frame for each token, no jump back                          *)
InputOnce ==
  /\ ~isr
  /\ ethin = "input"
  /\ Len(mbox) < MboxSize
  /\ mbox' = Append(mbox, frame)
  /\ posted' = Append(posted, frame)
  /\ ethin' = "wait"
  /\ cut' = "empty"
  /\ frame' = Own
  /\ UNCHANGED <<dmaVars, flagR, isr, tokens, lock, tx, rx, pool, held>>

(* tcpip_input takes the pbuf: a token is taken if there is one, and in    *)
(* the same critical section the ring is polled again.                     *)
Input ==
  /\ ~isr
  /\ ethin = "input"
  /\ Len(mbox) < MboxSize
  /\ mbox' = Append(mbox, frame)
  /\ posted' = Append(posted, frame)
  /\ tokens' = IF tokens > 0 THEN tokens - 1 ELSE 0
  /\ ethin' = "get"
  /\ frame' = Own
  /\ UNCHANGED <<dmaVars, flagR, isr, lock, tx, rx, cut, pool, held>>

(* mutant: the refused pbuf is not freed                                   *)
InputRefusedLeaks ==
  /\ ~isr
  /\ ethin = "input"
  /\ Len(mbox) = MboxSize
  /\ ethin' = "wait"
  /\ cut' = "full"
  /\ frame' = Own
  /\ UNCHANGED <<dmaVars, flagR, isr, tokens, lock, tx, rx, pool, stackVars>>

(* mutant: pbuf_free for a pbuf that the stack has freed already           *)
InputRefusedFreesTwice ==
  /\ ~isr
  /\ ethin = "input"
  /\ Len(mbox) = MboxSize
  /\ pool' = pool + 2
  /\ ethin' = "wait"
  /\ cut' = "full"
  /\ frame' = Own
  /\ UNCHANGED <<dmaVars, flagR, isr, tokens, lock, tx, rx, stackVars>>

(* tcpip_input has no message or no room: the pbuf is freed.               *)
InputRefused ==
  /\ ~isr
  /\ ethin = "input"
  /\ Len(mbox) = MboxSize
  /\ pool' = pool + 1
  /\ ethin' = "wait"
  /\ cut' = "full"
  /\ frame' = Own
  /\ UNCHANGED <<dmaVars, flagR, isr, tokens, lock, tx, rx, stackVars>>

-----------------------------------------------------------------------------
(* The TCP/IP thread takes a frame, and its pbuf is freed sooner or later, *)
(* in any order (segments wait in the receive mailbox of HostLink).        *)
StackTake ==
  /\ ~isr /\ ~Critical
  /\ mbox # <<>>
  /\ held' = held \cup {Head(mbox)}
  /\ mbox' = Tail(mbox)
  /\ UNCHANGED <<dmaVars, flagR, isr, tokens, lock, tx, taskVars, pool, posted>>

StackFree(f) ==
  /\ ~isr /\ ~Critical
  /\ f \in held
  /\ held' = held \ {f}
  /\ pool' = pool + 1
  /\ UNCHANGED <<dmaVars, flagR, isr, tokens, lock, tx, taskVars, mbox, posted>>

-----------------------------------------------------------------------------
Isr == IsrGive \/ IsrClear
Ethin == TakeToken \/ GetNothing \/ GetFrame \/ Input \/ InputRefused
Transmitter == TxBegin \/ TxEnd
Stack == StackTake \/ \E f \in Frames : StackFree(f)

Next == Arrive \/ Isr \/ Ethin \/ Transmitter \/ Stack

Spec == Init /\ [][Next]_vars

(* Fairness.  A pending interrupt is served although critical sections     *)
(* mask it now and then (strong), and ETHIN (priority 3) runs once it is   *)
(* ready: client and clientrecv block, the TCP/IP thread shares its        *)
(* priority under time slicing, and there are no more interrupts than      *)
(* frames to keep it from running (weak).                                  *)
FairSpec == Spec /\ SF_vars(Isr) /\ WF_vars(Ethin)

-----------------------------------------------------------------------------
(* The descriptors with the CPU are those from RxDesc up to the one the    *)
(* DMA fills next, oldest frame first: neither side overtakes the other    *)
(* (low_level_input, HAL_ETH_GetReceivedFrame, the DMA).  What has been    *)
(* posted is older still, and in order: no frame reaches the stack twice   *)
(* or after a later one, however tokens and frames are matched             *)
(* (ethernetif_input).                                                     *)
Unread == Cardinality({d \in Slots : ring[d] # Own})
Place(k) == (rx + k) % RingSize
RingInOrder ==
  /\ \A k \in 0 .. Unread - 1 : ring[Place(k)] # Own
  /\ \A k \in 1 .. Unread - 1 : ring[Place(k - 1)] < ring[Place(k)]
  /\ Unread < RingSize => dma = Place(Unread)
  /\ Unread = RingSize => dma = rx
PostedInOrder ==
  /\ \A i, j \in DOMAIN posted : i < j => posted[i] < posted[j]
  /\ posted # <<>> => \A d \in Slots : ring[d] # Own => posted[Len(posted)] < ring[d]
FramesInOrder == RingInOrder /\ PostedInOrder

(* Every pbuf of the pool is free, in ETHIN's hands, in the mailbox or     *)
(* kept by the stack: no path of ethernetif_input leaks or frees twice.    *)
PbufsConserved ==
  pool + Len(mbox) + Cardinality(held) + (IF ethin = "input" THEN 1 ELSE 0) = PoolSize

(* Nothing will make ETHIN look at the ring until another frame arrives.   *)
Quiet == ethin = "wait" /\ tokens = 0 /\ ~flagR /\ ~isr

(* A frame stays in the ring while ETHIN sleeps only if the last poll did  *)
(* not end on an empty ring: one token for several frames, a token given   *)
(* before its frame's flag is cleared, tokens taken for frames already     *)
(* read, none of these leaves a frame behind (ethernetif_input against     *)
(* HAL_ETH_IRQHandler).                                                    *)
NoFrameForgotten == Quiet /\ Unread > 0 => cut # "empty"

(* Reception can stop for good (a full ring raises no interrupt) only by a *)
(* poll that was refused the HAL lock: running out of pbufs or of mailbox  *)
(* places always gives a descriptor back first (low_level_input).          *)
DeafOnlyWhenBusy == Quiet /\ Unread = RingSize => cut = "busy"

(* Every frame in the ring is taken from it, unless a poll was cut short   *)
(* (ETH_IRQHandler, ethernetif_input).                                     *)
RingDrained == Unread > 0 ~> (Unread = 0 \/ cut # "empty")

(* "When Rx Buffer unavailable flag is set: clear it and resume reception" *)
(* (ethernetif.c:386): reception never stops for good.                     *)
ReceptionResumes == ~(Quiet /\ Unread = RingSize)
=============================================================================
