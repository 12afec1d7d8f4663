-------------------------- MODULE EthOutputProofs --------------------------
(***************************************************************************)
(* Proofs about EthOutput, for every set of clients, every size of the     *)
(* ring and every number of frames.  What low_level_output returns ERR_OK  *)
(* for has been handed to the DMA; frames leave in that order; and only    *)
(* one frame can leave with other bytes.                                   *)
(*                                                                         *)
(* HAL_ETH_TransmitFrame refuses nobody because the descriptor of a sender *)
(* that has looked at it stays with the CPU (Fresh) and whoever holds the  *)
(* HAL lock is the only one inside (Locker).  The core lock gives that     *)
(* among the TCP/IP thread and the clients (CoreHeld); AppTaskCreate has   *)
(* no core lock, and it is the order of things that keeps it apart: while  *)
(* it is on its way to the DMA nobody else has anything to send            *)
(* (BootAlone), and when somebody has, its frame has left, the ring is     *)
(* empty, and it still has the semaphore (BootOverlaps).                   *)
(***************************************************************************)
EXTENDS EthOutput, TLAPS

Others == Senders \ {Boot}
Queued(f) == \E i \in DOMAIN queued : queued[i] = f
AllSent == \A d \in Slots : slot[d] = None

Counted ==
  /\ \A s \in Senders : at[s] # "out" => begun[s] >= 1
  /\ begun[Boot] <= 1
  /\ at[Boot] # "use"
  /\ \A s \in Others : at[s] # "give1"
  /\ BootDone => ousem # Null
CoreHeld == \A s \in Others : at[s] # "out" => core = s
BootAlone ==
  begun[Boot] = 0 \/ at[Boot] \in {"enter", "give1", "read", "wait", "copy", "hand", "own"} =>
    /\ \A s \in Others : at[s] = "out"
    /\ AllSent /\ wire = <<>>
    /\ at[Boot] \in {"copy", "hand", "own"} => ousem = 0
BootOverlaps ==
  at[Boot] \in {"advance", "ok"} =>
    /\ ousem = 0
    /\ \A s \in Others : at[s] \in {"out", "enter", "read", "wait"}
    /\ wire # <<>> \/ (\E s \in Others : at[s] # "out") => AllSent
    /\ \A d, e \in Slots : slot[d] # None /\ slot[e] # None => d = e
Fresh == \A s \in Senders : at[s] \in {"wait", "copy", "hand", "own"} => slot[tx] = None
Locker == lock => \E s \in Senders : at[s] \in {"own", "advance"}
Sent == \A s \in Senders : at[s] \in {"advance", "ok"} => Queued(Frame(s))

Order == Counted /\ CoreHeld /\ BootAlone /\ BootOverlaps /\ Fresh /\ Locker
Inv == TypeOK /\ Order /\ Sent /\ AcceptedIsQueued

-----------------------------------------------------------------------------
LEMMA SuccInRing == ASSUME NEW d \in Slots PROVE Succ(d) \in Slots
  BY EthOutputAssumption DEF Succ, Slots

(* A task inside has a frame of its own in hand.                           *)
LEMMA FrameInHand ==
  ASSUME TypeOK, Counted, NEW s \in Senders, at[s] # "out"
  PROVE  Frame(s) \in Frames
<1>1. begun[s] \in 1 .. MaxFrames + 1
  BY EthOutputAssumption DEF TypeOK, Counted
<1>2. QED
  BY <1>1 DEF Frame, Frames

(* Nothing is inside and nothing handed over at first.                     *)
LEMMA InitInv == Init => Inv
<1> SUFFICES ASSUME Init
             PROVE  Inv
  OBVIOUS
<1>1. TypeOK
  BY EthOutputAssumption DEF Init, TypeOK, Senders, Slots, Steps
<1>2. Order
  BY DEF Init, Order, Counted, CoreHeld, BootAlone, BootOverlaps, Fresh, Locker,
         BootDone, AllSent, Senders, Others
<1>3. Sent /\ AcceptedIsQueued
  BY DEF Init, Sent, AcceptedIsQueued
<1>4. QED
  BY <1>1, <1>2, <1>3 DEF Inv

(* Every action keeps its variables in range.                              *)
LEMMA NextType == TypeOK /\ Counted /\ [Next]_vars => TypeOK'
<1> SUFFICES ASSUME TypeOK, Counted, [Next]_vars
             PROVE  TypeOK'
  OBVIOUS
<1> USE EthOutputAssumption
<1> USE DEF TypeOK, Goto, Steps, dmaVars, ringVars, taskVars
<1>1. ASSUME NEW s \in Senders, Enter(s)
      PROVE  TypeOK'
  <2>1. begun[s] + 1 \in 0 .. MaxFrames + 1
    BY <1>1 DEF Enter
  <2>2. QED
    BY <1>1, <2>1 DEF Enter
<1>2. ASSUME NEW s \in Senders, NewSem(s) \/ FirstGive(s) \/ ReadDesc(s) \/ Wait(s)
      PROVE  TypeOK'
  <2>1. CASE NewSem(s)
    BY <2>1 DEF NewSem
  <2>2. CASE FirstGive(s)
    BY <2>2 DEF FirstGive
  <2>3. CASE ReadDesc(s)
    BY <2>3 DEF ReadDesc
  <2>4. CASE Wait(s)
    BY <2>4 DEF Wait
  <2>5. QED
    BY <1>2, <2>1, <2>2, <2>3, <2>4
<1>3. ASSUME NEW s \in Senders, Copy(s)
      PROVE  TypeOK'
  <2>1. Frame(s) \in Frames
    BY <1>3, FrameInHand DEF Copy
  <2>2. QED
    BY <1>3, <2>1 DEF Copy
<1>4. ASSUME NEW s \in Senders, Hand(s)
      PROVE  TypeOK'
  BY <1>4 DEF Hand
<1>5. ASSUME NEW s \in Senders, SetOwn(s)
      PROVE  TypeOK'
  <2>1. Frame(s) \in Frames
    BY <1>5, FrameInHand DEF SetOwn
  <2>2. QED
    BY <1>5, <2>1 DEF SetOwn
<1>6. ASSUME NEW s \in Senders, Advance(s)
      PROVE  TypeOK'
  BY <1>6, SuccInRing DEF Advance
<1>7. ASSUME NEW s \in Senders, Leave(s)
      PROVE  TypeOK'
  <2>1. Frame(s) \in Frames
    BY <1>7, FrameInHand DEF Leave
  <2>2. QED
    BY <1>7, <2>1 DEF Leave
<1>8. CASE DmaSend
  <2>1. slot[dma] \in Frames
    BY <1>8 DEF DmaSend
  <2>2. QED
    BY <1>8, <2>1, SuccInRing DEF DmaSend
<1>9. CASE DmaSuspend
  BY <1>9 DEF DmaSuspend
<1>10. CASE IsrUnlock
  BY <1>10 DEF IsrUnlock
<1>11. CASE UNCHANGED vars
  BY <1>11 DEF vars
<1>12. QED
  BY <1>1, <1>2, <1>3, <1>4, <1>5, <1>6, <1>7, <1>8, <1>9, <1>10, <1>11
     DEF Next, Inside, Dma

(* Whoever is inside besides AppTaskCreate is there after it or while it   *)
(* is past OWN.                                                            *)
LEMMA OthersComeLater ==
  ASSUME TypeOK, Order, NEW s \in Others, at[s] # "out"
  PROVE  BootDone \/ at[Boot] \in {"advance", "ok"}
BY DEF TypeOK, Order, Counted, BootAlone, BootDone, Steps, Senders

LEMMA NextOrder == TypeOK /\ TypeOK' /\ Order /\ [Next]_vars => Order'
<1> SUFFICES ASSUME TypeOK, TypeOK', Order, [Next]_vars
             PROVE  Order'
  OBVIOUS
<1> USE EthOutputAssumption
<1> USE DEF TypeOK, Order, Counted, CoreHeld, BootAlone, BootOverlaps, Fresh, Locker,
            BootDone, AllSent, Others, Senders, Goto, Steps, dmaVars, ringVars, taskVars,
            Null, None
<1>1. ASSUME NEW s \in Senders, Enter(s)
      PROVE  Order'
  BY <1>1 DEF Enter
<1>2. ASSUME NEW s \in Senders, NewSem(s)
      PROVE  Order'
  BY <1>2, OthersComeLater DEF NewSem
<1>3. ASSUME NEW s \in Senders, FirstGive(s)
      PROVE  Order'
  BY <1>3 DEF FirstGive
<1>4. ASSUME NEW s \in Senders, ReadDesc(s)
      PROVE  Order'
  BY <1>4, OthersComeLater DEF ReadDesc
<1>5. ASSUME NEW s \in Senders, Wait(s)
      PROVE  Order'
  BY <1>5, OthersComeLater DEF Wait
<1>6. ASSUME NEW s \in Senders, Copy(s)
      PROVE  Order'
  BY <1>6, OthersComeLater DEF Copy
<1>7. ASSUME NEW s \in Senders, Hand(s)
      PROVE  Order'
  BY <1>7, OthersComeLater DEF Hand
<1>8. ASSUME NEW s \in Senders, SetOwn(s)
      PROVE  Order'
  <2>1. CASE s = Boot
    <3>1. /\ \A t \in Others : at[t] = "out"
          /\ AllSent /\ wire = <<>> /\ ousem = 0
      BY <1>8, <2>1 DEF SetOwn
    <3>2. QED
      BY <1>8, <2>1, <3>1 DEF SetOwn
  <2>2. CASE s # Boot
    <3>1. BootDone /\ \A t \in Others \ {s} : at[t] = "out"
      BY <1>8, <2>2, OthersComeLater DEF SetOwn
    <3>2. QED
      BY <1>8, <2>2, <3>1 DEF SetOwn
  <2>3. QED
    BY <2>1, <2>2
<1>9. ASSUME NEW s \in Senders, Advance(s)
      PROVE  Order'
  BY <1>9, OthersComeLater, SuccInRing DEF Advance
<1>10. ASSUME NEW s \in Senders, Leave(s)
      PROVE  Order'
  <2>1. CASE s = Boot
    BY <1>10, <2>1 DEF Leave
  <2>2. CASE s # Boot
    <3>1. BootDone /\ \A t \in Others \ {s} : at[t] = "out"
      BY <1>10, <2>2, OthersComeLater DEF Leave
    <3>2. QED
      BY <1>10, <2>2, <3>1 DEF Leave
  <2>3. QED
    BY <2>1, <2>2
<1>11. CASE DmaSend
  BY <1>11, SuccInRing DEF DmaSend
<1>12. CASE DmaSuspend
  BY <1>12 DEF DmaSuspend
<1>13. CASE IsrUnlock
  BY <1>13 DEF IsrUnlock
<1>14. CASE UNCHANGED vars
  BY <1>14 DEF vars
<1>15. QED
  BY <1>1, <1>2, <1>3, <1>4, <1>5, <1>6, <1>7, <1>8, <1>9, <1>10, <1>11, <1>12, <1>13, <1>14
     DEF Next, Inside, Dma

(* What has been handed over stays so.                                     *)
LEMMA QueuedStays ==
  ASSUME TypeOK, NEW s \in Senders, [Next]_vars, NEW f, Queued(f)
  PROVE  Queued(f)'
<1>1. queued' = queued \/ \E g : queued' = Append(queued, g)
  BY DEF Next, Inside, Dma, vars, taskVars, ringVars, dmaVars, Enter, NewSem, FirstGive,
         ReadDesc, Wait, Copy, Hand, SetOwn, Advance, Leave, DmaSend, DmaSuspend, IsrUnlock
<1>2. queued \in Seq(Frames)
  BY DEF TypeOK
<1>3. QED
  BY <1>1, <1>2 DEF Queued

(* Nobody is refused by HAL_ETH_TransmitFrame: the way to ERR_OK leads     *)
(* through SetOwn.                                                         *)
LEMMA NextSent ==
  TypeOK /\ TypeOK' /\ Order /\ Sent /\ AcceptedIsQueued /\ [Next]_vars
    => Sent' /\ AcceptedIsQueued'
<1> SUFFICES ASSUME TypeOK, TypeOK', Order, Sent, AcceptedIsQueued, [Next]_vars
             PROVE  Sent' /\ AcceptedIsQueued'
  OBVIOUS
<1>a. \A f : Queued(f) => Queued(f)'
  BY QueuedStays DEF Senders
<1>b. AcceptedIsQueued <=> \A f \in accepted : Queued(f)
  BY DEF AcceptedIsQueued, Queued
<1>c. AcceptedIsQueued' <=> \A f \in accepted' : Queued(f)'
  BY DEF AcceptedIsQueued, Queued
<1> HIDE DEF Queued
<1> USE DEF TypeOK, Sent, Frame, Goto, dmaVars, ringVars, taskVars
<1>1. ASSUME NEW s \in Senders,
             Enter(s) \/ NewSem(s) \/ FirstGive(s) \/ ReadDesc(s) \/ Wait(s) \/ Copy(s)
      PROVE  Sent' /\ AcceptedIsQueued'
  BY <1>1, <1>a, <1>b, <1>c DEF Enter, NewSem, FirstGive, ReadDesc, Wait, Copy, AcceptedIsQueued
<1>2. ASSUME NEW s \in Senders, Hand(s)
      PROVE  Sent' /\ AcceptedIsQueued'
  <2>1. slot[tx] = None
    BY <1>2 DEF Hand, Order, Fresh
  <2>2. ~lock
    BY <1>2, OthersComeLater
       DEF Hand, Order, Locker, CoreHeld, BootAlone, BootOverlaps, BootDone, Others, Senders
  <2>3. QED
    BY <1>2, <1>a, <1>b, <1>c, <2>1, <2>2 DEF Hand
<1>3. ASSUME NEW s \in Senders, SetOwn(s)
      PROVE  Sent' /\ AcceptedIsQueued'
  <2>1. Queued(Frame(s))'
    <3>1. queued' = Append(queued, Frame(s)) /\ Frame(s)' = Frame(s)
      BY <1>3 DEF SetOwn
    <3>2. Len(queued) + 1 \in DOMAIN queued' /\ queued'[Len(queued) + 1] = Frame(s)
      BY <3>1
    <3>3. QED
      BY <3>1, <3>2 DEF Queued
  <2>2. QED
    BY <1>3, <1>a, <1>b, <1>c, <2>1 DEF SetOwn
<1>4. ASSUME NEW s \in Senders, Advance(s)
      PROVE  Sent' /\ AcceptedIsQueued'
  BY <1>4, <1>a, <1>b, <1>c DEF Advance
<1>5. ASSUME NEW s \in Senders, Leave(s)
      PROVE  Sent' /\ AcceptedIsQueued'
  BY <1>5, <1>a, <1>b, <1>c DEF Leave
<1>6. CASE DmaSend \/ DmaSuspend \/ IsrUnlock
  BY <1>6, <1>a, <1>b, <1>c DEF DmaSend, DmaSuspend, IsrUnlock
<1>7. CASE UNCHANGED vars
  BY <1>7, <1>a, <1>b, <1>c DEF vars
<1>8. QED
  BY <1>1, <1>2, <1>3, <1>4, <1>5, <1>6, <1>7 DEF Next, Inside, Dma

-----------------------------------------------------------------------------
(* The inductive invariant holds in every reachable state.                 *)
THEOREM Invariance == Spec => []Inv
<1>1. Inv /\ [Next]_vars => Inv'
  <2> SUFFICES ASSUME Inv, [Next]_vars
               PROVE  Inv'
    OBVIOUS
  <2>1. TypeOK'
    BY NextType DEF Inv, Order
  <2>2. Order'
    BY <2>1, NextOrder DEF Inv
  <2>3. Sent' /\ AcceptedIsQueued'
    BY <2>1, NextSent DEF Inv
  <2>4. QED
    BY <2>1, <2>2, <2>3 DEF Inv
<1>2. QED
  BY InitInv, <1>1, PTL DEF Spec

(* ERR_OK means that the frame was handed to the DMA, for every size of    *)
(* the ring and every number of clients: HAL_ETH_TransmitFrame's HAL_BUSY  *)
(* and HAL_ERROR, which low_level_output ignores, do not occur.            *)
THEOREM AcceptedAreQueued == Spec => []AcceptedIsQueued
<1>1. Inv => AcceptedIsQueued
  BY DEF Inv
<1>2. QED
  BY Invariance, <1>1, PTL

-----------------------------------------------------------------------------
(* The ring is a queue: from the DMA's descriptor on lie the frames handed *)
(* over and not yet sent, in order, and the next goes behind them.  While  *)
(* a task is about to advance TxDesc that place is the one after TxDesc.   *)
From(m, d) == IF d >= m THEN d - m ELSE d - m + RingSize
InRing == Len(queued) - Len(wire)
Free == IF \E s \in Senders : at[s] = "advance" THEN Succ(tx) ELSE tx

Line ==
  /\ InRing \in 0 .. RingSize
  /\ \A d \in Slots : slot[d] # None <=> From(dma, d) < InRing
  /\ \A d \in Slots : slot[d] # None => slot[d] = queued[Len(wire) + From(dma, d) + 1]
  /\ IF InRing = RingSize THEN Free = dma ELSE From(dma, Free) = InRing

LEMMA SuccWraps ==
  ASSUME NEW d \in Slots
  PROVE  Succ(d) = IF d = RingSize - 1 THEN 0 ELSE d + 1
  BY EthOutputAssumption DEF Succ, Slots

LEMMA InitLine == Init => Line
<1> SUFFICES ASSUME Init
             PROVE  Line
  OBVIOUS
<1>1. InRing = 0 /\ Free = 0 /\ \A d \in Slots : From(dma, d) = d /\ From(dma, d) >= 0
  BY EthOutputAssumption DEF Init, InRing, Free, From, Slots
<1>2. 0 \in Slots /\ RingSize # 0
  BY EthOutputAssumption DEF Slots
<1>3. /\ InRing \in 0 .. RingSize /\ InRing # RingSize
      /\ \A d \in Slots : slot[d] = None /\ ~(From(dma, d) < InRing)
      /\ From(dma, Free) = InRing
  BY <1>1, <1>2, EthOutputAssumption DEF Init, Slots
<1>4. QED
  BY <1>3 DEF Line

(* Only one task at a time is past the HAL's look at the descriptor.       *)
LEMMA OneInside ==
  ASSUME TypeOK, Order, NEW s \in Senders, NEW t \in Senders,
         at[s] \in {"own", "advance"}, at[t] \in {"own", "advance"}
  PROVE  s = t
BY OthersComeLater DEF Order, CoreHeld, BootAlone, BootOverlaps, BootDone, Others

(* A frame is put behind those that are in the ring.                       *)
LEMMA SetOwnInLine ==
  ASSUME TypeOK, Order, Line, NEW s \in Senders, SetOwn(s)
  PROVE  Line'
<1> USE EthOutputAssumption
<1>1. /\ slot[tx] = None /\ tx \in Slots /\ dma \in Slots /\ Free = tx
      /\ \A t \in Senders : at[t] # "advance"
  BY OneInside DEF SetOwn, Order, Fresh, Free, TypeOK
<1>2. Free' = Succ(tx)
  <2>1. at'[s] = "advance" /\ tx' = tx
    BY DEF SetOwn, Goto, TypeOK
  <2>2. QED
    BY <2>1 DEF Free, Succ
<1>3. /\ UNCHANGED <<dma, wire>> /\ Frame(s) # None
      /\ slot' = [slot EXCEPT ![tx] = Frame(s)] /\ queued' = Append(queued, Frame(s))
  BY DEF SetOwn, dmaVars, Frame, None
<1>4. Frame(s) \in Frames
  BY FrameInHand DEF SetOwn, Order
<1>5. /\ Len(wire) \in Nat /\ Len(queued) \in Nat /\ queued \in Seq(Frames)
      /\ Len(queued') = Len(queued) + 1 /\ queued'[Len(queued) + 1] = Frame(s)
      /\ \A i \in 1 .. Len(queued) : queued'[i] = queued[i]
  BY <1>3, <1>4 DEF TypeOK
<1>6. \A d \in Slots : From(dma', d) = From(dma, d) /\ From(dma, d) \in Slots
  BY <1>1, <1>3 DEF From, Slots
<1>7. /\ InRing \in Nat /\ InRing' = InRing + 1 /\ From(dma, tx) = InRing /\ InRing < RingSize
      /\ Len(queued) = Len(wire) + InRing
  <2>1. From(dma, tx) >= InRing /\ InRing \in 0 .. RingSize
    <3>1. ~(From(dma, tx) < InRing) /\ InRing \in 0 .. RingSize
      BY <1>1 DEF Line
    <3>2. From(dma, tx) \in Int /\ InRing \in Int
      BY <1>1, <1>6, <3>1 DEF Slots
    <3>3. QED
      BY <3>1, <3>2
  <2>2. InRing # RingSize
    <3>1. From(dma, tx) \in 0 .. RingSize - 1
      BY <1>1, <1>6 DEF Slots
    <3>2. QED
      BY <2>1, <3>1
  <2>3. InRing' = InRing + 1 /\ Len(queued) = Len(wire) + InRing
    BY <1>3, <1>5 DEF Line, InRing
  <2>4. From(dma, tx) = InRing
    BY <1>1, <2>1, <2>2 DEF Line
  <2>5. QED
    BY <2>1, <2>2, <2>3, <2>4
<1>8. \A d \in Slots : From(dma, d) = From(dma, tx) => d = tx
  BY <1>1 DEF From, Slots
<1>9. ASSUME NEW d \in Slots
      PROVE  /\ slot'[d] # None <=> From(dma, d) < InRing + 1
             /\ slot'[d] # None => slot'[d] = queued'[Len(wire) + From(dma, d) + 1]
  <2>1. CASE d = tx
    BY <1>1, <1>3, <1>5, <1>6, <1>7, <2>1 DEF TypeOK
  <2>2. CASE d # tx
    <3>1. slot'[d] = slot[d]
      BY <1>1, <1>3, <2>2 DEF TypeOK
    <3>2. From(dma, d) # InRing /\ From(dma, d) \in Nat
      BY <1>6, <1>7, <1>8, <2>2 DEF Slots
    <3>3. slot[d] # None => Len(wire) + From(dma, d) + 1 \in 1 .. Len(queued)
      BY <1>5, <1>7, <3>1, <3>2 DEF Line
    <3>4. QED
      BY <1>5, <1>7, <3>1, <3>2, <3>3 DEF Line
  <2>3. QED
    BY <2>1, <2>2
<1>10. IF InRing + 1 = RingSize THEN Succ(tx) = dma ELSE From(dma, Succ(tx)) = InRing + 1
  <2>1. Succ(tx) = IF tx = RingSize - 1 THEN 0 ELSE tx + 1
    BY <1>1, SuccWraps
  <2>2. Succ(tx) \in Slots /\ InRing + 1 = IF tx >= dma THEN tx - dma + 1 ELSE tx - dma + RingSize + 1
    BY <1>1, <1>7, SuccInRing DEF From
  <2> HIDE DEF Succ
  <2>3. CASE tx = RingSize - 1
    BY <1>1, <2>1, <2>2, <2>3 DEF From, Slots
  <2>4. CASE tx # RingSize - 1
    BY <1>1, <2>1, <2>2, <2>4 DEF From, Slots
  <2>5. QED
    BY <2>3, <2>4
<1>11. From(dma', Free') = From(dma, Succ(tx))
  BY <1>2, <1>3 DEF From
<1>12. InRing' \in 0 .. RingSize
  BY <1>7
<1>13. \A d \in Slots :
         /\ slot'[d] # None <=> From(dma', d) < InRing'
         /\ slot'[d] # None => slot'[d] = queued'[Len(wire') + From(dma', d) + 1]
  BY <1>3, <1>6, <1>7, <1>9
<1>14. IF InRing' = RingSize THEN Free' = dma' ELSE From(dma', Free') = InRing'
  BY <1>2, <1>3, <1>7, <1>10, <1>11
<1>15. QED
  BY <1>12, <1>13, <1>14 DEF Line

(* The DMA takes the first of them.                                        *)
LEMMA DmaInLine ==
  ASSUME TypeOK, Order, Line, DmaSend
  PROVE  /\ Line'
         /\ Len(wire) < Len(queued) /\ wire' = Append(wire, queued[Len(wire) + 1])
<1> USE EthOutputAssumption
<1>1. /\ dma \in Slots /\ slot[dma] # None /\ dma' = Succ(dma)
      /\ UNCHANGED <<queued, tx, at>>
      /\ slot' = [slot EXCEPT ![dma] = None] /\ wire' = Append(wire, slot[dma])
      /\ tx \in Slots
  BY DEF DmaSend, TypeOK, taskVars
<1>2. Free' = Free /\ Free \in Slots
  BY <1>1, SuccInRing DEF Free, Succ
<1>3. Len(wire) \in Nat /\ Len(queued) \in Nat /\ Len(wire') = Len(wire) + 1
  BY <1>1 DEF TypeOK
<1>4. \A d \in Slots : From(dma, d) \in Slots
  BY <1>1 DEF From, Slots
<1>5. /\ From(dma, dma) = 0
      /\ \A d \in Slots :
           /\ d = dma => From(dma', d) = RingSize - 1
           /\ d # dma => From(dma', d) = From(dma, d) - 1 /\ From(dma, d) > 0
  <2>1. dma' = IF dma = RingSize - 1 THEN 0 ELSE dma + 1
    BY <1>1, SuccWraps
  <2>2. dma \in 0 .. RingSize - 1 /\ RingSize \in Nat /\ RingSize > 0
    BY <1>1 DEF Slots
  <2>3. From(dma, dma) = 0 /\ \A d \in 0 .. RingSize - 1 : d = dma => From(dma', d) = RingSize - 1
    BY <2>1, <2>2 DEF From
  <2>4. ASSUME NEW d \in 0 .. RingSize - 1, d # dma
        PROVE  From(dma', d) = From(dma, d) - 1 /\ From(dma, d) > 0
    BY <2>1, <2>2, <2>4 DEF From
  <2>5. QED
    BY <2>3, <2>4 DEF Slots
<1>6. /\ InRing \in 1 .. RingSize /\ InRing' = InRing - 1
      /\ slot[dma] = queued[Len(wire) + 1] /\ Len(wire) < Len(queued)
  BY <1>1, <1>3, <1>5 DEF Line, InRing
<1>7. ASSUME NEW d \in Slots
      PROVE  /\ slot'[d] # None <=> From(dma', d) < InRing - 1
             /\ slot'[d] # None => slot'[d] = queued[Len(wire) + 1 + From(dma', d) + 1]
  <2>1. CASE d = dma
    <3>1. slot'[d] = None
      BY <1>1, <2>1 DEF TypeOK
    <3>2. ~(RingSize - 1 < InRing - 1)
      BY <1>6
    <3>3. From(dma', d) = RingSize - 1
      BY <1>5, <2>1
    <3>4. QED
      BY <3>1, <3>2, <3>3
  <2>2. CASE d # dma
    <3>1. slot'[d] = slot[d] /\ From(dma', d) = From(dma, d) - 1 /\ From(dma, d) \in Nat
      <4>1. slot'[d] = slot[d]
        BY <1>1, <2>2 DEF TypeOK
      <4>2. QED
        BY <1>4, <1>5, <2>2, <4>1 DEF Slots
    <3>2. Len(wire) + 1 + From(dma', d) + 1 = Len(wire) + From(dma, d) + 1
      BY <1>3, <3>1
    <3>3. QED
      BY <1>6, <3>1, <3>2 DEF Line
  <2>3. QED
    BY <2>1, <2>2
<1>8. InRing - 1 # RingSize /\ From(dma', Free') = InRing - 1
  <2>1. IF InRing = RingSize THEN Free = dma ELSE From(dma, Free) = InRing
    BY DEF Line
  <2>2. From(dma', Free') = IF Free = dma THEN RingSize - 1 ELSE From(dma, Free) - 1
    <3>1. PICK d \in Slots : d = Free
      BY <1>2
    <3>2. From(dma, Free) = From(dma, d) /\ From(dma', Free') = From(dma', d)
      BY <1>2, <3>1 DEF From
    <3>3. From(dma', d) = IF d = dma THEN RingSize - 1 ELSE From(dma, d) - 1
      BY <1>5
    <3>4. QED
      BY <3>1, <3>2, <3>3
  <2>3. QED
    BY <1>5, <1>6, <2>1, <2>2
<1>9. Line'
  BY <1>1, <1>3, <1>6, <1>7, <1>8 DEF Line
<1>10. QED
  BY <1>1, <1>6, <1>9

(* No other step changes the ring.                                         *)
LEMMA OthersInLine ==
  ASSUME TypeOK, Order, Line,
         \/ \E s \in Senders :
              \/ Enter(s) \/ NewSem(s) \/ FirstGive(s) \/ ReadDesc(s) \/ Wait(s)
              \/ Copy(s) \/ Hand(s) \/ Advance(s) \/ Leave(s)
         \/ DmaSuspend \/ IsrUnlock \/ UNCHANGED vars
  PROVE  Line' /\ UNCHANGED <<queued, wire>>
<1>1. UNCHANGED <<slot, queued, dma, wire>>
  BY DEF Enter, NewSem, FirstGive, ReadDesc, Wait, Copy, Hand, Advance, Leave, DmaSuspend,
         IsrUnlock, vars, ringVars, dmaVars
<1>2. Free' = Free
  <2>1. ASSUME NEW s \in Senders, Advance(s)
        PROVE  Free' = Free
    <3>1. at[s] = "advance" /\ tx' = Succ(tx) /\ at' = [at EXCEPT ![s] = "ok"]
      BY <2>1 DEF Advance, Goto
    <3>2. \A t \in Senders : at'[t] # "advance"
      BY <3>1, OneInside DEF TypeOK
    <3>3. QED
      BY <3>1, <3>2 DEF Free
  <2>2. ASSUME NEW s \in Senders,
               \/ Enter(s) \/ NewSem(s) \/ FirstGive(s) \/ ReadDesc(s) \/ Wait(s)
               \/ Copy(s) \/ Hand(s) \/ Leave(s)
        PROVE  Free' = Free
    <3>1. tx' = tx /\ \A t \in Senders : at'[t] = "advance" <=> at[t] = "advance"
      BY <2>2 DEF TypeOK, Goto, ringVars, Enter, NewSem, FirstGive, ReadDesc, Wait, Copy,
                  Hand, Leave
    <3>2. QED
      BY <3>1 DEF Free, Succ
  <2>3. CASE DmaSuspend \/ IsrUnlock \/ UNCHANGED vars
    BY <2>3 DEF DmaSuspend, IsrUnlock, vars, ringVars, taskVars, Free, Succ
  <2>4. QED
    BY <2>1, <2>2, <2>3
<1>3. InRing' = InRing
  BY <1>1 DEF InRing
<1>4. QED
  BY <1>1, <1>2, <1>3 DEF Line

(* Frames leave in the order in which they were handed over, each once, in *)
(* a ring of any size (HAL_ETH_TransmitFrame, low_level_output): the ring  *)
(* of descriptors implements the pipe.                                     *)
THEOREM RingImplementsPipe == Spec => ImplementsPipe
<1>1. Init => Out!Init
  BY DEF Init, Out!Init
<1>2. Inv /\ Line /\ [Next]_vars => Line' /\ [Out!Send \/ Out!Take]_<<queued, wire>>
  <2> SUFFICES ASSUME Inv, Line, [Next]_vars
               PROVE  Line' /\ [Out!Send \/ Out!Take]_<<queued, wire>>
    OBVIOUS
  <2>1. ASSUME NEW s \in Senders, SetOwn(s)
        PROVE  Line' /\ Out!Send
    <3>1. Frame(s) \in Frames /\ queued' = Append(queued, Frame(s)) /\ wire' = wire
      BY <2>1, FrameInHand DEF SetOwn, Inv, Order, dmaVars
    <3>2. QED
      BY <2>1, <3>1, SetOwnInLine DEF Inv, Out!Send
  <2>2. CASE DmaSend
    BY <2>2, DmaInLine DEF Inv, Out!Take, DmaSend
  <2>3. CASE \/ \E s \in Senders :
                  \/ Enter(s) \/ NewSem(s) \/ FirstGive(s) \/ ReadDesc(s) \/ Wait(s)
                  \/ Copy(s) \/ Hand(s) \/ Advance(s) \/ Leave(s)
             \/ DmaSuspend \/ IsrUnlock \/ UNCHANGED vars
    BY <2>3, OthersInLine DEF Inv
  <2>4. QED
    BY <2>1, <2>2, <2>3 DEF Next, Inside, Dma
<1>3. QED
  BY <1>1, <1>2, InitLine, Invariance, PTL DEF Spec, ImplementsPipe, Out!Spec

-----------------------------------------------------------------------------
(* The frame that may be spoilt is the TCP/IP thread's first: only it can  *)
(* be between its look at TxDesc and the copy while AppTaskCreate advances *)
(* TxDesc.  Everybody else copies into the buffer of the descriptor that   *)
(* is handed over, and no one into that of a frame still in the ring.      *)
FirstOfStack(s) == s = Stack /\ begun[s] = 1
Late == at[Boot] \in {"advance", "ok"}

FirstCallers ==
  /\ ~BootDone /\ ~Late => begun[Stack] = 0
  /\ Late => begun[Stack] <= 1 /\ (at[Stack] = "out" => begun[Stack] = 0)
  /\ ~BootDone => \A s \in Clients : at[s] = "out"
Aimed ==
  \A s \in Senders :
    /\ at[s] \in {"wait", "copy", "hand", "own"} /\ ~FirstOfStack(s) => mine[s] = tx
    /\ at[s] \in {"hand", "own"} /\ ~FirstOfStack(s) => buffer[tx] = Frame(s)
    /\ at[s] \in {"wait", "copy"} => slot[mine[s]] = None
Whole ==
  \A d \in Slots : slot[d] # None /\ slot[d] # <<Stack, 1>> => buffer[d] = slot[d]

Untouched == FirstCallers /\ Aimed /\ Whole /\ SpoiltOnlyAtStart

LEMMA InitUntouched == Init => Untouched
BY EthOutputAssumption
DEF Init, Untouched, FirstCallers, Aimed, Whole, SpoiltOnlyAtStart, BootDone, Late, Senders, Slots

(* While a task is between the wait and ERR_OK, the rest is out of the     *)
(* way: nobody, or those that AppTaskCreate keeps waiting.                 *)
LEMMA AloneInside ==
  ASSUME TypeOK, Order, NEW s \in Senders, at[s] \in {"copy", "hand", "own", "advance"}
  PROVE  /\ \A t \in Senders \ {s} : at[t] \in {"out", "enter", "read", "wait"}
         /\ s # Boot \/ ~Late => \A t \in Senders \ {s} : at[t] = "out"
         /\ s # Boot => BootDone
<1> USE DEF Order, CoreHeld, BootAlone, BootOverlaps, Late, Others, TypeOK, Steps
<1>1. CASE s = Boot
  BY <1>1
<1>2. CASE s # Boot
  <2>1. BootDone /\ at[Boot] = "out"
    BY <1>2, OthersComeLater DEF BootDone
  <2>2. QED
    BY <1>2, <2>1
<1>3. QED
  BY <1>1, <1>2

(* The callers come in this order.                                         *)
LEMMA CallersInOrder ==
  ASSUME TypeOK, TypeOK', Order, Order', FirstCallers, [Next]_vars
  PROVE  FirstCallers'
<1> USE EthOutputAssumption
<1> USE DEF TypeOK, FirstCallers, Late, BootDone, Goto, Senders
<1>1. ASSUME NEW s \in Senders, Enter(s)
      PROVE  FirstCallers'
  BY <1>1 DEF Enter, Order, Counted, BootAlone, Others, Steps
<1>2. ASSUME NEW s \in Senders, NewSem(s) \/ FirstGive(s) \/ ReadDesc(s) \/ Wait(s) \/ Copy(s)
      PROVE  FirstCallers'
  BY <1>2 DEF NewSem, FirstGive, ReadDesc, Wait, Copy
<1>3. ASSUME NEW s \in Senders, Hand(s) \/ SetOwn(s) \/ Advance(s)
      PROVE  FirstCallers'
  BY <1>3, AloneInside DEF Hand, SetOwn, Advance
<1>4. ASSUME NEW s \in Senders, Leave(s)
      PROVE  FirstCallers'
  BY <1>4 DEF Leave, Order, Counted, BootAlone, BootOverlaps, Others, Steps
<1>5. CASE Dma \/ IsrUnlock \/ UNCHANGED vars
  BY <1>5 DEF Dma, DmaSend, DmaSuspend, IsrUnlock, vars, taskVars
<1>6. QED
  BY <1>1, <1>2, <1>3, <1>4, <1>5 DEF Next, Inside

(* Nobody's copy goes astray but that of the first frame of the stack.     *)
LEMMA AimStays ==
  ASSUME TypeOK, TypeOK', Order, FirstCallers, Aimed, [Next]_vars
  PROVE  Aimed'
<1> USE EthOutputAssumption
<1> USE DEF TypeOK, Aimed, FirstOfStack, Goto, Frame
<1>1. ASSUME NEW s \in Senders, Enter(s) \/ NewSem(s) \/ FirstGive(s) \/ Wait(s) \/ Leave(s)
      PROVE  Aimed'
  BY <1>1 DEF Enter, NewSem, FirstGive, Wait, Leave, ringVars
<1>2. ASSUME NEW s \in Senders, ReadDesc(s)
      PROVE  Aimed'
  BY <1>2 DEF ReadDesc, ringVars
<1>3. ASSUME NEW s \in Senders, Copy(s)
      PROVE  Aimed'
  BY <1>3, AloneInside DEF Copy
<1>4. ASSUME NEW s \in Senders, Hand(s)
      PROVE  Aimed'
  BY <1>4 DEF Hand, ringVars
<1>5. ASSUME NEW s \in Senders, SetOwn(s)
      PROVE  Aimed'
  <2>1. \A t \in Senders \ {s} : at[t] = "out"
    BY <1>5, AloneInside DEF SetOwn, Late
  <2>2. QED
    BY <1>5, <2>1 DEF SetOwn
<1>6. ASSUME NEW s \in Senders, Advance(s)
      PROVE  Aimed'
  <2>1. \A t \in Senders \ {s} :
          at[t] \in {"out", "enter", "read", "wait"} /\ (at[t] = "wait" => FirstOfStack(t))
    BY <1>6, AloneInside DEF Advance, FirstCallers, Late, Order, Counted, BootDone, Senders
  <2>2. QED
    BY <1>6, <2>1 DEF Advance
<1>7. CASE DmaSend
  BY <1>7 DEF DmaSend, taskVars
<1>8. CASE DmaSuspend \/ IsrUnlock \/ UNCHANGED vars
  BY <1>8 DEF DmaSuspend, IsrUnlock, vars, taskVars, ringVars
<1>9. QED
  BY <1>1, <1>2, <1>3, <1>4, <1>5, <1>6, <1>7, <1>8 DEF Next, Inside, Dma

(* So the frames in the ring stay whole, and leave so.                     *)
LEMMA FramesStayWhole ==
  ASSUME TypeOK, Order, Aimed, Whole, SpoiltOnlyAtStart, [Next]_vars
  PROVE  Whole' /\ SpoiltOnlyAtStart'
<1> USE DEF TypeOK, Whole, SpoiltOnlyAtStart
<1>1. ASSUME NEW s \in Senders,
             \/ Enter(s) \/ NewSem(s) \/ FirstGive(s) \/ ReadDesc(s) \/ Wait(s)
             \/ Hand(s) \/ Advance(s) \/ Leave(s)
      PROVE  Whole' /\ SpoiltOnlyAtStart'
  BY <1>1 DEF Enter, NewSem, FirstGive, ReadDesc, Wait, Hand, Advance, Leave, ringVars, dmaVars
<1>2. ASSUME NEW s \in Senders, Copy(s)
      PROVE  Whole' /\ SpoiltOnlyAtStart'
  BY <1>2 DEF Copy, Aimed, dmaVars
<1>3. ASSUME NEW s \in Senders, SetOwn(s)
      PROVE  Whole' /\ SpoiltOnlyAtStart'
  BY <1>3 DEF SetOwn, Aimed, FirstOfStack, Frame, dmaVars
<1>4. CASE DmaSend
  BY <1>4 DEF DmaSend
<1>5. CASE DmaSuspend \/ IsrUnlock \/ UNCHANGED vars
  BY <1>5 DEF DmaSuspend, IsrUnlock, vars, ringVars, dmaVars
<1>6. QED
  BY <1>1, <1>2, <1>3, <1>4, <1>5 DEF Next, Inside, Dma

(* Only the first frame of the TCP/IP thread can leave with other bytes,   *)
(* for every ring and every number of clients (low_level_output, line 229  *)
(* against line 244).                                                      *)
THEOREM SpoiltAtMostOnce == Spec => []SpoiltOnlyAtStart
<1>1. Inv /\ Inv' /\ Untouched /\ [Next]_vars => Untouched'
  BY CallersInOrder, AimStays, FramesStayWhole DEF Untouched, Inv
<1>2. Untouched => SpoiltOnlyAtStart
  BY DEF Untouched
<1>3. QED
  BY <1>1, <1>2, InitUntouched, Invariance, PTL DEF Spec
=============================================================================
