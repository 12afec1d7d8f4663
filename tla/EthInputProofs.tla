--------------------------- MODULE EthInputProofs ---------------------------
(***************************************************************************)
(* Proofs about EthInput, for every size of the ring, the pool and the     *)
(* mailbox and every number of tokens and frames.                          *)
(*                                                                         *)
(* The invariant says where the frames are without counting them.  Those   *)
(* in the ring lie between RxDesc and the DMA (Arc), oldest first          *)
(* (Sorted); the one in ETHIN's hands is older, those posted older still   *)
(* (Older), and what the stack keeps is older than what waits in the       *)
(* mailbox (Kept), so that no pbuf is counted twice.  The lemma RingCount  *)
(* leads from there to the numbers in FramesInOrder.  That ETHIN sleeps    *)
(* only with reason is Awake: an interrupt that has given its token cannot *)
(* leave before the token can be taken.                                    *)
(***************************************************************************)
EXTENDS EthInput, FiniteSetTheorems, TLAPS

Full(d) == ring[d] # Own
(* c is read before d.                                                     *)
Before(c, d) == IF (c >= rx) = (d >= rx) THEN c < d ELSE c >= rx

Arc ==
  /\ rx < dma => \A d \in Slots : Full(d) <=> rx <= d /\ d < dma
  /\ dma < rx => \A d \in Slots : Full(d) <=> rx <= d \/ d < dma
  /\ rx = dma => (\A d \in Slots : Full(d)) \/ (\A d \in Slots : ~Full(d))
Sorted ==
  /\ \A d \in Slots : ring[d] <= arrived
  /\ \A c, d \in Slots : Full(c) /\ Full(d) /\ Before(c, d) => ring[c] < ring[d]
Precedes(f) ==
  /\ f <= arrived
  /\ \A d \in Slots : Full(d) => f < ring[d]
Older ==
  /\ ethin = "input" => frame # Own /\ Precedes(frame)
  /\ \A i \in DOMAIN posted :
       Precedes(posted[i]) /\ (ethin = "input" => posted[i] < frame)
  /\ \A i, j \in DOMAIN posted : i < j => posted[i] < posted[j]
Kept ==
  /\ \A i \in DOMAIN mbox :
       Precedes(mbox[i]) /\ (ethin = "input" => mbox[i] < frame)
  /\ \A i, j \in DOMAIN mbox : i < j => mbox[i] < mbox[j]
  /\ \A h \in held :
       /\ Precedes(h) /\ (ethin = "input" => h < frame)
       /\ \A i \in DOMAIN mbox : h < mbox[i]
Silent == tokens = 0 /\ ~flagR /\ ~isr
Awake ==
  /\ isr => tokens > 0
  /\ ethin = "input" /\ Silent => \E d \in Slots : ~Full(d)
  /\ ethin = "wait" /\ Silent /\ cut = "empty" => \A d \in Slots : ~Full(d)
  /\ ethin = "wait" /\ Silent /\ cut # "busy" => \E d \in Slots : ~Full(d)

Ring == Arc /\ Sorted
Inv == TypeOK /\ Ring /\ Older /\ Kept /\ PbufsConserved /\ Awake

-----------------------------------------------------------------------------
(* The descriptor after the last is the first.                             *)
LEMMA SuccWraps ==
  ASSUME NEW d \in Slots
  PROVE  /\ Succ(d) \in Slots
         /\ Succ(d) = IF d = RingSize - 1 THEN 0 ELSE d + 1
  BY EthAssumption DEF Succ, Slots

(* At first everything is empty and every pbuf free.                       *)
LEMMA InitInv == Init => Inv
<1> SUFFICES ASSUME Init
             PROVE  Inv
  OBVIOUS
<1> USE EthAssumption DEF Init
<1>1. TypeOK
  <2>1. 0 \in Slots
    BY DEF Slots
  <2>2. ring \in [Slots -> Frames \cup {Own}]
    OBVIOUS
  <2>3. held \in SUBSET Frames /\ mbox \in Seq(Frames) /\ posted \in Seq(Frames)
    OBVIOUS
  <2>4. QED
    BY <2>1, <2>2, <2>3 DEF TypeOK, EthinSteps
<1>2. Ring /\ Older /\ Kept /\ Awake
  BY DEF Ring, Arc, Sorted, Full, Older, Kept, Awake, Silent, Slots, Own
<1>3. PbufsConserved
  BY FS_EmptySet DEF PbufsConserved
<1>4. QED
  BY <1>1, <1>2, <1>3 DEF Inv

(* The stack keeps finitely many pbufs.                                    *)
LEMMA HeldFinite ==
  ASSUME TypeOK
  PROVE  /\ IsFiniteSet(held)
         /\ Cardinality(held) \in Nat
<1>1. IsFiniteSet(Frames)
  BY EthAssumption, FS_Interval DEF Frames
<1>2. QED
  BY <1>1, FS_Subset, FS_CardinalityType DEF TypeOK

(* Every action keeps its variables in range; the pool does not overflow   *)
(* because what is given back to it had been taken from it.                *)
LEMMA NextType == TypeOK /\ Older /\ PbufsConserved /\ [Next]_vars => TypeOK'
<1> SUFFICES ASSUME TypeOK, Older, PbufsConserved, [Next]_vars
             PROVE  TypeOK'
  OBVIOUS
<1> USE EthAssumption
<1> USE DEF TypeOK, EthinSteps, dmaVars, taskVars, stackVars
<1>1. CASE Arrive
  <2>1. arrived + 1 \in Frames
    BY <1>1 DEF Arrive, Frames
  <2>2. arrived + 1 \in 0 .. MaxFrames /\ Succ(dma) \in Slots
    BY <1>1, SuccWraps DEF Arrive
  <2>3. QED
    BY <1>1, <2>1, <2>2 DEF Arrive
<1>2. CASE Isr
  <2>1. tokens < MaxTokens => tokens + 1 \in 0 .. MaxTokens
    OBVIOUS
  <2>2. CASE IsrGive
    BY <2>1, <2>2 DEF IsrGive
  <2>3. CASE IsrClear
    BY <2>3 DEF IsrClear
  <2>4. QED
    BY <1>2, <2>2, <2>3 DEF Isr
<1>3. CASE TakeToken \/ GetNothing
  BY <1>3 DEF TakeToken, GetNothing
<1>4. CASE GetFrame
  <2>1. Succ(rx) \in Slots
    BY SuccWraps
  <2>2. QED
    BY <1>4, <2>1 DEF GetFrame
<1>5. CASE Input
  <2>1. frame \in Frames
    BY <1>5 DEF Input, Older
  <2>2. QED
    BY <1>5, <2>1 DEF Input
<1>6. CASE InputRefused
  <2>1. pool + 1 \in 0 .. PoolSize
    BY <1>6, HeldFinite DEF InputRefused, PbufsConserved
  <2>2. QED
    BY <1>6, <2>1 DEF InputRefused
<1>7. CASE Transmitter
  BY <1>7 DEF Transmitter, TxBegin, TxEnd
<1>8. CASE StackTake
  <2>1. Head(mbox) \in Frames /\ Tail(mbox) \in Seq(Frames)
    BY <1>8 DEF StackTake
  <2>2. QED
    BY <1>8, <2>1 DEF StackTake
<1>9. ASSUME NEW f \in Frames, StackFree(f)
      PROVE  TypeOK'
  <2>1. Cardinality(held) >= 1
    BY <1>9, HeldFinite, FS_EmptySet DEF StackFree
  <2>2. pool + 1 \in 0 .. PoolSize
    BY <2>1, HeldFinite DEF PbufsConserved
  <2>3. QED
    BY <1>9, <2>2 DEF StackFree
<1>10. CASE UNCHANGED vars
  BY <1>10 DEF vars
<1>11. QED
  BY <1>1, <1>2, <1>3, <1>4, <1>5, <1>6, <1>7, <1>8, <1>9, <1>10 DEF Next, Ethin, Stack

(* A frame that comes goes behind all others, and the one that is taken is *)
(* the first.                                                              *)
LEMMA NextRing == TypeOK /\ Ring /\ [Next]_vars => Ring'
<1> SUFFICES ASSUME TypeOK, Ring, [Next]_vars
             PROVE  Ring'
  OBVIOUS
<1> USE EthAssumption DEF Ring, Full
<1>1. CASE Arrive /\ ring[dma] = Own
  <2>1. /\ arrived' = arrived + 1 /\ rx' = rx
        /\ ring' = [ring EXCEPT ![dma] = arrived + 1]
        /\ dma' = IF dma = RingSize - 1 THEN 0 ELSE dma + 1
    BY <1>1, SuccWraps DEF Arrive, taskVars, TypeOK
  <2>2. \A d \in Slots : ring'[d] = IF d = dma THEN arrived + 1 ELSE ring[d]
    BY <2>1 DEF TypeOK
  <2>3. \A c \in Slots : Full(c) => Before(c, dma) /\ ~Before(dma, c)
    BY <1>1 DEF Arc, Before, TypeOK, Slots
  <2>4. Arc'
    BY <1>1, <2>1, <2>2 DEF Arc, TypeOK, Slots, Own
  <2>5. Sorted'
    <3>1. \A d \in Slots : ring[d] \in Int /\ ring[d] <= arrived /\ arrived \in Int
      BY DEF Sorted, TypeOK, Frames, Own
    <3>2. \A d \in Slots : ring'[d] <= arrived'
      BY <2>1, <2>2, <3>1
    <3>3. ASSUME NEW c \in Slots, NEW d \in Slots, Full(c)', Full(d)', Before(c, d)'
          PROVE  ring'[c] < ring'[d]
      <4>1. Before(c, d)
        BY <3>3, <2>1 DEF Before
      <4>2. CASE d = dma
        <5>1. c # dma
          BY <4>1, <4>2 DEF Before, Slots
        <5>2. QED
          BY <5>1, <4>2, <2>2, <3>1
      <4>3. CASE d # dma
        <5>1. c # dma
          BY <3>3, <4>1, <4>3, <2>2, <2>3
        <5>2. QED
          BY <3>3, <5>1, <4>1, <4>3, <2>2 DEF Sorted
      <4>4. QED
        BY <4>2, <4>3
    <3>4. QED
      BY <3>2, <3>3 DEF Sorted
  <2>6. QED
    BY <2>4, <2>5
<1>2. CASE Arrive /\ ring[dma] # Own
  <2>1. arrived' = arrived + 1 /\ UNCHANGED <<ring, dma, rx>>
    BY <1>2 DEF Arrive, taskVars
  <2>2. Arc'
    BY <2>1 DEF Arc
  <2>3. \A d \in Slots : ring[d] <= arrived + 1
    BY DEF Sorted, TypeOK, Frames, Own
  <2>4. QED
    BY <2>1, <2>2, <2>3 DEF Sorted, Before
<1>3. CASE GetFrame
  <2>1. /\ UNCHANGED <<arrived, dma>>
        /\ ring[rx] # Own
        /\ ring' = [ring EXCEPT ![rx] = Own]
        /\ rx' = IF rx = RingSize - 1 THEN 0 ELSE rx + 1
    BY <1>3, SuccWraps DEF GetFrame, TypeOK
  <2>2. \A d \in Slots : ring'[d] = IF d = rx THEN Own ELSE ring[d]
    BY <2>1 DEF TypeOK
  <2>3. Arc'
    BY <2>1, <2>2 DEF Arc, TypeOK, Slots
  <2>4. ASSUME NEW c \in Slots, NEW d \in Slots, c # rx, d # rx, Before(c, d)'
        PROVE  Before(c, d)
    BY <2>1, <2>4 DEF Before, TypeOK, Slots
  <2>5. \A d \in Slots : ring'[d] <= arrived'
    BY <2>1, <2>2 DEF Sorted, TypeOK, Own
  <2>6. QED
    BY <2>1, <2>2, <2>3, <2>4, <2>5 DEF Sorted
<1>4. CASE UNCHANGED <<arrived, ring, dma, rx>>
  BY <1>4 DEF Arc, Sorted, Before
<1>5. QED
  BY <1>1, <1>2, <1>3, <1>4 DEF Next, Isr, Ethin, Transmitter, Stack, IsrGive, IsrClear,
     TakeToken, GetNothing, Input, InputRefused, TxBegin, TxEnd, StackTake, StackFree,
     vars, dmaVars, taskVars, stackVars

(* What was older than everything in the ring stays so, and what leaves    *)
(* the ring is older than what stays there.                                *)
LEMMA PrecedesKept ==
  ASSUME TypeOK, Ring, [Next]_vars, NEW f \in Frames \cup {Own}, Precedes(f)
  PROVE  /\ Precedes(f)'
         /\ GetFrame /\ ethin' = "input" => f < frame'
<1> USE EthAssumption DEF Full, Precedes
<1>1. CASE Arrive
  <2>1. f < arrived + 1 /\ f <= arrived + 1
    BY DEF TypeOK, Frames, Own
  <2>2. /\ arrived' = arrived + 1
        /\ \A d \in Slots : ring'[d] = ring[d] \/ ring'[d] = arrived + 1
    BY <1>1 DEF Arrive, TypeOK
  <2>3. ~GetFrame
    BY <1>1 DEF Arrive, GetFrame, TypeOK
  <2>4. QED
    BY <2>1, <2>2, <2>3
<1>2. CASE GetFrame
  <2>1. \A d \in Slots : ring'[d] = IF d = rx THEN Own ELSE ring[d]
    BY <1>2 DEF GetFrame, TypeOK
  <2>2. ethin' = "input" => frame' = ring[rx] /\ ring[rx] # Own
    BY <1>2 DEF GetFrame
  <2>3. QED
    BY <1>2, <2>1, <2>2 DEF GetFrame, TypeOK
<1>3. CASE UNCHANGED <<arrived, ring>>
  BY <1>3 DEF GetFrame, TypeOK
<1>4. QED
  BY <1>1, <1>2, <1>3 DEF Next, Isr, Ethin, Transmitter, Stack, IsrGive, IsrClear,
     TakeToken, GetNothing, Input, InputRefused, TxBegin, TxEnd, StackTake, StackFree,
     vars, dmaVars, taskVars, stackVars

(* The frame ETHIN takes out was the oldest in the ring.                   *)
LEMMA TakenOldest ==
  ASSUME TypeOK, Ring, GetFrame, ethin' = "input"
  PROVE  frame' # Own /\ frame' \in Frames /\ Precedes(frame)'
<1> USE EthAssumption DEF Full, Precedes
<1>1. frame' = ring[rx] /\ ring[rx] # Own /\ ring[rx] \in Frames /\ arrived' = arrived
  BY DEF GetFrame, TypeOK
<1>2. \A d \in Slots : ring'[d] = IF d = rx THEN Own ELSE ring[d]
  BY DEF GetFrame, TypeOK
<1>3. ASSUME NEW d \in Slots, d # rx, ring[d] # Own
      PROVE  Before(rx, d)
  BY <1>3, <1>1 DEF Ring, Arc, Before, TypeOK, Slots
<1>4. ring[rx] <= arrived
  BY DEF Ring, Sorted, TypeOK
<1>5. \A d \in Slots : ring'[d] # Own => frame' < ring'[d]
  BY <1>1, <1>2, <1>3 DEF Ring, Sorted, TypeOK
<1>6. QED
  BY <1>1, <1>4, <1>5

(* Frames are posted in the order they came.                               *)
LEMMA NextOlder == TypeOK /\ Ring /\ Older /\ [Next]_vars => Older'
<1> SUFFICES ASSUME TypeOK, Ring, Older, [Next]_vars
             PROVE  Older'
  OBVIOUS
<1> USE EthAssumption DEF Older
<1>1. \A i \in DOMAIN posted : posted[i] \in Frames /\ Precedes(posted[i])
  BY DEF TypeOK
<1>2. \A i \in DOMAIN posted : Precedes(posted[i])'
                               \/ ~ (UNCHANGED posted)
  <2> SUFFICES ASSUME NEW i \in DOMAIN posted, UNCHANGED posted
               PROVE  Precedes(posted[i])'
    OBVIOUS
  <2>1. posted'[i] = posted[i]
    OBVIOUS
  <2>2. PICK f \in Frames : f = posted[i]
    BY <1>1
  <2>3. Precedes(f)'
    BY <1>1, <2>2, PrecedesKept
  <2>4. QED
    BY <2>1, <2>2, <2>3 DEF Precedes
<1>3. CASE GetFrame
  <2>1. UNCHANGED posted
    BY <1>3 DEF GetFrame, stackVars
  <2>2. ethin' = "input" =>
          /\ frame' # Own /\ Precedes(frame)'
          /\ \A i \in DOMAIN posted : posted[i] < frame'
    BY <1>1, <1>3, PrecedesKept, TakenOldest
  <2>3. QED
    BY <2>1, <2>2, <1>2
<1>4. CASE Input
  <2>1. UNCHANGED <<ring, arrived>> /\ ethin' = "get" /\ posted' = Append(posted, frame)
    BY <1>4 DEF Input, dmaVars
  <2>2. frame \in Frames /\ Precedes(frame) /\ \A i \in DOMAIN posted : posted[i] < frame
    BY <1>4 DEF Input, TypeOK
  <2>3. /\ DOMAIN posted' = 1 .. Len(posted) + 1
        /\ DOMAIN posted = 1 .. Len(posted)
        /\ \A i \in DOMAIN posted' :
             posted'[i] = IF i = Len(posted) + 1 THEN frame ELSE posted[i]
    BY <2>1, <2>2 DEF TypeOK
  <2>4. \A i \in DOMAIN posted' : Precedes(posted'[i])
    BY <2>2, <2>3, <1>1
  <2>5. \A i, j \in DOMAIN posted' : i < j => posted'[i] < posted'[j]
    BY <2>2, <2>3 DEF TypeOK
  <2>6. QED
    BY <2>1, <2>4, <2>5 DEF Precedes, Full
<1>5. CASE /\ UNCHANGED posted
           /\ ethin' = "input" => ethin = "input" /\ UNCHANGED frame
  <2>1. ethin' = "input" => frame' # Own /\ Precedes(frame)'
    <3> SUFFICES ASSUME ethin' = "input"
                 PROVE  frame' # Own /\ Precedes(frame)'
      OBVIOUS
    <3>1. PICK f \in Frames : f = frame /\ f = frame' /\ f # Own
      BY <1>5 DEF TypeOK
    <3>2. Precedes(f)'
      BY <1>5, <3>1, PrecedesKept
    <3>3. QED
      BY <3>1, <3>2 DEF Precedes
  <2>2. QED
    BY <1>2, <1>5, <2>1
<1>6. QED
  BY <1>3, <1>4, <1>5 DEF Next, Isr, Ethin, Transmitter, Stack, IsrGive, IsrClear, Arrive,
     TakeToken, GetNothing, InputRefused, TxBegin, TxEnd, StackTake, StackFree,
     vars, dmaVars, taskVars, stackVars

(* So nothing comes into the mailbox twice, nor to the stack.              *)
LEMMA NextKept == TypeOK /\ Ring /\ Older /\ Kept /\ [Next]_vars => Kept'
<1> SUFFICES ASSUME TypeOK, Ring, Older, Kept, [Next]_vars
             PROVE  Kept'
  OBVIOUS
<1> USE EthAssumption DEF Kept
<1>1. ASSUME NEW f \in Frames, Precedes(f)
      PROVE  Precedes(f)' /\ (GetFrame /\ ethin' = "input" => f < frame')
  BY <1>1, PrecedesKept
<1>2. \A i \in DOMAIN mbox : mbox[i] \in Frames /\ Precedes(mbox[i])
  BY DEF TypeOK
<1>3. \A h \in held : h \in Frames /\ Precedes(h) /\ Precedes(h)'
  BY <1>1 DEF TypeOK
<1>4. CASE Input
  <2>1. /\ UNCHANGED <<ring, arrived, held>> /\ ethin' = "get"
        /\ mbox' = Append(mbox, frame)
    BY <1>4 DEF Input, dmaVars
  <2>2. frame \in Frames /\ Precedes(frame)
    BY <1>4 DEF Input, TypeOK, Older
  <2>3. /\ DOMAIN mbox' = 1 .. Len(mbox) + 1
        /\ DOMAIN mbox = 1 .. Len(mbox)
        /\ \A i \in DOMAIN mbox' : mbox'[i] = IF i = Len(mbox) + 1 THEN frame ELSE mbox[i]
    BY <2>1, <2>2 DEF TypeOK
  <2>4. \A i \in DOMAIN mbox' : Precedes(mbox'[i])
    BY <2>2, <2>3, <1>2
  <2>5. \A i, j \in DOMAIN mbox' : i < j => mbox'[i] < mbox'[j]
    BY <1>4, <2>2, <2>3 DEF TypeOK, Input
  <2>6. \A h \in held, i \in DOMAIN mbox' : h < mbox'[i]
    BY <1>4, <2>2, <2>3 DEF TypeOK, Input
  <2>7. QED
    BY <1>3, <2>1, <2>4, <2>5, <2>6 DEF Precedes, Full
<1>5. CASE StackTake
  <2>1. /\ UNCHANGED <<ring, arrived, ethin, frame>>
        /\ mbox # <<>> /\ mbox' = Tail(mbox) /\ held' = held \cup {mbox[1]}
    BY <1>5 DEF StackTake, dmaVars, taskVars, TypeOK
  <2>2. /\ 1 \in DOMAIN mbox
        /\ \A i \in DOMAIN mbox' : i + 1 \in DOMAIN mbox /\ i + 1 > 1 /\ mbox'[i] = mbox[i + 1]
    BY <2>1 DEF TypeOK
  <2>3. \A i, j \in DOMAIN mbox' : i < j => i + 1 < j + 1
    BY <2>1 DEF TypeOK
  <2>4. \A i \in DOMAIN mbox' : Precedes(mbox'[i]) /\ (ethin = "input" => mbox'[i] < frame)
    BY <2>2
  <2>5. \A h \in held' : Precedes(h) /\ (ethin = "input" => h < frame)
    BY <2>1, <2>2
  <2>6. \A h \in held', i \in DOMAIN mbox' : h < mbox'[i]
    BY <2>1, <2>2
  <2>7. \A i, j \in DOMAIN mbox' : i < j => mbox'[i] < mbox'[j]
    BY <2>2, <2>3
  <2>8. QED
    BY <2>1, <2>4, <2>5, <2>6, <2>7 DEF Precedes, Full
<1>6. CASE /\ UNCHANGED mbox /\ held' \in SUBSET held
           /\ GetFrame \/ (ethin' = "input" => ethin = "input" /\ UNCHANGED frame)
  <2>1. ASSUME NEW i \in DOMAIN mbox
        PROVE  Precedes(mbox[i])' /\ (ethin' = "input" => mbox[i] < frame')
    <3>1. PICK f \in Frames : f = mbox[i] /\ f = mbox'[i] /\ Precedes(f)
      BY <1>2, <1>6, <2>1
    <3>2. Precedes(f)' /\ (ethin' = "input" => f < frame')
      BY <1>1, <1>6, <3>1
    <3>3. QED
      BY <3>1, <3>2 DEF Precedes
  <2>2. \A h \in held : ethin' = "input" => h < frame'
    BY <1>1, <1>3, <1>6
  <2>3. QED
    BY <1>3, <1>6, <2>1, <2>2
<1>7. QED
  BY <1>4, <1>5, <1>6 DEF Next, Isr, Ethin, Transmitter, Stack, IsrGive, IsrClear, Arrive,
     TakeToken, GetNothing, GetFrame, InputRefused, TxBegin, TxEnd, StackFree,
     vars, dmaVars, taskVars, stackVars

(* Every step that takes a pbuf or gives one back counts it once.  A frame *)
(* the stack takes is not one it keeps already (Kept).                     *)
LEMMA NextPbufs ==
  TypeOK /\ Older /\ Kept /\ PbufsConserved /\ [Next]_vars => PbufsConserved'
<1> SUFFICES ASSUME TypeOK, Older, Kept, PbufsConserved, [Next]_vars
             PROVE  PbufsConserved'
  OBVIOUS
<1> USE EthAssumption DEF PbufsConserved
<1>1. pool \in Int /\ Len(mbox) \in Nat /\ Cardinality(held) \in Nat
  BY HeldFinite DEF TypeOK
<1>2. CASE GetFrame
  BY <1>1, <1>2 DEF GetFrame, stackVars
<1>3. CASE Input
  <2>1. Len(mbox') = Len(mbox) + 1
    BY <1>3 DEF Input, TypeOK, Older
  <2>2. QED
    BY <1>1, <1>3, <2>1 DEF Input
<1>4. CASE InputRefused
  BY <1>1, <1>4 DEF InputRefused, stackVars
<1>5. CASE StackTake
  <2>1. /\ mbox # <<>> /\ mbox' = Tail(mbox) /\ held' = held \cup {mbox[1]}
        /\ UNCHANGED <<pool, ethin>>
    BY <1>5 DEF StackTake, taskVars, TypeOK
  <2>2. Len(mbox') = Len(mbox) - 1 /\ 1 \in DOMAIN mbox
    BY <2>1 DEF TypeOK
  <2>3. mbox[1] \notin held
    BY <2>2 DEF Kept, TypeOK, Frames
  <2>4. Cardinality(held') = Cardinality(held) + 1
    BY <2>1, <2>3, HeldFinite, FS_AddElement
  <2>5. QED
    BY <1>1, <2>1, <2>2, <2>4
<1>6. ASSUME NEW f \in Frames, StackFree(f)
      PROVE  PbufsConserved'
  <2>1. Cardinality(held') = Cardinality(held) - 1
    BY <1>6, HeldFinite, FS_RemoveElement DEF StackFree
  <2>2. QED
    BY <1>1, <1>6, <2>1 DEF StackFree, taskVars
<1>7. CASE UNCHANGED <<pool, mbox, held>> /\ (ethin = "input" <=> ethin' = "input")
  BY <1>7
<1>8. QED
  BY <1>2, <1>3, <1>4, <1>5, <1>6, <1>7 DEF Next, Isr, Ethin, Transmitter, Stack, IsrGive,
     IsrClear, Arrive, TakeToken, GetNothing, TxBegin, TxEnd,
     vars, dmaVars, taskVars, stackVars

(* ETHIN falls asleep without a token only after it has seen an empty      *)
(* ring, given a descriptor back, or been refused the lock; and a frame    *)
(* that comes after that leaves a flag, a handler or a token behind.       *)
LEMMA NextAwake == TypeOK /\ Ring /\ Awake /\ [Next]_vars => Awake'
<1> SUFFICES ASSUME TypeOK, Ring, Awake, [Next]_vars
             PROVE  Awake'
  OBVIOUS
<1> USE EthAssumption DEF Awake, Silent, Full
<1>1. rx \in Slots /\ dma \in Slots
  BY DEF TypeOK
<1>2. CASE Arrive
  BY <1>1, <1>2 DEF Arrive, taskVars
<1>3. CASE IsrGive
  <2>1. tokens' > 0
    BY <1>3 DEF IsrGive, TypeOK
  <2>2. QED
    BY <2>1
<1>4. CASE IsrClear
  BY <1>4 DEF IsrClear, dmaVars, taskVars
<1>5. CASE TakeToken
  BY <1>5 DEF TakeToken
<1>6. CASE GetNothing
  <2>1. ring[rx] = Own => \A d \in Slots : ring[d] = Own
    BY <1>1 DEF Ring, Arc, Slots
  <2>2. QED
    BY <1>1, <1>6, <2>1 DEF GetNothing, dmaVars
<1>7. CASE GetFrame
  <2>1. ring'[rx] = Own
    BY <1>1, <1>7 DEF GetFrame, TypeOK
  <2>2. cut' = "empty" => ethin' # "wait"
    BY <1>7 DEF GetFrame
  <2>3. QED
    BY <1>1, <1>7, <2>1, <2>2 DEF GetFrame
<1>8. CASE Input
  BY <1>8 DEF Input
<1>9. CASE InputRefused
  BY <1>9 DEF InputRefused, dmaVars
<1>10. CASE UNCHANGED <<ring, flagR, isr, tokens, ethin, cut>>
  BY <1>10
<1>11. QED
  BY <1>2, <1>3, <1>4, <1>5, <1>6, <1>7, <1>8, <1>9, <1>10 DEF Next, Isr, Ethin, Transmitter,
     Stack, TxBegin, TxEnd, StackTake, StackFree, vars, dmaVars, taskVars, stackVars

-----------------------------------------------------------------------------
(* How many frames the ring holds, from where RxDesc and the DMA stand.    *)
Span == IF rx < dma THEN dma - rx
        ELSE IF dma < rx THEN dma - rx + RingSize
        ELSE IF \E d \in Slots : Full(d) THEN RingSize ELSE 0

LEMMA RingCount == TypeOK /\ Ring => Unread = Span
<1> SUFFICES ASSUME TypeOK, Ring
             PROVE  Unread = Span
  OBVIOUS
<1> DEFINE S == {d \in Slots : ring[d] # Own}
<1>1. rx \in 0 .. RingSize - 1 /\ dma \in 0 .. RingSize - 1 /\ RingSize \in Nat
  BY EthAssumption DEF TypeOK, Slots
<1>2. CASE rx < dma
  <2>1. S = rx .. dma - 1
    BY <1>1, <1>2 DEF Ring, Arc, Full, Slots
  <2>2. Cardinality(rx .. dma - 1) = dma - rx
    BY <1>1, <1>2, FS_Interval
  <2>3. QED
    BY <1>2, <2>1, <2>2 DEF Unread, Span
<1>3. CASE dma < rx
  <2> DEFINE A == rx .. RingSize - 1
             B == 0 .. dma - 1
  <2>1. S = A \cup B
    BY <1>1, <1>3 DEF Ring, Arc, Full, Slots
  <2>2. A \cap B = {}
    BY <1>1, <1>3
  <2>3. IsFiniteSet(A) /\ Cardinality(A) = RingSize - rx
    <3>1. RingSize - 1 \in Int /\ rx \in Int /\ ~(rx > RingSize - 1)
      BY <1>1
    <3>2. Cardinality(A) = (RingSize - 1) - rx + 1 /\ IsFiniteSet(A)
      BY <3>1, FS_Interval
    <3>3. QED
      BY <1>1, <3>2
  <2>4. IsFiniteSet(B) /\ Cardinality(B) = dma
    <3>1. dma - 1 \in Int
      BY <1>1
    <3>2. IsFiniteSet(B) /\ Cardinality(B) = IF 0 > dma - 1 THEN 0 ELSE (dma - 1) - 0 + 1
      BY <3>1, FS_Interval
    <3>3. QED
      BY <1>1, <3>2
  <2> HIDE DEF A, B
  <2>5. Cardinality(A \cup B) = Cardinality(A) + Cardinality(B) - Cardinality({})
    BY <2>2, <2>3, <2>4, FS_Union
  <2>6. Cardinality(S) = (RingSize - rx) + dma - 0
    BY <2>1, <2>3, <2>4, <2>5, FS_EmptySet
  <2>7. QED
    BY <1>1, <1>3, <2>6 DEF Unread, Span
<1>4. CASE rx = dma
  <2>1. CASE \E d \in Slots : Full(d)
    <3>1. S = 0 .. RingSize - 1
      BY <1>4, <2>1 DEF Ring, Arc, Full, Slots
    <3>2. Cardinality(0 .. RingSize - 1) = RingSize
      BY <1>1, FS_Interval
    <3>3. QED
      <4>1. Unread = RingSize
        BY <3>1, <3>2 DEF Unread
      <4>2. Span = RingSize
        BY <1>1, <1>4, <2>1 DEF Span
      <4>3. QED
        BY <4>1, <4>2
  <2>2. CASE ~ \E d \in Slots : Full(d)
    <3>1. S = {}
      BY <2>2 DEF Full
    <3>2. Unread = 0
      BY <3>1, FS_EmptySet DEF Unread
    <3>3. QED
      BY <1>1, <1>4, <2>2, <3>2 DEF Span
  <2>3. QED
    BY <2>1, <2>2
<1>5. QED
  BY <1>1, <1>2, <1>3, <1>4

(* The places of the ring counted from RxDesc.                             *)
LEMMA PlaceWraps ==
  ASSUME TypeOK, NEW k \in 0 .. RingSize
  PROVE  Place(k) = IF rx + k < RingSize THEN rx + k ELSE rx + k - RingSize
<1>1. rx \in Nat /\ rx < RingSize /\ RingSize \in Nat \ {0} /\ k \in Nat /\ k <= RingSize
  BY EthAssumption DEF TypeOK, Slots
<1>2. CASE rx + k < RingSize
  BY <1>1, <1>2 DEF Place
<1>3. CASE rx + k >= RingSize
  <2>1. rx + k - RingSize \in 0 .. RingSize - 1
    BY <1>1, <1>3
  <2>2. (rx + k) % RingSize = (rx + k - RingSize) % RingSize
    BY <1>1, <1>3
  <2>3. QED
    BY <1>1, <1>3, <2>1, <2>2 DEF Place
<1>4. QED
  BY <1>1, <1>2, <1>3

(* So the descriptors with the CPU are the first Unread from RxDesc on.    *)
LEMMA InvRingInOrder == TypeOK /\ Ring => RingInOrder
<1> SUFFICES ASSUME TypeOK, Ring
             PROVE  RingInOrder
  OBVIOUS
<1>1. rx \in 0 .. RingSize - 1 /\ dma \in 0 .. RingSize - 1 /\ RingSize \in Nat \ {0}
  BY EthAssumption DEF TypeOK, Slots
<1>2. Unread = Span /\ Unread \in 0 .. RingSize
  BY <1>1, RingCount DEF Span
<1>3. ASSUME NEW k \in 0 .. Unread - 1
      PROVE  Place(k) \in Slots /\ Full(Place(k))
  <2>1. k \in 0 .. RingSize /\ k < Span
    BY <1>1, <1>2, <1>3
  <2>2. Place(k) = IF rx + k < RingSize THEN rx + k ELSE rx + k - RingSize
    BY <2>1, PlaceWraps
  <2>3. Place(k) \in Slots
    BY <1>1, <1>2, <1>3, <2>2 DEF Slots
  <2>4. QED
    BY <1>1, <2>1, <2>2, <2>3 DEF Ring, Arc, Span, Slots
<1>4. ASSUME NEW k \in 1 .. Unread - 1
      PROVE  ring[Place(k - 1)] < ring[Place(k)]
  <2>1. k - 1 \in 0 .. Unread - 1 /\ k \in 0 .. Unread - 1
    BY <1>1, <1>2
  <2>2. k - 1 \in 0 .. RingSize /\ k \in 0 .. RingSize - 1
    BY <1>1, <1>2
  <2>3. /\ Place(k - 1) = IF rx + (k - 1) < RingSize THEN rx + (k - 1)
                          ELSE rx + (k - 1) - RingSize
        /\ Place(k) = IF rx + k < RingSize THEN rx + k ELSE rx + k - RingSize
    BY <1>1, <2>2, PlaceWraps
  <2>4. Before(Place(k - 1), Place(k))
    BY <1>1, <2>2, <2>3 DEF Before
  <2>5. QED
    BY <1>3, <2>1, <2>4 DEF Ring, Sorted
<1>5. Unread < RingSize => dma = Place(Unread)
  <2>1. Place(Unread) = IF rx + Unread < RingSize THEN rx + Unread ELSE rx + Unread - RingSize
    BY <1>2, PlaceWraps
  <2>2. QED
    BY <1>1, <1>2, <2>1 DEF Span
<1>6. Unread = RingSize => dma = rx
  BY <1>1, <1>2 DEF Span
<1>7. QED
  BY <1>3, <1>4, <1>5, <1>6 DEF RingInOrder, Full

-----------------------------------------------------------------------------
(* The inductive invariant holds in every reachable state.                 *)
THEOREM Invariance == Spec => []Inv
<1>1. Inv /\ [Next]_vars => Inv'
  BY NextType, NextRing, NextOlder, NextKept, NextPbufs, NextAwake DEF Inv
<1>2. QED
  BY InitInv, <1>1, PTL DEF Spec

(* Every variable keeps to its range: the pool never holds more pbufs than *)
(* it has, nor the semaphore more tokens (ethernetif_input).               *)
THEOREM TypeCorrect == Spec => []TypeOK
<1>1. Inv => TypeOK
  BY DEF Inv
<1>2. QED
  BY Invariance, <1>1, PTL

(* The DMA and ETHIN agree on the ring through the OWN bits alone: the     *)
(* CPU's descriptors are those from RxDesc to the DMA, oldest first, and   *)
(* frames reach the stack once and in order (low_level_input,              *)
(* HAL_ETH_GetReceivedFrame).                                              *)
THEOREM FramesKeepOrder == Spec => []FramesInOrder
<1>1. Inv => FramesInOrder
  <2> SUFFICES ASSUME Inv
               PROVE  FramesInOrder
    OBVIOUS
  <2>1. RingInOrder
    BY InvRingInOrder DEF Inv
  <2>2. posted # <<>> => Len(posted) \in DOMAIN posted
    BY DEF Inv, TypeOK
  <2>3. PostedInOrder
    BY <2>2 DEF Inv, Older, Precedes, Full, PostedInOrder
  <2>4. QED
    BY <2>1, <2>3 DEF FramesInOrder
<1>2. QED
  BY Invariance, <1>1, PTL

(* No path through ethernetif_input leaks a pbuf or frees one twice.       *)
THEOREM PbufsAccountedFor == Spec => []PbufsConserved
<1>1. Inv => PbufsConserved
  BY DEF Inv
<1>2. QED
  BY Invariance, <1>1, PTL

(* A frame is left in the ring of a sleeping ETHIN only by a poll that was *)
(* cut short (ethernetif_input against HAL_ETH_IRQHandler).                *)
THEOREM FramesNotForgotten == Spec => []NoFrameForgotten
<1>1. Inv => NoFrameForgotten
  <2> SUFFICES ASSUME Inv, Quiet, Unread > 0, cut = "empty"
               PROVE  FALSE
    BY DEF NoFrameForgotten
  <2>1. \A d \in Slots : ring[d] = Own
    BY DEF Inv, Awake, Quiet, Silent, Full
  <2>2. Unread = 0
    BY <2>1, FS_EmptySet DEF Unread
  <2>3. QED
    BY <2>2
<1>2. QED
  BY Invariance, <1>1, PTL

(* Only a poll that was refused the HAL lock can leave a full ring behind, *)
(* which no interrupt will ever announce again (low_level_input).          *)
THEOREM DeafByLockAlone == Spec => []DeafOnlyWhenBusy
<1>1. Inv => DeafOnlyWhenBusy
  <2> SUFFICES ASSUME Inv, Quiet, Unread = RingSize, cut # "busy"
               PROVE  FALSE
    BY DEF DeafOnlyWhenBusy
  <2>1. PICK d \in Slots : ~Full(d)
    BY DEF Inv, Awake, Quiet, Silent
  <2>2. Span = RingSize
    BY RingCount DEF Inv
  <2>3. QED
    BY <2>1, <2>2, EthAssumption DEF Inv, Span, Ring, Arc, TypeOK, Slots
<1>2. QED
  BY Invariance, <1>1, PTL
=============================================================================
