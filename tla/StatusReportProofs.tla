------------------------- MODULE StatusReportProofs -------------------------
(***************************************************************************)
(* Proofs about StatusReport, for every width of the two counters and      *)
(* every bound on the waiting queries.                                     *)
(*                                                                         *)
(* The inductive invariant is TypeOK with the conjuncts of Inv.  Of the    *)
(* properties, only HostUpToDate is not inductive by itself: a write       *)
(* makes `sent' what `scan' holds, so the samples have to be right first   *)
(* (TornScanRepeated), and a take may discard a count only because the     *)
(* scan that follows reads both pins anew.                                 *)
(***************************************************************************)
EXTENDS StatusReport, TLAPS

Inv == TypeOK /\ TornScanRepeated /\ HostUpToDate /\ NoLostWakeup

(* The four messages name exactly the levels that were scanned: Input_Scan *)
(* and the switch of client compose to the identity on levels.             *)
LEMMA MessageFaithful ==
  ASSUME NEW s \in Levels
  PROVE  Message(ScanCode(s)) = s
<1>1. s \in [{1, 2} -> BOOLEAN]
  BY DEF Levels, Inputs
<1>2. CASE s[1] /\ s[2]
  BY <1>1, <1>2 DEF Message, ScanCode, Inputs
<1>3. CASE s[1] /\ ~s[2]
  BY <1>1, <1>3 DEF Message, ScanCode, Inputs
<1>4. CASE ~s[1] /\ s[2]
  BY <1>1, <1>4 DEF Message, ScanCode, Inputs
<1>5. CASE ~s[1] /\ ~s[2]
  BY <1>1, <1>5 DEF Message, ScanCode, Inputs
<1>6. QED
  BY <1>2, <1>3, <1>4, <1>5

(* What a give does to a well-typed count: it rings, or it wraps and the   *)
(* drop is recorded; a task that waited is ready.                          *)
LEMMA GiveRings ==
  ASSUME TypeOK, Give
  PROVE  /\ notify' \in 0 .. WordMod - 1
         /\ client' \in ClientSteps
         /\ dropped' \in BOOLEAN
         /\ notify' # 0 \/ dropped'
         /\ client' # "blocked"
         /\ client # "blocked" => client' = client
         /\ client = "blocked" => client' = "woken"
<1>1. WordMod \in Nat \ {0, 1} /\ notify + 1 \in Nat
  BY StatusAssumption DEF TypeOK
<1>2. (notify + 1) % WordMod \in 0 .. WordMod - 1
  BY <1>1
<1>3. QED
  BY <1>2 DEF TypeOK, Give, ClientSteps

LEMMA InitInv == Init => Inv
<1> SUFFICES ASSUME Init
             PROVE  Inv
  OBVIOUS
<1>1. 0 \in 0 .. WordMod - 1 /\ 0 \in 0 .. MaxQueries
  BY StatusAssumption
<1>2. TypeOK
  BY <1>1 DEF Init, TypeOK, ClientSteps, Levels, None
<1>3. TornScanRepeated /\ HostUpToDate /\ NoLostWakeup
  BY DEF Init, TornScanRepeated, HostUpToDate, NoLostWakeup
<1>4. QED
  BY <1>2, <1>3 DEF Inv

LEMMA NextInv == Inv /\ [Next]_vars => Inv'
<1> SUFFICES ASSUME Inv, [Next]_vars
             PROVE  Inv'
  OBVIOUS
<1> USE StatusAssumption
<1>1. ASSUME NEW i \in Inputs, Edge(i)
      PROVE  Inv'
  <2>1. latch'[i] /\ Ringing'
    BY <1>1 DEF Edge, Inv, TypeOK, Ringing
  <2>2. TypeOK'
    BY <1>1 DEF Edge, Inv, TypeOK, Levels
  <2>3. QED
    BY <1>1, <2>1, <2>2 DEF Edge, Inv, TornScanRepeated, HostUpToDate, NoLostWakeup
<1>2. ASSUME NEW i \in Inputs, IsrClear(i)
      PROVE  Inv'
  <2>1. i # 0 /\ Ringing'
    BY <1>2 DEF IsrClear, Ringing, Inputs, None
  <2>2. TypeOK'
    BY <1>2 DEF IsrClear, Inv, TypeOK
  <2>3. QED
    BY <1>2, <2>1, <2>2 DEF IsrClear, Inv, TornScanRepeated, HostUpToDate, NoLostWakeup
<1>3. ASSUME Give, UNCHANGED <<pin, scan, sent>>, TypeOK'
      PROVE  Inv'
  <2>1. Ringing' \/ dropped'
    BY <1>3, GiveRings DEF Inv, Ringing
  <2>2. client' # "blocked"
    BY <1>3, GiveRings DEF Inv
  <2>3. QED
    BY <1>3, <2>1, <2>2 DEF Inv, TornScanRepeated, HostUpToDate, NoLostWakeup
<1>4. CASE IsrGive
  <2>1. TypeOK'
    BY <1>4, GiveRings DEF IsrGive, Inv, TypeOK
  <2>2. QED
    BY <1>3, <1>4, <2>1 DEF IsrGive
<1>5. CASE TimerStart
  BY <1>5 DEF TimerStart, Inv, TypeOK, TornScanRepeated, HostUpToDate, NoLostWakeup,
              Ringing, Sampling
<1>6. CASE TimerTick
  <2>1. TypeOK'
    BY <1>6, GiveRings DEF TimerTick, Inv, TypeOK
  <2>2. QED
    BY <1>3, <1>6, <2>1 DEF TimerTick
<1>7. CASE HostQuery
  BY <1>7 DEF HostQuery, Inv, TypeOK, TornScanRepeated, HostUpToDate, NoLostWakeup,
              Ringing, Sampling
<1>8. CASE RecvQuery
  <2>1. queries - 1 \in 0 .. MaxQueries
    BY <1>8 DEF RecvQuery, Inv, TypeOK
  <2>2. TypeOK'
    BY <1>8, <2>1, GiveRings DEF RecvQuery, Inv, TypeOK
  <2>3. QED
    BY <1>3, <1>8, <2>2 DEF RecvQuery
<1>9. CASE Connected
  BY <1>9 DEF Connected, Inv, TypeOK, TornScanRepeated, HostUpToDate, NoLostWakeup,
              Ringing, Sampling, ClientSteps
<1>10. CASE TakeBegin
  BY <1>10 DEF TakeBegin, Inv, TypeOK, TornScanRepeated, HostUpToDate, NoLostWakeup,
               Ringing, Sampling, ClientSteps
<1>11. CASE TakeEnd
  <2>1. TypeOK'
    <3>1. notify' \in 0 .. WordMod - 1
      BY <1>11 DEF TakeEnd
    <3>2. client' \in ClientSteps
      BY <1>11 DEF TakeEnd, ClientSteps
    <3>3. dropped' \in BOOLEAN
      BY <1>11 DEF TakeEnd
    <3>4. QED
      BY <1>11, <3>1, <3>2, <3>3 DEF TakeEnd, Inv, TypeOK
  <2>2. TornScanRepeated' /\ NoLostWakeup'
    BY <1>11 DEF TakeEnd, TornScanRepeated, NoLostWakeup
  <2>3. HostUpToDate'
    BY <1>11 DEF TakeEnd, Inv, HostUpToDate, Ringing, Sampling
  <2>4. QED
    BY <2>1, <2>2, <2>3 DEF Inv
<1>12. CASE ScanFirst
  <2>1. TypeOK' /\ scan'[1] = pin'[1]
    BY <1>12 DEF ScanFirst, Inv, TypeOK, ClientSteps, Levels, Inputs
  <2>2. QED
    BY <1>12, <2>1 DEF ScanFirst, Inv, TornScanRepeated, HostUpToDate, NoLostWakeup,
                       Sampling
<1>13. CASE ScanSecond
  <2>1. TypeOK' /\ scan'[1] = scan[1] /\ scan'[2] = pin'[2]
    BY <1>13 DEF ScanSecond, Inv, TypeOK, ClientSteps, Levels, Inputs
  <2>2. QED
    BY <1>13, <2>1 DEF ScanSecond, Inv, TornScanRepeated, HostUpToDate, NoLostWakeup,
                       Sampling, Ringing
<1>14. CASE Write
  <2>1. sent' = scan
    BY <1>14, MessageFaithful DEF Write, Inv, TypeOK
  <2>2. TypeOK'
    BY <1>14, <2>1 DEF Write, Inv, TypeOK, ClientSteps
  <2>3. ~Ringing' /\ ~dropped' => scan[1] = pin[1] /\ scan[2] = pin[2]
    BY <1>14 DEF Write, Inv, TornScanRepeated, Ringing
  <2>4. scan[1] = pin[1] /\ scan[2] = pin[2] => scan = pin
    BY DEF Inv, TypeOK, Levels, Inputs
  <2>5. HostUpToDate'
    BY <1>14, <2>1, <2>3, <2>4 DEF Write, HostUpToDate
  <2>6. QED
    BY <1>14, <2>2, <2>5 DEF Write, Inv, TornScanRepeated, NoLostWakeup
<1>15. CASE UNCHANGED vars
  BY <1>15 DEF vars, Inv, TypeOK, TornScanRepeated, HostUpToDate, NoLostWakeup,
               Ringing, Sampling
<1>16. QED
  BY <1>1, <1>2, <1>4, <1>5, <1>6, <1>7, <1>8, <1>9, <1>10, <1>11, <1>12, <1>13,
     <1>14, <1>15 DEF Next, Environment, Isr, Client

(* Every reachable state satisfies the inductive invariant.                *)
THEOREM Invariance == Spec => []Inv
  BY InitInv, NextInv, PTL DEF Spec

(* Type correctness of the status path, every counter width.               *)
THEOREM TypeCorrect == Spec => []TypeOK
<1>1. Inv => TypeOK
  BY DEF Inv
<1>2. QED
  BY <1>1, Invariance, PTL

(* The host is never left with a wrong picture of the pins unless a        *)
(* notification was lost to the width of a counter (client, Input_Scan,    *)
(* HAL_GPIO_EXTI_Callback).                                                *)
THEOREM HostKeptUpToDate == Spec => []HostUpToDate
<1>1. Inv => HostUpToDate
  BY DEF Inv
<1>2. QED
  BY <1>1, Invariance, PTL

(* A scan torn by an edge is followed by another (Input_Scan).             *)
THEOREM TornScansRepeated == Spec => []TornScanRepeated
<1>1. Inv => TornScanRepeated
  BY DEF Inv
<1>2. QED
  BY <1>1, Invariance, PTL

(* The client never sleeps on a count that is not zero (ulTaskNotifyTake). *)
THEOREM WakeupsNotLost == Spec => []NoLostWakeup
<1>1. Inv => NoLostWakeup
  BY DEF Inv
<1>2. QED
  BY <1>1, Invariance, PTL

-----------------------------------------------------------------------------
(* Refinement: every step of the path is a step of the mirror or leaves    *)
(* what the mirror shows unchanged.                                        *)

Owed == Ringing \/ Sampling \/ dropped

(* A give is a ring of the mirror's bell.                                  *)
LEMMA GiveIsRing ==
  ASSUME Inv, Give, UNCHANGED <<pin, sent>>
  PROVE  Mirror!Ring
<1>1. notify' # 0 \/ dropped'
  BY GiveRings DEF Inv
<1>2. Owed'
  BY <1>1 DEF Owed, Ringing
<1>3. QED
  BY <1>2 DEF Mirror!Ring, Owed

LEMMA MirrorInit == Init => Mirror!Init
  BY DEF Init, Mirror!Init, Mirror!Levels, Levels, Ringing, Sampling, None

LEMMA MirrorNext == Inv /\ Inv' /\ [Next]_vars => [Mirror!Next]_(Mirror!vars)
<1> SUFFICES ASSUME Inv, Inv', [Next]_vars
             PROVE  Mirror!Next \/ UNCHANGED <<pin, sent, Owed>>
  BY DEF Mirror!vars, Owed
<1>1. ASSUME NEW i \in Inputs, Edge(i)
      PROVE  Mirror!Change
  <2>1. latch'[i] /\ pin' \in Levels
    BY <1>1 DEF Edge, Inv, TypeOK, Levels
  <2>2. QED
    BY <1>1, <2>1 DEF Edge, Mirror!Change, Mirror!Levels, Levels, Ringing
<1>2. ASSUME NEW i \in Inputs, IsrClear(i)
      PROVE  UNCHANGED <<pin, sent, Owed>>
  <2>1. isr' # None /\ (\E j \in Inputs : latch[j])
    BY <1>2 DEF IsrClear, Inputs, None
  <2>2. Owed /\ Owed'
    BY <2>1 DEF Owed, Ringing
  <2>3. QED
    BY <1>2, <2>2 DEF IsrClear
<1>3. CASE IsrGive
  BY <1>3, GiveIsRing DEF IsrGive, Mirror!Next
<1>4. CASE TimerStart \/ HostQuery
  BY <1>4 DEF TimerStart, HostQuery, Owed, Ringing, Sampling
<1>5. CASE TimerTick
  BY <1>5, GiveIsRing DEF TimerTick, Mirror!Next
<1>6. CASE RecvQuery
  BY <1>6, GiveIsRing DEF RecvQuery, Mirror!Next
<1>7. CASE Connected \/ TakeBegin \/ ScanFirst \/ ScanSecond
  BY <1>7 DEF Connected, TakeBegin, ScanFirst, ScanSecond, Owed, Ringing, Sampling
<1>8. CASE TakeEnd
  <2>1. CASE notify % ValueMod # 0
    <3>1. notify # 0 /\ Sampling'
      BY <1>8, <2>1, StatusAssumption DEF TakeEnd, Sampling
    <3>2. Owed /\ Owed'
      BY <3>1 DEF Owed, Ringing
    <3>3. QED
      BY <1>8, <3>2 DEF TakeEnd
  <2>2. CASE notify % ValueMod = 0
    <3>1. CASE notify = 0
      BY <1>8, <2>2, <3>1 DEF TakeEnd, Owed, Ringing, Sampling
    <3>2. CASE notify # 0
      <4>1. Owed /\ Owed'
        BY <1>8, <2>2, <3>2 DEF TakeEnd, Owed, Ringing
      <4>2. QED
        BY <1>8, <4>1 DEF TakeEnd
    <3>3. QED
      BY <3>1, <3>2
  <2>3. QED
    BY <2>1, <2>2
<1>9. CASE Write
  <2>1. Owed
    BY <1>9 DEF Write, Owed, Sampling
  <2>2. sent' = scan /\ scan \in Levels /\ pin' = pin
    BY <1>9, MessageFaithful DEF Write, Inv, TypeOK
  <2>3. ~Owed' => scan[1] = pin[1] /\ scan[2] = pin[2]
    BY <1>9 DEF Write, Inv, TornScanRepeated, Ringing, Owed
  <2>4. scan[1] = pin[1] /\ scan[2] = pin[2] => scan = pin
    BY DEF Inv, TypeOK, Levels, Inputs
  <2>5. Owed' \in BOOLEAN
    BY DEF Owed, Ringing, Inv, TypeOK
  <2>6. QED
    BY <2>1, <2>2, <2>3, <2>4, <2>5
       DEF Mirror!Next, Mirror!Tell, Mirror!Levels, Levels, Owed
<1>10. CASE UNCHANGED vars
  BY <1>10 DEF vars, Owed, Ringing, Sampling
<1>11. QED
  BY <1>1, <1>2, <1>3, <1>4, <1>5, <1>6, <1>7, <1>8, <1>9, <1>10
     DEF Next, Environment, Isr, Client, Mirror!Next

(* The status path keeps the promise of InputMirror (client, Input_Scan,   *)
(* HAL_GPIO_EXTI_Callback, Swtmr1_Callback, clientrecv).                   *)
THEOREM PathImplementsMirror == Spec => ImplementsMirror
  BY MirrorInit, MirrorNext, Invariance, PTL DEF Spec, ImplementsMirror, Mirror!Spec
=============================================================================
