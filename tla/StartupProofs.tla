--------------------------- MODULE StartupProofs ---------------------------
(***************************************************************************)
(* Proofs about Startup.  Whatever start-up adds, it never touches the     *)
(* variables of EthOutput but through EthOutput's actions, so what is      *)
(* proved there holds of the composition; and the order in which handles   *)
(* are stored is right for every notification but an interrupt's.          *)
(***************************************************************************)
EXTENDS Startup, EthOutputProofs

AfterTimer == {"delete", "exit", "gone"}
AfterEeprom == {"timer", "delete", "exit", "gone"}
AfterRecv == {"eeprom", "timer", "delete", "exit", "gone"}
AfterClient == {"recv", "recvH", "eeprom", "timer", "delete", "exit", "gone"}

StartRanges ==
  /\ boot \in BootSteps
  /\ alive \subseteq Created \cup {Stack}
  /\ handle \subseteq alive \cap Created
  /\ timer \in BOOLEAN
  /\ masked \in BOOLEAN
  /\ address \in BOOLEAN

(* Who has been created has its handle once the next step is reached.      *)
Stored ==
  /\ Recv \in alive => boot \in AfterClient
  /\ boot \in AfterClient /\ Client \in alive => Client \in handle
  /\ boot \in AfterRecv /\ Recv \in alive => Recv \in handle
  /\ Eeprom \in alive => boot \in AfterEeprom /\ Eeprom \in handle
  /\ timer => boot \in AfterTimer

StartInv == StartRanges /\ Stored

-----------------------------------------------------------------------------
(* A step of start-up is a step of transmission or leaves it alone.        *)
LEMMA StartStep == [StartNext]_allVars => [Next]_vars
<1> SUFFICES ASSUME [StartNext]_allVars
             PROVE  [Next]_vars
  OBVIOUS
<1>1. CASE AppTaskCreate
  BY <1>1 DEF AppTaskCreate, BspInit, Main, TcpipInit, DhcpStarted, AddressSeen,
              InitTasks, Create, Store, CreateEeprom, CreateTimer, DeleteSelf, ExitCritical
<1>2. CASE Lease
  BY <1>2 DEF Lease
<1>3. ASSUME NEW s \in Senders, Begin(s) \/ Continue(s)
      PROVE  [Next]_vars
  BY <1>3 DEF Begin, Continue, Next
<1>4. CASE Device
  BY <1>4 DEF Device, Next
<1>5. CASE UNCHANGED allVars
  BY <1>5 DEF allVars
<1>6. QED
  BY <1>1, <1>2, <1>3, <1>4, <1>5 DEF StartNext

(* The composition implements transmission as EthOutput specifies it.      *)
THEOREM StartImplementsOutput == StartSpec => Spec
<1>1. StartInit => Init
  BY DEF StartInit
<1>2. QED
  BY <1>1, StartStep, PTL DEF StartSpec, Spec

(* So ERR_OK keeps its meaning during and after start-up, when             *)
(* AppTaskCreate sends without the core lock (low_level_output).           *)
THEOREM StartAcceptedAreQueued == StartSpec => []AcceptedIsQueued
  BY StartImplementsOutput, AcceptedAreQueued, PTL

(* Frames leave in order, once each, start-up included.                    *)
THEOREM StartImplementsPipe == StartSpec => ImplementsPipe
  BY StartImplementsOutput, RingImplementsPipe, PTL

(* And only the first frame of the TCP/IP thread can be spoilt.             *)
THEOREM StartSpoiltAtMostOnce == StartSpec => []SpoiltOnlyAtStart
  BY StartImplementsOutput, SpoiltAtMostOnce, PTL

-----------------------------------------------------------------------------
LEMMA StartInvInit == StartInit => StartInv
  BY DEF StartInit, StartInv, StartRanges, Stored, BootSteps, AfterClient, AfterRecv,
         AfterEeprom, AfterTimer

LEMMA StartInvNext == StartInv /\ [StartNext]_allVars => StartInv'
<1> SUFFICES ASSUME StartInv, [StartNext]_allVars
             PROVE  StartInv'
  OBVIOUS
<1> USE StartupAssumption, EthOutputAssumption
<1> USE DEF StartInv, StartRanges, Stored, BootSteps, AfterClient, AfterRecv, AfterEeprom,
            AfterTimer, Created, Senders
<1>1. CASE BspInit \/ Main \/ DhcpStarted \/ AddressSeen \/ DeleteSelf \/ ExitCritical
  <2>1. UNCHANGED <<alive, handle, timer, address>> /\ (masked' = masked \/ masked' = FALSE)
    BY <1>1 DEF BspInit, Main, DhcpStarted, AddressSeen, DeleteSelf, ExitCritical
  <2>2. StartRanges'
    BY <1>1, <2>1 DEF BspInit, Main, DhcpStarted, AddressSeen, DeleteSelf, ExitCritical
  <2>3. Stored'
    BY <1>1, <2>1 DEF BspInit, Main, DhcpStarted, AddressSeen, DeleteSelf, ExitCritical
  <2>4. QED
    BY <2>2, <2>3
<1>2. CASE TcpipInit
  BY <1>2 DEF TcpipInit
<1>3. CASE Create("client", Client, "clientH") \/ Create("recv", Recv, "recvH")
  BY <1>3 DEF Create
<1>4. CASE Store("clientH", Client, "recv")
  <2>1. StartRanges'
    BY <1>4 DEF Store
  <2>2. Stored'
    BY <1>4 DEF Store
  <2>3. QED
    BY <2>1, <2>2
<1>5. CASE Store("recvH", Recv, "eeprom")
  <2>1. StartRanges'
    BY <1>5 DEF Store
  <2>2. Stored'
    BY <1>5 DEF Store
  <2>3. QED
    BY <2>1, <2>2
<1>6. CASE CreateEeprom
  <2>1. StartRanges'
    BY <1>6 DEF CreateEeprom
  <2>2. ~timer /\ Eeprom \notin alive
    BY <1>6 DEF CreateEeprom
  <2>3. Client # Eeprom /\ Recv # Eeprom
    OBVIOUS
  <2>4. \A t \in {Client, Recv} : t \in alive' <=> t \in alive
    BY <1>6, <2>3 DEF CreateEeprom
  <2>5. Eeprom \in alive' => Eeprom \in handle'
    BY <1>6, <2>2 DEF CreateEeprom
  <2>6. Stored'
    BY <1>6, <2>2, <2>4, <2>5 DEF CreateEeprom
  <2>7. QED
    BY <2>1, <2>6
<1>7. CASE CreateTimer
  <2>1. timer' \in BOOLEAN
    <3>1. (Eeprom \in alive) \in BOOLEAN
      OBVIOUS
    <3>2. timer' = FALSE \/ timer' = (Eeprom \in alive)
      BY <1>7 DEF CreateTimer
    <3>3. QED
      BY <3>1, <3>2, Zenon
  <2>2. StartRanges'
    BY <1>7, <2>1 DEF CreateTimer
  <2>3. Stored'
    BY <1>7, <2>1 DEF CreateTimer
  <2>4. QED
    BY <2>2, <2>3
<1>8. CASE Lease
  BY <1>8 DEF Lease
<1>9. CASE UNCHANGED startVars
  BY <1>9 DEF startVars
<1>10. QED
  BY <1>1, <1>2, <1>3, <1>4, <1>5, <1>6, <1>7, <1>8, <1>9
     DEF StartNext, AppTaskCreate, InitTasks, Begin, Continue, Device, allVars, startVars

(* The type invariant of the composition.                                  *)
THEOREM StartTypeCorrect == StartSpec => []StartTypeOK
<1>1. StartInv /\ TypeOK => StartTypeOK
  BY DEF StartInv, StartRanges, StartTypeOK
<1>2. Inv => TypeOK
  BY DEF Inv
<1>3. QED
  BY <1>1, <1>2, StartImplementsOutput, Invariance, StartInvInit, StartInvNext, PTL DEF StartSpec

(* A task or the timer never notifies a null handle of a task that exists, *)
(* and after the start-up no handle is missing (client_init,               *)
(* clientrecv_init, AppTaskCreate).                                        *)
THEOREM HandlesStoredInTime == StartSpec => []NullOnlyAtStart
<1>1. StartInv => NullOnlyAtStart
  <2> SUFFICES ASSUME StartInv
               PROVE  NullOnlyAtStart
    OBVIOUS
  <2> USE DEF StartInv, StartRanges, Stored, AfterClient, AfterRecv, AfterEeprom, AfterTimer
  <2>1. ~NotifiesNull("query")
    BY DEF NotifiesNull, Sources
  <2>2. NotifiesNull("tick") => Client \notin alive
    BY DEF NotifiesNull, Sources
  <2>3. boot = "gone" => handle = alive \cap Created
    BY DEF Created
  <2>4. QED
    BY <2>1, <2>2, <2>3 DEF NullOnlyAtStart
<1>2. QED
  BY <1>1, StartInvInit, StartInvNext, PTL DEF StartSpec
=============================================================================
