---------------------------- MODULE ConfigStore ----------------------------
(***************************************************************************)
(* Configuration: a line such as 192.168.2.187:5000 that an operator sends *)
(* over the serial port is put into Usart_Rx_Buf by DMA; when the wire     *)
(* goes idle, I2ceeprom_Task is notified, checks the line, writes its      *)
(* first DATA_Size characters to the EEPROM page by page, answers, and     *)
(* clears the buffer.  The next start reads the EEPROM.                    *)
(*                                                                         *)
(* Text is counted in units, a few characters each: a page is PageSize     *)
(* units and DATA_Size is DataSize units.  Nothing marks the end of a line *)
(* but the idle wire, the buffer receives the next line while the last one *)
(* is still in use, and the UART handle's lock is shared by reception and  *)
(* printf.  Power may fail at any time; what is written stays.             *)
(***************************************************************************)
EXTENDS Integers, Sequences

CONSTANTS
  Short,     (* well-formed lines of DataSize units (18 to 20 characters)  *)
  Long,      (* well-formed lines one unit longer (21 characters)          *)
  Bad,       (* lines sscanf rejects, one unit short of DataSize           *)
  PageSize,  (* EEPROM_PAGESIZE, 8 characters on the target                *)
  DataSize,  (* DATA_Size, 20 characters on the target                     *)
  MaxLines   (* bound: how many lines the operator sends                   *)

(* What the operator may know besides a line that was stored: nothing has  *)
(* been stored yet, or nothing is known.                                   *)
Factory == "factory"
Unknown == "unknown"

ASSUME ConfigAssumption ==
  /\ Short \cap Long = {} /\ Short \cap Bad = {} /\ Long \cap Bad = {}
  /\ {Factory, Unknown} \cap (Short \cup Long \cup Bad) = {}
  /\ PageSize \in Nat \ {0}
  /\ DataSize \in Nat \ {0, 1}
  /\ MaxLines \in Nat

VARIABLES
  lines,     (* how many lines have been begun                             *)
  line,      (* the line on the wire, or the last one                      *)
  sent,      (* how many of its units have been sent                       *)
  seen,      (* a unit has come since the last idle interrupt (RXNE)       *)
  idle,      (* the IDLE flag: its interrupt is pending                    *)
  armed,     (* CR3.DMAR: reception by DMA is on                           *)
  aborting,  (* the DMA's interrupt that ends an abort is pending          *)
  pos,       (* how many units the DMA has put since it was started        *)
  buf,       (* Usart_Rx_Buf                                               *)
  printer,   (* who is in HAL_UART_Transmit and holds UartHandle.Lock      *)
  note,      (* the notification count of I2ceeprom_Task is not zero       *)
  pc,        (* where I2ceeprom_Task is; "off" without power               *)
  todo,      (* the page writes left of I2C_EE_BufferWrite, their lengths  *)
  addr,      (* WriteAddr, where the next of them goes                     *)
  eeprom,    (* the EEPROM from EEP_Firstpage on, DataSize units           *)
  running,   (* what I2C_Read_EE_IP read at the last start                 *)
  clean,     (* history: the line under way came alone, whole, heard     *)
  trusted    (* history: what the answers so far tell the operator         *)

wireVars == <<lines, line, sent>>
rxVars == <<seen, idle, armed, aborting, pos>>
writeVars == <<todo, addr>>
taskVars == <<note, pc, writeVars>>
vars == <<wireVars, rxVars, buf, printer, taskVars, eeprom, running, clean, trusted>>

Lines == Short \cup Long \cup Bad
Good == Short \cup Long
Size(l) == IF l \in Long THEN DataSize + 1 ELSE IF l \in Bad THEN DataSize - 1 ELSE DataSize

(* A unit of text is the i-th of some line; the buffer is zero elsewhere.  *)
Blank == <<>>
BufUnits == 1 .. DataSize + 1
Units == {<<l, i>> : l \in Lines, i \in BufUnits}
Text(l) == [i \in BufUnits |-> IF i <= Size(l) THEN <<l, i>> ELSE Blank]
Zero == [i \in BufUnits |-> Blank]

-----------------------------------------------------------------------------
(* sscanf(text, "%d.%d.%d.%d:%d") == 5: it reads unit after unit as long   *)
(* as each is what its place calls for, and needs the first digit of the   *)
(* port, which a long line has one unit later.  Mixed lines are read too.  *)
Fits(t, j) == t[j] # Blank /\ t[j][1] \in Good /\ t[j][2] = j
Reads(t, n) == \A j \in 1 .. n : Fits(t, j)
Needed(t) == IF t[DataSize - 1] # Blank /\ t[DataSize - 1][1] \in Long THEN DataSize ELSE DataSize - 1
Accepts(t) == Reads(t, Needed(t))

(* The address it finds: the units it read.                                *)
Value(t) == IF Accepts(t) THEN [j \in BufUnits |-> IF Reads(t, j) THEN t[j] ELSE Blank] ELSE Zero

(* What I2C_Read_EE_IP passes to sscanf: the bytes after I2c_Buf_Read are  *)
(* zero at that time in the build of src/Listings/LwIP_F407.map.           *)
Stored(e) == [i \in BufUnits |-> IF i <= DataSize THEN e[i] ELSE Blank]

(* mutant: the rest after the full pages is forgotten                      *)
PageWritesNoRest(a, n) == [i \in 1 .. n \div PageSize |-> PageSize]

(* mutant: one page more than NumOfPage                                    *)
PageWritesOneMore(a, n) ==
  [i \in 1 .. n \div PageSize + 1 |-> PageSize] \o <<n % PageSize>>

(* The lengths of the page writes of I2C_EE_BufferWrite: an unaligned      *)
(* start first fills its page, unless the whole is shorter than a page.    *)
PageWrites(a, n) ==
  LET short == n \div PageSize = 0
      off == a % PageSize
      first == IF off = 0 \/ short THEN 0 ELSE PageSize - off
      rest == n - first
      pages == [i \in 1 .. rest \div PageSize |-> PageSize]
      single == rest % PageSize
  IN  (IF first > 0 THEN <<first>> ELSE <<>>)
      \o pages \o (IF single # 0 THEN <<single>> ELSE <<>>)

TypeOK ==
  /\ lines \in 0 .. MaxLines
  /\ line \in Lines
  /\ sent \in 0 .. Size(line)
  /\ seen \in BOOLEAN /\ idle \in BOOLEAN /\ armed \in BOOLEAN /\ aborting \in BOOLEAN
  /\ pos \in Nat
  /\ buf \in [BufUnits -> Units \cup {Blank}]
  /\ printer \in {"none", "other", "store"}
  /\ note \in BOOLEAN
  /\ pc \in {"off", "wait", "parse", "write", "accept", "reject", "wipe"}
  /\ todo \in Seq(1 .. PageSize) /\ addr \in 0 .. DataSize
  /\ eeprom \in [1 .. DataSize -> Units \cup {Blank}]
  /\ running \in [BufUnits -> Units \cup {Blank}]
  /\ clean \in BOOLEAN
  /\ trusted \in Lines \cup {Factory, Unknown}

Init ==
  /\ lines = 0
  /\ line \in Lines
  /\ sent = Size(line)
  /\ seen = FALSE /\ idle = FALSE /\ armed = TRUE /\ aborting = FALSE
  /\ pos = 0
  /\ buf = Zero
  /\ printer = "none"
  /\ note = FALSE
  /\ pc = "wait"
  /\ todo = <<>>
  /\ addr = 0
  /\ eeprom = [i \in 1 .. DataSize |-> Blank]
  /\ running = Zero
  /\ clean = FALSE
  /\ trusted = Factory

(* Nothing is under way: the last line has been answered.                  *)
Rest == pc = "wait" /\ ~note /\ ~seen /\ ~idle /\ ~aborting

-----------------------------------------------------------------------------
(* The operator begins a line, perhaps before the last one was answered.   *)
Begin(l) ==
  /\ lines < MaxLines
  /\ sent = Size(line)
  /\ lines' = lines + 1
  /\ line' = l
  /\ sent' = 0
  /\ clean' = (Rest /\ armed)
  /\ UNCHANGED <<rxVars, buf, printer, taskVars, eeprom, running, trusted>>

(* A unit comes in: DMA puts it into the buffer if reception is on, and it *)
(* is lost if not.  What lies behind a long line in the buffer is never    *)
(* read, and left out.                                                     *)
Receive ==
  /\ sent < Size(line)
  /\ sent' = sent + 1
  /\ seen' = (pc # "off")
  /\ IF armed /\ pos < DataSize + 1
       THEN /\ buf' = [buf EXCEPT ![pos + 1] = <<line, sent + 1>>]
            /\ pos' = pos + 1
       ELSE UNCHANGED <<buf, pos>>
  /\ UNCHANGED <<lines, line, idle, armed, aborting, printer, taskVars, eeprom,
                 running, clean, trusted>>

(* The wire is idle, after a line or within it.                            *)
Idle ==
  /\ seen /\ ~idle
  /\ idle' = TRUE
  /\ seen' = FALSE
  /\ clean' = (clean /\ sent = Size(line))
  /\ UNCHANGED <<wireVars, armed, aborting, pos, buf, printer, taskVars, eeprom,
                 running, trusted>>

-----------------------------------------------------------------------------
(* mutant: the DMA goes on where it was                                    *)
AbortDoneKeepsPos ==
  /\ note' = TRUE
  /\ armed' = (printer = "none")
  /\ pos' = pos

(* mutant: the task is not notified                                        *)
AbortDoneSilent ==
  /\ note' = note
  /\ armed' = (printer = "none")
  /\ pos' = IF printer = "none" THEN 0 ELSE pos

(* HAL_UART_AbortReceiveCpltCallback: the task is notified, and reception  *)
(* starts again unless HAL_UART_Receive_DMA finds the handle locked.       *)
AbortDone ==
  /\ note' = TRUE
  /\ armed' = (printer = "none")
  /\ pos' = IF printer = "none" THEN 0 ELSE pos

(* DEBUG_USART_IRQHandler: HAL_UART_AbortReceive_IT turns reception off;   *)
(* the DMA's interrupt ends it.  If it was off, the callback runs at once. *)
(* The DMA's interrupt goes first, it has the higher priority.             *)
IdleIrq ==
  /\ idle /\ ~aborting
  /\ idle' = FALSE
  /\ IF armed
       THEN /\ armed' = FALSE
            /\ aborting' = TRUE
            /\ UNCHANGED <<note, pos>>
       ELSE /\ AbortDone
            /\ UNCHANGED aborting
  /\ UNCHANGED <<wireVars, seen, buf, printer, pc, writeVars, eeprom, running, clean, trusted>>

(* DMA2_Stream5_IRQHandler: the stream has stopped.                        *)
AbortIrq ==
  /\ aborting
  /\ aborting' = FALSE
  /\ AbortDone
  /\ UNCHANGED <<wireVars, seen, idle, buf, printer, pc, writeVars, eeprom, running, clean, trusted>>

(* A task of higher priority prints: fputc calls HAL_UART_Transmit.        *)
OtherPrints ==
  /\ pc # "off"
  /\ printer = "none"
  /\ printer' = "other"
  /\ UNCHANGED <<wireVars, rxVars, buf, taskVars, eeprom, running, clean, trusted>>

OtherPrinted ==
  /\ printer = "other"
  /\ printer' = "none"
  /\ UNCHANGED <<wireVars, rxVars, buf, taskVars, eeprom, running, clean, trusted>>

-----------------------------------------------------------------------------
(* I2ceeprom_Task.  It runs only while no other task prints: those have a  *)
(* higher priority and do not block in HAL_UART_Transmit.                  *)
Running(step) == pc = step /\ printer # "other"

Take ==
  /\ Running("wait")
  /\ note
  /\ note' = FALSE
  /\ pc' = "parse"
  /\ UNCHANGED <<wireVars, rxVars, buf, printer, writeVars, eeprom, running, clean, trusted>>

(* The line is checked, and I2C_Write_EE_IP begins at EEP_Firstpage.       *)
Parse ==
  /\ Running("parse")
  /\ IF Accepts(buf)
       THEN todo' = PageWrites(0, DataSize) /\ addr' = 0 /\ pc' = "write"
       ELSE pc' = "reject" /\ UNCHANGED writeVars
  /\ UNCHANGED <<wireVars, rxVars, buf, printer, note, eeprom, running, clean, trusted>>

(* One I2C_EE_PageWrite from the buffer as it is by now.  The chip does    *)
(* not leave the page; an error of the bus goes unnoticed.                 *)
WritePage ==
  /\ Running("write")
  /\ todo # <<>>
  /\ LET page == addr - (addr % PageSize)
         cell(k) == page + ((addr + k) % PageSize) + 1
         data == [k \in 0 .. Head(todo) - 1 |-> buf[addr + k + 1]]
     IN  \/ /\ eeprom' = [i \in 1 .. DataSize |->
                 IF \E k \in DOMAIN data : cell(k) = i
                   THEN data[CHOOSE k \in DOMAIN data : cell(k) = i]
                   ELSE eeprom[i]]
            /\ UNCHANGED clean
         \/ clean' = FALSE /\ UNCHANGED eeprom
  /\ todo' = Tail(todo)
  /\ addr' = addr + Head(todo)
  /\ UNCHANGED <<wireVars, rxVars, buf, printer, note, pc, running, trusted>>

WriteDone ==
  /\ Running("write")
  /\ todo = <<>>
  /\ pc' = "accept"
  /\ addr' = 0
  /\ UNCHANGED <<wireVars, rxVars, buf, printer, note, todo, eeprom, running, clean, trusted>>

(* It prints its answer, one character standing for all of them.           *)
Say ==
  /\ \/ Running("accept")
     \/ Running("reject")
  /\ printer = "none"
  /\ printer' = "store"
  /\ UNCHANGED <<wireVars, rxVars, buf, taskVars, eeprom, running, clean, trusted>>

Said ==
  /\ printer = "store"
  /\ printer' = "none"
  /\ pc' = "wipe"
  /\ trusted' = IF pc = "reject" THEN trusted ELSE IF clean THEN line ELSE Unknown
  /\ UNCHANGED <<wireVars, rxVars, buf, note, writeVars, eeprom, running, clean>>

(* mutant: only what the DMA has reached is cleared                        *)
WipeToPos ==
  /\ Running("wipe")
  /\ buf' = [i \in BufUnits |-> IF i <= pos THEN Blank ELSE buf[i]]
  /\ pc' = "wait"
  /\ UNCHANGED <<wireVars, rxVars, printer, note, writeVars, eeprom, running, clean, trusted>>

(* memset clears the whole buffer, what has just come included.            *)
Wipe ==
  /\ Running("wipe")
  /\ buf' = Zero
  /\ pc' = "wait"
  /\ UNCHANGED <<wireVars, rxVars, printer, note, writeVars, eeprom, running, clean, trusted>>

-----------------------------------------------------------------------------
(* Power fails: only the EEPROM is left.  A write under way is torn.       *)
PowerFails ==
  /\ pc # "off"
  /\ pc' = "off"
  /\ seen' = FALSE /\ idle' = FALSE /\ armed' = FALSE /\ aborting' = FALSE
  /\ pos' = 0
  /\ buf' = Zero
  /\ printer' = "none"
  /\ note' = FALSE
  /\ todo' = <<>> /\ addr' = 0
  /\ running' = Zero
  /\ clean' = FALSE
  /\ trusted' = IF pc \in {"write", "accept"} THEN Unknown ELSE trusted
  /\ UNCHANGED <<wireVars, eeprom>>

(* mutant: the first page only is read                                     *)
StartReadsOnePage ==
  /\ pc = "off"
  /\ pc' = "wait"
  /\ armed' = TRUE
  /\ running' = Value([i \in BufUnits |-> IF i <= PageSize THEN eeprom[i] ELSE Blank])
  /\ UNCHANGED <<wireVars, seen, idle, aborting, pos, buf, printer, note, writeVars, eeprom,
                 clean, trusted>>

(* The module starts (BSP_Init, AppTaskCreate): reception is turned on and *)
(* the EEPROM read; if the bus fails, the address stays 0.0.0.0:0.  The    *)
(* time before the task exists is left out.                                *)
Start ==
  /\ pc = "off"
  /\ pc' = "wait"
  /\ armed' = TRUE
  /\ running' \in {Value(Stored(eeprom)), Zero}
  /\ UNCHANGED <<wireVars, seen, idle, aborting, pos, buf, printer, note, writeVars, eeprom,
                 clean, trusted>>

-----------------------------------------------------------------------------
Operator == \E l \in Lines : Begin(l)
Store == Take \/ Parse \/ WritePage \/ WriteDone \/ Say \/ Said \/ Wipe

Next ==
  \/ Operator \/ Receive \/ Idle
  \/ IdleIrq \/ AbortIrq
  \/ OtherPrints \/ OtherPrinted
  \/ Store
  \/ PowerFails \/ Start

Spec == Init /\ [][Next]_vars

(* Fairness.  The wire goes idle and interrupts are served (weak).  The    *)
(* task has the lowest priority and runs when the others block, which they *)
(* do again and again (strong).                                            *)
FairSpec ==
  /\ Spec
  /\ WF_vars(Idle) /\ WF_vars(IdleIrq) /\ WF_vars(AbortIrq)
  /\ WF_vars(OtherPrinted) /\ SF_vars(Store)

-----------------------------------------------------------------------------
(* Nothing of a line is left in Usart_Rx_Buf when the next begins, however *)
(* units, interrupts and the task interleave (memset in I2ceeprom_Task     *)
(* against the DMA).                                                       *)
BufferCleared == Rest => buf = Zero

(* The EEPROM holds the whole line that was last answered with success, as *)
(* long as lines came alone and the bus did not fail: refused lines, lines *)
(* lost by a deaf receiver and power failures outside of a write leave it  *)
(* alone.  I2C_Write_EE_IP calls 20 characters enough for the longest line *)
(* (bsp_i2c_ee.c:264).                                                     *)
StoredWhole ==
  trusted \in Lines /\ pc \notin {"write", "accept"} => Stored(eeprom) = Text(trusted)

(* A well-formed line that comes alone and whole while reception is on is  *)
(* accepted and a malformed one refused, whatever came before it: nothing  *)
(* of earlier lines, lost or stored, gets into it                          *)
(* (HAL_UART_AbortReceiveCpltCallback and I2ceeprom_Task).                 *)
AnswerRight ==
  clean => /\ pc \in {"write", "accept"} => line \in Good
           /\ pc = "reject" => line \in Bad

(* After a restart the module connects to the server of the last line that *)
(* was answered with success, or to none (I2C_Read_EE_IP).                 *)
RestartObeys ==
  [][pc = "off" /\ pc' = "wait" /\ trusted \in Lines =>
       running' \in {Value(Text(trusted)), Zero}]_vars

(* Whatever comes in is looked at by the task, which answers it, even when *)
(* it was lost to a locked handle; only a power failure prevents it        *)
(* (DEBUG_USART_IRQHandler to I2ceeprom_Task).                             *)
LineHeard == seen ~> (pc = "parse" \/ pc = "off")
=============================================================================
