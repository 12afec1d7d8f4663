------------------------- MODULE ConfigStoreProofs -------------------------
(***************************************************************************)
(* Proofs about ConfigStore, for all sets of lines, every page size, every *)
(* DATA_Size and any number of lines sent: the buffer is empty before a    *)
(* line that comes alone, the answer to it is the right one, no page write *)
(* leaves its page, and what was answered is in the EEPROM up to DATA_Size.*)
(*                                                                         *)
(* A line that comes alone and whole passes three stages: it comes in      *)
(* (Coming), the end of it is signalled from interrupt to interrupt to the *)
(* task (Signalled), and the task answers it (Answering).  In each of them *)
(* the buffer is known unit by unit, and nothing else is under way.  For a *)
(* line to begin so, reception that is on and has been idle must be at the *)
(* start of the buffer (AtStart).                                          *)
(*                                                                         *)
(* While the line is written, the page writes left are those of a text     *)
(* that begins at WriteAddr, because each of them ends where a page does   *)
(* (Planned, from PlanStep); the EEPROM holds the line up to there         *)
(* (Copied); and what has been answered is not written over (Stays).       *)
(***************************************************************************)
EXTENDS ConfigStore, TLAPS

Part(l, n) == [i \in BufUnits |-> IF i <= n THEN <<l, i>> ELSE Blank]
Steps == {"off", "wait", "parse", "write", "accept", "reject", "wipe"}

Ranges ==
  /\ line \in Lines
  /\ sent \in 0 .. Size(line)
  /\ pos \in Nat
  /\ pc \in Steps
  /\ seen \in BOOLEAN /\ idle \in BOOLEAN /\ armed \in BOOLEAN /\ aborting \in BOOLEAN
  /\ note \in BOOLEAN /\ clean \in BOOLEAN
Off ==
  pc = "off" => ~seen /\ ~idle /\ ~armed /\ ~aborting /\ ~note /\ pos = 0 /\ buf = Zero
Printing == printer = "store" => pc \in {"accept", "reject"}
AtStart == armed /\ pos > 0 => seen \/ idle

Coming ==
  /\ pc = "wait" /\ armed /\ ~note /\ ~idle /\ ~aborting
  /\ seen <=> sent > 0
  /\ pos = sent
  /\ buf = Part(line, sent)
Signalled ==
  /\ pc = "wait" /\ ~seen
  /\ sent = Size(line)
  /\ buf = Text(line)
  /\ \/ idle /\ armed /\ ~aborting /\ ~note
     \/ ~idle /\ aborting /\ ~note
     \/ ~idle /\ ~aborting /\ note
Answering ==
  /\ ~seen /\ ~idle /\ ~aborting /\ ~note
  /\ sent = Size(line)
  /\ pc # "off"
  /\ pc = "parse" => buf = Text(line)
  /\ pc \in {"write", "accept"} => line \in Good
  /\ pc = "reject" => line \in Bad
Course == clean => Coming \/ Signalled \/ Answering

Inv == Ranges /\ Off /\ Printing /\ AtStart /\ BufferCleared /\ Course

-----------------------------------------------------------------------------
(* A line has at least one unit and fits the buffer.                       *)
LEMMA SizeInBuffer ==
  ASSUME NEW l \in Lines
  PROVE  /\ Size(l) \in Nat /\ Size(l) >= 1 /\ Size(l) <= DataSize + 1
         /\ Text(l) = Part(l, Size(l))
         /\ Part(l, 0) = Zero
  BY ConfigAssumption DEF Size, Text, Part, Zero, BufUnits

(* A unit is not the empty cell of the buffer.                             *)
LEMMA UnitNotBlank ==
  ASSUME NEW l, NEW j
  PROVE  <<l, j>> # Blank /\ <<l, j>>[1] = l /\ <<l, j>>[2] = j
<1>1. Len(<<l, j>>) = 2 /\ Len(<<>>) = 0
  OBVIOUS
<1>2. QED
  BY <1>1 DEF Blank

(* sscanf accepts what is well-formed and refuses what is not.             *)
LEMMA LineRead ==
  ASSUME NEW l \in Lines
  PROVE  /\ Accepts(Text(l)) => l \in Good
         /\ ~Accepts(Text(l)) => l \in Bad
<1> DEFINE t == Text(l)
<1>1. /\ DataSize \in Nat /\ DataSize >= 2
      /\ DataSize - 1 \in BufUnits /\ 1 \in BufUnits /\ DataSize - 1 <= Size(l)
      /\ Size(l) \in Nat /\ Size(l) <= DataSize + 1
      /\ l \in Good \/ l \in Bad
  BY ConfigAssumption DEF Size, BufUnits, Lines, Good
<1>2. \A j \in BufUnits : j <= Size(l) => t[j] = <<l, j>>
  BY DEF Text
<1>3. \A j \in BufUnits : j <= Size(l) => t[j] # Blank /\ t[j][1] = l /\ t[j][2] = j
  BY <1>2, UnitNotBlank
<1> HIDE DEF t
<1>4. Needed(t) = IF l \in Long THEN DataSize ELSE DataSize - 1
  BY <1>1, <1>3 DEF Needed
<1>5. CASE l \in Good
  <2>1. \A j \in 1 .. Needed(t) : j \in BufUnits /\ j <= Size(l)
    BY <1>1, <1>4, <1>5, ConfigAssumption DEF BufUnits, Size, Good
  <2>2. \A j \in 1 .. Needed(t) : Fits(t, j)
    BY <1>3, <1>5, <2>1 DEF Fits
  <2>3. QED
    BY <1>5, <2>2 DEF Accepts, Reads, t
<1>6. CASE l \in Bad
  <2>1. l \notin Good
    BY <1>6, ConfigAssumption DEF Good
  <2>2. 1 \in 1 .. Needed(t)
    BY <1>1, <1>4
  <2>3. ~Fits(t, 1)
    BY <1>1, <1>3, <2>1 DEF Fits
  <2>4. QED
    BY <1>6, <2>2, <2>3 DEF Accepts, Reads, t
<1>7. QED
  BY <1>1, <1>5, <1>6

LEMMA InitInv == Init => Inv
<1> SUFFICES ASSUME Init
             PROVE  Inv
  OBVIOUS
<1>1. Ranges
  <2>1. line \in Lines /\ sent = Size(line) /\ Size(line) \in Nat
    BY SizeInBuffer DEF Init
  <2>2. sent \in 0 .. Size(line)
    BY <2>1
  <2>3. pos \in Nat /\ pc \in Steps
    BY DEF Init, Steps
  <2>4. /\ seen \in BOOLEAN /\ idle \in BOOLEAN /\ armed \in BOOLEAN /\ aborting \in BOOLEAN
        /\ note \in BOOLEAN /\ clean \in BOOLEAN
    BY DEF Init
  <2>5. QED
    BY <2>1, <2>2, <2>3, <2>4 DEF Ranges
<1>2. QED
  BY <1>1 DEF Init, Inv, Off, Printing, AtStart, BufferCleared, Rest, Course

-----------------------------------------------------------------------------
(* A line that begins while all is at rest starts at the start of the      *)
(* buffer, and its units follow one another there.                         *)
LEMMA BeginKeeps ==
  ASSUME Inv, NEW l \in Lines, Begin(l)
  PROVE  Inv'
<1> USE DEF Begin, rxVars, taskVars, Inv
<1>1. Ranges'
  BY SizeInBuffer DEF Ranges
<1>2. Off' /\ Printing' /\ AtStart' /\ BufferCleared'
  BY DEF Off, Printing, AtStart, BufferCleared, Rest
<1>3. clean' => Coming'
  <2> SUFFICES ASSUME clean'
               PROVE  Coming'
    OBVIOUS
  <2>1. Rest /\ armed /\ buf = Zero
    BY DEF BufferCleared
  <2>2. pos = 0 /\ Zero = Part(l, 0)
    BY <2>1, SizeInBuffer DEF Rest, AtStart, Ranges
  <2>3. QED
    BY <2>1, <2>2 DEF Rest, Coming
<1>4. QED
  BY <1>1, <1>2, <1>3 DEF Course

LEMMA PartGrows ==
  ASSUME NEW l \in Lines, NEW n \in Nat, n < Size(l)
  PROVE  [Part(l, n) EXCEPT ![n + 1] = <<l, n + 1>>] = Part(l, n + 1)
<1>1. n + 1 \in BufUnits /\ BufUnits \subseteq Nat
  BY SizeInBuffer, ConfigAssumption DEF BufUnits
<1>2. ASSUME NEW i \in BufUnits
      PROVE  [Part(l, n) EXCEPT ![n + 1] = <<l, n + 1>>][i] = Part(l, n + 1)[i]
  BY <1>1 DEF Part
<1>3. QED
  BY <1>2 DEF Part

LEMMA ReceiveKeeps ==
  ASSUME Inv, Receive
  PROVE  Inv'
<1> USE DEF Receive, taskVars, Inv
<1>1. Ranges'
  BY SizeInBuffer, ConfigAssumption DEF Ranges
<1>2. Off' /\ Printing' /\ AtStart'
  BY <1>1 DEF Off, Printing, AtStart, Ranges
<1>3. BufferCleared'
  BY DEF Off, Ranges, BufferCleared, Rest
<1>4. Course'
  <2> SUFFICES ASSUME clean
               PROVE  Coming'
    BY DEF Course
  <2>1. Coming
    BY SizeInBuffer DEF Course, Signalled, Answering, Ranges
  <2>2. pos' = sent' /\ sent \in Nat /\ pos < DataSize + 1
    BY <2>1, SizeInBuffer, ConfigAssumption DEF Coming, Ranges
  <2>3. buf' = [buf EXCEPT ![pos + 1] = <<line, sent + 1>>]
    BY <2>1, <2>2 DEF Coming
  <2>4. buf' = Part(line, sent + 1)
    BY <2>1, <2>2, <2>3, PartGrows DEF Coming, Ranges
  <2>5. sent' = sent + 1 /\ sent + 1 > 0
    BY <2>2
  <2>6. seen' /\ UNCHANGED <<line, pc, armed, note, idle, aborting>>
    BY <2>1 DEF Coming
  <2>7. QED
    BY <2>1, <2>2, <2>4, <2>5, <2>6 DEF Coming
<1>5. QED
  BY <1>1, <1>2, <1>3, <1>4

(* The idle wire and the two interrupts hand the line on.                  *)
LEMMA IdleKeeps ==
  ASSUME Inv, Idle
  PROVE  Inv'
<1> USE DEF Idle, taskVars, wireVars, Inv
<1>1. Ranges' /\ Off' /\ Printing' /\ AtStart' /\ BufferCleared'
  BY DEF Ranges, Off, Printing, AtStart, BufferCleared, Rest
<1>2. Course'
  <2> SUFFICES ASSUME clean, sent = Size(line)
               PROVE  Signalled'
    BY DEF Course
  <2>1. Coming
    BY DEF Course, Signalled, Answering
  <2>2. buf' = Text(line)
    BY <2>1, SizeInBuffer DEF Coming, Ranges
  <2>3. QED
    BY <2>1, <2>2 DEF Coming, Signalled, Text, Size
<1>3. QED
  BY <1>1, <1>2

LEMMA InterruptsKeep ==
  ASSUME Inv, IdleIrq \/ AbortIrq
  PROVE  Inv'
<1> USE DEF IdleIrq, AbortIrq, AbortDone, wireVars, Inv
<1>1. Ranges' /\ Off' /\ Printing' /\ AtStart' /\ BufferCleared'
  <2>1. /\ UNCHANGED <<line, sent, seen, buf, printer, pc, clean>>
        /\ pc # "off" /\ pos' \in Nat
    BY DEF Ranges, Off
  <2>2. note' \/ aborting'
    OBVIOUS
  <2>3. armed' => pos' = 0
    OBVIOUS
  <2>4. idle' \in BOOLEAN /\ aborting' \in BOOLEAN /\ note' \in BOOLEAN /\ armed' \in BOOLEAN
    <3>1. CASE IdleIrq
      BY <3>1, Zenon DEF Ranges
    <3>2. CASE AbortIrq
      BY <3>2, Zenon DEF Ranges
    <3>3. QED
      BY <3>1, <3>2
  <2>5. QED
    BY <2>1, <2>2, <2>3, <2>4 DEF Ranges, Off, Printing, AtStart, BufferCleared, Rest
<1>2. Course'
  <2> SUFFICES ASSUME clean
               PROVE  Signalled'
    BY DEF Course
  <2>1. Signalled
    BY DEF Course, Coming, Answering
  <2>2. UNCHANGED <<line, sent, seen, buf, pc>>
    OBVIOUS
  <2>3. \/ ~idle' /\ aborting' /\ ~note'
        \/ ~idle' /\ ~aborting' /\ note'
    BY <2>1 DEF Signalled
  <2>4. QED
    BY <2>1, <2>2, <2>3 DEF Signalled
<1>3. QED
  BY <1>1, <1>2

-----------------------------------------------------------------------------
(* The task takes the line, reads it from the buffer, and answers.         *)
LEMMA TakeKeeps ==
  ASSUME Inv, Take
  PROVE  Inv'
<1> USE DEF Take, Running, wireVars, rxVars, Inv
<1>1. Ranges' /\ Off' /\ Printing' /\ AtStart' /\ BufferCleared'
  BY DEF Ranges, Off, Printing, AtStart, BufferCleared, Rest, Steps
<1>2. Course'
  <2> SUFFICES ASSUME clean
               PROVE  Answering'
    BY DEF Course
  <2>1. Signalled /\ note
    BY DEF Course, Coming, Answering
  <2>2. QED
    BY <2>1 DEF Signalled, Answering, Text, Size
<1>3. QED
  BY <1>1, <1>2

LEMMA ParseKeeps ==
  ASSUME Inv, Parse
  PROVE  Inv'
<1> USE DEF Parse, Running, wireVars, rxVars, Inv
<1>1. Ranges' /\ Off' /\ Printing' /\ AtStart' /\ BufferCleared'
  BY DEF Ranges, Off, Printing, AtStart, BufferCleared, Rest, Steps
<1>2. Course'
  <2> SUFFICES ASSUME clean
               PROVE  Answering'
    BY DEF Course
  <2>1. Answering /\ buf = Text(line)
    BY DEF Course, Coming, Signalled, Answering
  <2>2. /\ pc' \in {"write", "reject"}
        /\ pc' = "write" => line \in Good
        /\ pc' = "reject" => line \in Bad
    BY <2>1, LineRead DEF Ranges
  <2>3. QED
    BY <2>1, <2>2 DEF Answering, Size
<1>3. QED
  BY <1>1, <1>2

LEMMA AnswerKeeps ==
  ASSUME Inv, WritePage \/ WriteDone \/ Say \/ Said \/ Wipe
  PROVE  Inv'
<1> USE DEF Inv
<1>1. /\ UNCHANGED <<line, sent, seen, idle, armed, aborting, pos, note>>
      /\ pc \in {"write", "accept", "reject", "wipe"}
      /\ clean' \in BOOLEAN
      /\ clean' => clean
  <2>1. CASE WritePage
    <3>1. clean' = clean \/ clean' = FALSE
      BY <2>1 DEF WritePage
    <3>2. /\ UNCHANGED <<line, sent, seen, idle, armed, aborting, pos, note>>
          /\ pc = "write"
      BY <2>1 DEF WritePage, Running, wireVars, rxVars
    <3>3. CASE clean' = clean
      BY <3>2, <3>3 DEF Ranges
    <3>4. CASE clean' = FALSE
      BY <3>2, <3>4
    <3>5. QED
      BY <3>1, <3>3, <3>4
  <2>2. CASE WriteDone \/ Say \/ Said \/ Wipe
    BY <2>2 DEF WriteDone, Say, Said, Wipe, Running, wireVars, rxVars, taskVars,
                Printing, Ranges
  <2>3. QED
    BY <2>1, <2>2
<1>2. /\ pc' \in Steps \ {"off", "parse"}
      /\ pc' = "wait" => buf' = Zero
      /\ pc' = "reject" => pc = "reject"
      /\ pc' \in {"write", "accept"} => pc \in {"write", "accept"}
      /\ printer' = "store" => pc' \in {"accept", "reject"}
  BY <1>1 DEF WritePage, WriteDone, Say, Said, Wipe, Running, wireVars, rxVars, taskVars,
         Printing, Steps
<1>3. Ranges' /\ Off' /\ Printing' /\ AtStart' /\ BufferCleared'
  <2>1. Ranges' /\ Off' /\ AtStart'
    BY <1>1, <1>2 DEF Ranges, Off, AtStart
  <2>2. Printing' /\ BufferCleared'
    BY <1>2 DEF Printing, BufferCleared, Rest
  <2>3. QED
    BY <2>1, <2>2
<1>4. Course'
  <2> SUFFICES ASSUME clean
               PROVE  Answering'
    BY <1>1 DEF Course
  <2>1. Answering
    BY <1>1 DEF Course, Coming, Signalled
  <2>2. QED
    BY <1>1, <1>2, <2>1 DEF Answering, Size
<1>5. QED
  BY <1>3, <1>4

-----------------------------------------------------------------------------
(* Other tasks print; power fails and comes back.                          *)
LEMMA OthersKeep ==
  ASSUME Inv, OtherPrints \/ OtherPrinted \/ UNCHANGED vars
  PROVE  Inv'
<1>1. /\ UNCHANGED <<wireVars, rxVars, buf, taskVars, clean>>
      /\ printer' = "store" => printer = "store"
  BY DEF OtherPrints, OtherPrinted, vars
<1>2. Ranges' /\ Off' /\ Printing' /\ AtStart' /\ BufferCleared'
  BY <1>1 DEF wireVars, rxVars, taskVars, Inv, Ranges, Off, Printing, AtStart,
              BufferCleared, Rest
<1>3. Coming' = Coming /\ Signalled' = Signalled /\ Answering' = Answering
  BY <1>1 DEF wireVars, rxVars, taskVars, Coming, Signalled, Answering, Text, Size
<1>4. QED
  BY <1>1, <1>2, <1>3 DEF Inv, Course

LEMMA PowerKeeps ==
  ASSUME Inv, PowerFails \/ Start
  PROVE  Inv'
<1>1. ~clean'
  BY DEF PowerFails, Start, Inv, Course, Coming, Signalled, Answering
<1>2. UNCHANGED <<line, sent>>
  BY DEF PowerFails, Start, wireVars
<1>3. Ranges' /\ Off' /\ Printing' /\ AtStart' /\ BufferCleared'
  <2>1. CASE PowerFails
    BY <1>1, <1>2, <2>1 DEF PowerFails, Inv, Ranges, Steps, Off, Printing, AtStart,
                            BufferCleared, Rest
  <2>2. CASE Start
    BY <1>1, <1>2, <2>2 DEF Start, Inv, Ranges, Steps, Off, Printing, AtStart,
                            BufferCleared, Rest
  <2>3. QED
    BY <2>1, <2>2
<1>4. QED
  BY <1>1, <1>3 DEF Inv, Course

LEMMA NextInv == Inv /\ [Next]_vars => Inv'
<1> SUFFICES ASSUME Inv, [Next]_vars
             PROVE  Inv'
  OBVIOUS
<1>1. ASSUME NEW l \in Lines, Begin(l)
      PROVE  Inv'
  BY <1>1, BeginKeeps
<1>2. CASE Receive \/ Idle \/ IdleIrq \/ AbortIrq
  BY <1>2, ReceiveKeeps, IdleKeeps, InterruptsKeep
<1>3. CASE Store
  BY <1>3, TakeKeeps, ParseKeeps, AnswerKeeps DEF Store
<1>4. CASE OtherPrints \/ OtherPrinted \/ UNCHANGED vars
  BY <1>4, OthersKeep
<1>5. CASE PowerFails \/ Start
  BY <1>5, PowerKeeps
<1>6. QED
  BY <1>1, <1>2, <1>3, <1>4, <1>5 DEF Next, Operator

(* The inductive invariant holds in every reachable state.                 *)
THEOREM Invariance == Spec => []Inv
<1>1. QED
  BY InitInv, NextInv, PTL DEF Spec

(* Whatever units, interrupts, the task and power failures do between, the *)
(* buffer is empty when nothing is under way (memset in I2ceeprom_Task).   *)
THEOREM BufferIsCleared == Spec => []BufferCleared
<1>1. Inv => BufferCleared
  BY DEF Inv
<1>2. QED
  BY <1>1, Invariance, PTL

(* A line that comes alone and whole is accepted if it is well-formed and  *)
(* refused if it is not, for every length of line and page, whatever came  *)
(* before (HAL_UART_AbortReceiveCpltCallback and I2ceeprom_Task).          *)
THEOREM AnswersAreRight == Spec => []AnswerRight
<1>1. Inv => AnswerRight
  BY DEF Inv, AnswerRight, Course, Coming, Signalled, Answering
<1>2. QED
  BY <1>1, Invariance, PTL

-----------------------------------------------------------------------------
(* The page size divides a length into full pages and a rest.              *)
LEMMA Division ==
  ASSUME NEW n \in Nat
  PROVE  /\ n \div PageSize \in Nat
         /\ n % PageSize \in Nat /\ n % PageSize < PageSize
         /\ n = PageSize * (n \div PageSize) + (n % PageSize)
         /\ n < PageSize => n \div PageSize = 0 /\ n % PageSize = n
  BY ConfigAssumption

(* The full pages and the rest are the only such parts of a length.        *)
LEMMA Quotient ==
  ASSUME NEW q \in Nat, NEW r \in Nat, r < PageSize
  PROVE  (PageSize * q + r) \div PageSize = q /\ (PageSize * q + r) % PageSize = r
  BY ConfigAssumption

(* A page more is one more full page, with the same rest.                  *)
LEMMA NextPage ==
  ASSUME NEW n \in Nat
  PROVE  /\ (n + PageSize) \div PageSize = n \div PageSize + 1
         /\ (n + PageSize) % PageSize = n % PageSize
<1> DEFINE q == n \div PageSize r == n % PageSize
<1>1. /\ q \in Nat /\ r \in Nat /\ r < PageSize /\ n = PageSize * q + r
      /\ PageSize \in Nat
  BY Division, ConfigAssumption
<1> HIDE DEF q, r
<1>2. n + PageSize = PageSize * (q + 1) + r
  BY <1>1
<1>3. (n + PageSize) \div PageSize = q + 1 /\ (n + PageSize) % PageSize = r
  BY <1>1, <1>2, Quotient
<1>4. QED
  BY <1>3 DEF q, r

(* An aligned start plans full pages, then the rest.                       *)
Single(n) == IF n % PageSize # 0 THEN <<n % PageSize>> ELSE <<>>
Pages(q) == [i \in 1 .. q |-> PageSize]

(* The plan's parts are sequences of lengths.                              *)
LEMMA PagesType ==
  ASSUME NEW q \in Nat
  PROVE  /\ Pages(q) \in Seq(Nat) /\ Len(Pages(q)) = q
         /\ \A i \in 1 .. q : Pages(q)[i] = PageSize
  BY ConfigAssumption DEF Pages

(* Nothing before or after a sequence leaves it as it is.                  *)
LEMMA EmptyConcat ==
  ASSUME NEW s \in Seq(Nat)
  PROVE  <<>> \o s = s /\ s \o <<>> = s /\ (Len(s) = 0 => s = <<>>)
  OBVIOUS

(* The plan of an aligned start: full pages, then the rest.                *)
LEMMA AlignedPlan ==
  ASSUME NEW a \in Nat, NEW n \in Nat, a % PageSize = 0
  PROVE  PageWrites(a, n) = Pages(n \div PageSize) \o Single(n)
<1> DEFINE p == Pages(n \div PageSize)
<1>1. n - 0 = n /\ ~(0 > 0)
  OBVIOUS
<1>2. PageWrites(a, n) = (<<>> \o p) \o Single(n)
  BY <1>1 DEF PageWrites, Pages, Single
<1>3. <<>> \o p = p
  BY Division, PagesType, EmptyConcat
<1>4. QED
  BY <1>2, <1>3

(* The plan of no text at all is empty.                                    *)
LEMMA NothingToWrite ==
  ASSUME NEW a \in Nat
  PROVE  PageWrites(a, 0) = <<>>
<1>1. 0 \div PageSize = 0 /\ 0 % PageSize = 0 /\ 0 - 0 = 0
  BY ConfigAssumption
<1>2. PageWrites(a, 0) = (<<>> \o Pages(0)) \o <<>>
  BY <1>1 DEF PageWrites, Pages
<1>3. Pages(0) = <<>>
  BY PagesType, EmptyConcat
<1>4. QED
  BY <1>2, <1>3, EmptyConcat

(* Sequences of one length that agree everywhere are the same.             *)
LEMMA SameSeq ==
  ASSUME NEW u \in Seq(Nat), NEW v \in Seq(Nat), Len(u) = Len(v),
         \A i \in 1 .. Len(u) : u[i] = v[i]
  PROVE  u = v
  OBVIOUS

(* A sequence that is another one shifted by one has it for its tail.      *)
LEMMA Ahead ==
  ASSUME NEW u \in Seq(Nat), NEW v \in Seq(Nat), Len(u) = Len(v) + 1,
         \A i \in 1 .. Len(v) : u[i + 1] = v[i]
  PROVE  u # <<>> /\ Head(u) = u[1] /\ Tail(u) = v
<1>1. u # <<>> /\ Tail(u) \in Seq(Nat) /\ Len(Tail(u)) = Len(v)
  OBVIOUS
<1>2. \A i \in 1 .. Len(Tail(u)) : Tail(u)[i] = v[i]
  BY <1>1
<1>3. Tail(u) = v
  BY <1>1, <1>2, SameSeq
<1>4. QED
  BY <1>1, <1>3

(* What a joined sequence is made of.                                      *)
LEMMA Concat ==
  ASSUME NEW S, NEW u \in Seq(S), NEW v \in Seq(S)
  PROVE  /\ u \o v \in Seq(S) /\ Len(u \o v) = Len(u) + Len(v)
         /\ Len(u) \in Nat /\ Len(v) \in Nat
         /\ \A i \in 1 .. Len(u) + Len(v) :
              (u \o v)[i] = IF i <= Len(u) THEN u[i] ELSE v[i - Len(u)]
<1>1. Len(u) \in Nat /\ Len(v) \in Nat
  OBVIOUS
<1>2. u \o v \in Seq(S) /\ Len(u \o v) = Len(u) + Len(v)
  OBVIOUS
<1>3. ASSUME NEW i \in 1 .. Len(u) + Len(v)
      PROVE  (u \o v)[i] = IF i <= Len(u) THEN u[i] ELSE v[i - Len(u)]
  BY <1>1
<1>4. QED
  BY <1>1, <1>2, <1>3

(* One page write done, one full page less is left.                        *)
LEMMA TailOfPages ==
  ASSUME NEW q \in Nat, NEW s \in Seq(Nat)
  PROVE  /\ Pages(q + 1) \o s # <<>>
         /\ Head(Pages(q + 1) \o s) = PageSize
         /\ Tail(Pages(q + 1) \o s) = Pages(q) \o s
<1> SUFFICES ASSUME NEW p \in Seq(Nat), NEW p1 \in Seq(Nat),
                    Len(p) = q, Len(p1) = q + 1,
                    \A i \in 1 .. q : p[i] = PageSize,
                    \A i \in 1 .. q + 1 : p1[i] = PageSize
             PROVE  /\ p1 \o s # <<>>
                    /\ Head(p1 \o s) = PageSize
                    /\ Tail(p1 \o s) = p \o s
  <2>1. q + 1 \in Nat
    OBVIOUS
  <2>2. QED
    BY <2>1, PagesType
<1>1. /\ p1 \o s \in Seq(Nat) /\ Len(p1 \o s) = q + 1 + Len(s) /\ Len(s) \in Nat
      /\ \A i \in 1 .. q + 1 + Len(s) :
           (p1 \o s)[i] = IF i <= q + 1 THEN p1[i] ELSE s[i - (q + 1)]
  <2>1. /\ p1 \o s \in Seq(Nat) /\ Len(p1 \o s) = Len(p1) + Len(s) /\ Len(s) \in Nat
        /\ \A i \in 1 .. Len(p1) + Len(s) :
             (p1 \o s)[i] = IF i <= Len(p1) THEN p1[i] ELSE s[i - Len(p1)]
    BY Concat, Zenon
  <2>2. QED
    BY <2>1
<1>2. /\ p \o s \in Seq(Nat) /\ Len(p \o s) = q + Len(s)
      /\ \A i \in 1 .. q + Len(s) : (p \o s)[i] = IF i <= q THEN p[i] ELSE s[i - q]
  <2>1. /\ p \o s \in Seq(Nat) /\ Len(p \o s) = Len(p) + Len(s)
        /\ \A i \in 1 .. Len(p) + Len(s) :
             (p \o s)[i] = IF i <= Len(p) THEN p[i] ELSE s[i - Len(p)]
    BY Concat, Zenon
  <2>2. QED
    BY <2>1
<1>3. ASSUME NEW i \in 1 .. q + Len(s)
      PROVE  (p1 \o s)[i + 1] = (p \o s)[i]
  <2>1. i + 1 \in 1 .. q + 1 + Len(s) /\ i + 1 - (q + 1) = i - q
    OBVIOUS
  <2>2. CASE i <= q
    BY <1>1, <1>2, <2>1, <2>2
  <2>3. CASE ~(i <= q)
    <3>1. ~(i + 1 <= q + 1)
      BY <2>3
    <3>2. (p1 \o s)[i + 1] = s[i + 1 - (q + 1)]
      BY <1>1, <2>1, <3>1
    <3>3. (p \o s)[i] = s[i - q]
      BY <1>2, <2>3
    <3>4. QED
      BY <2>1, <3>2, <3>3
  <2>4. QED
    BY <2>2, <2>3
<1>4. (p1 \o s)[1] = PageSize
  BY <1>1
<1>5. /\ Len(p1 \o s) = Len(p \o s) + 1
      /\ \A i \in 1 .. Len(p \o s) : (p1 \o s)[i + 1] = (p \o s)[i]
  <2>1. Len(p1 \o s) = q + 1 + Len(s) /\ Len(p \o s) = q + Len(s) /\ Len(s) \in Nat
    BY <1>1, <1>2
  <2>2. QED
    BY <2>1, <1>3
<1> DEFINE u == p1 \o s v == p \o s
<1>6. u \in Seq(Nat) /\ v \in Seq(Nat)
  BY <1>1, <1>2
<1>7. /\ Len(u) = Len(v) + 1
      /\ \A i \in 1 .. Len(v) : u[i + 1] = v[i]
  BY <1>5
<1>8. u[1] = PageSize
  BY <1>4
<1> HIDE DEF u, v
<1>9. u # <<>> /\ Head(u) = PageSize /\ Tail(u) = v
  BY <1>6, <1>7, <1>8, Ahead
<1>10. QED
  BY <1>9 DEF u, v

(* Lengths within a page, joined, are lengths within a page.               *)
LEMMA Joined ==
  ASSUME NEW S
  PROVE  /\ <<>> \in Seq(S) /\ \A x \in S : <<x>> \in Seq(S)
         /\ \A u, v \in Seq(S) : u \o v \in Seq(S)
  OBVIOUS

(* The plan from the start: no page write is longer than a page.           *)
LEMMA PlanType ==
  ASSUME NEW n \in Nat
  PROVE  /\ PageWrites(0, n) = Pages(n \div PageSize) \o Single(n)
         /\ PageWrites(0, n) \in Seq(1 .. PageSize)
<1>1. 0 % PageSize = 0
  BY ConfigAssumption
<1>2. PageSize \in 1 .. PageSize /\ n \div PageSize \in Nat
  BY Division, ConfigAssumption
<1>3. Pages(n \div PageSize) \in Seq(1 .. PageSize)
  BY <1>2 DEF Pages
<1>4. Single(n) \in Seq(1 .. PageSize)
  <2>1. CASE n % PageSize = 0
    BY <2>1, Joined DEF Single
  <2>2. CASE n % PageSize # 0
    <3>1. n % PageSize \in 1 .. PageSize
      BY <2>2, Division, ConfigAssumption
    <3>2. QED
      BY <2>2, <3>1, Joined DEF Single
  <2>3. QED
    BY <2>1, <2>2
<1>5. QED
  BY <1>1, <1>3, <1>4, AlignedPlan, Joined

(* After a page write what is left is the plan from the next address on.   *)
Piece(n) == IF n < PageSize THEN n ELSE PageSize
LEMMA PlanStep ==
  ASSUME NEW a \in Nat, NEW n \in Nat, n > 0, a % PageSize = 0
  PROVE  /\ PageWrites(a, n) # <<>> /\ Head(PageWrites(a, n)) = Piece(n)
         /\ Tail(PageWrites(a, n)) = PageWrites(a + Piece(n), n - Piece(n))
         /\ (a + Piece(n)) % PageSize = 0 \/ n - Piece(n) = 0
         /\ Piece(n) \in 1 .. PageSize /\ Piece(n) <= n
<1>1. PageSize \in Nat /\ PageSize > 0
  BY ConfigAssumption
<1>2. PageWrites(a, n) = Pages(n \div PageSize) \o Single(n)
  BY AlignedPlan
<1>3. CASE n < PageSize
  <2>1. n \div PageSize = 0 /\ n % PageSize = n /\ n # 0
    BY <1>1, <1>3, Division
  <2>2. Pages(0) = <<>> /\ Single(n) = <<n>> /\ <<n>> \in Seq(Nat)
    BY <2>1, PagesType, EmptyConcat DEF Single
  <2>3. PageWrites(a, n) = <<n>>
    BY <1>2, <2>1, <2>2, EmptyConcat
  <2>4. Piece(n) = n /\ n - n = 0 /\ a + n \in Nat
    BY <1>3 DEF Piece
  <2>5. <<n>> # <<>> /\ Head(<<n>>) = n /\ Tail(<<n>>) = <<>>
    OBVIOUS
  <2>6. QED
    BY <1>1, <1>3, <2>3, <2>4, <2>5, NothingToWrite
<1>4. CASE ~(n < PageSize)
  <2>1. n - PageSize \in Nat /\ n = (n - PageSize) + PageSize /\ Piece(n) = PageSize
    BY <1>1, <1>4 DEF Piece
  <2> DEFINE q == (n - PageSize) \div PageSize
  <2>2. q \in Nat /\ n \div PageSize = q + 1 /\ n % PageSize = (n - PageSize) % PageSize
    BY <2>1, NextPage, Division
  <2>3. (a + PageSize) % PageSize = 0 /\ a + PageSize \in Nat
    BY <1>1, NextPage
  <2>4. PageWrites(a + PageSize, n - PageSize) = Pages(q) \o Single(n - PageSize)
    BY <2>1, <2>3, AlignedPlan
  <2>5. Single(n - PageSize) = Single(n) /\ Single(n) \in Seq(Nat)
    <3>1. n % PageSize \in Nat
      BY Division
    <3>2. QED
      BY <2>2, <3>1, Joined DEF Single
  <2>6. PageWrites(a, n) = Pages(q + 1) \o Single(n)
    BY <1>2, <2>2
  <2> HIDE DEF q
  <2>7. /\ PageWrites(a, n) # <<>> /\ Head(PageWrites(a, n)) = PageSize
        /\ Tail(PageWrites(a, n)) = PageWrites(a + PageSize, n - PageSize)
    <3>1. /\ Pages(q + 1) \o Single(n) # <<>>
          /\ Head(Pages(q + 1) \o Single(n)) = PageSize
          /\ Tail(Pages(q + 1) \o Single(n)) = Pages(q) \o Single(n)
      BY <2>2, <2>5, TailOfPages
    <3>2. Pages(q) \o Single(n) = PageWrites(a + PageSize, n - PageSize)
      BY <2>4, <2>5
    <3>3. QED
      BY <2>6, <3>1, <3>2, Zenon
  <2>8. PageSize \in 1 .. PageSize /\ PageSize <= n
    BY <1>1, <1>4
  <2>9. QED
    BY <2>1, <2>3, <2>7, <2>8
<1>5. QED
  BY <1>3, <1>4

(* A write from an aligned address does not wrap.                          *)
LEMMA Aligned ==
  ASSUME NEW a \in Nat, a % PageSize = 0, NEW k \in Nat, k < PageSize
  PROVE  (a + k) % PageSize = k
<1> DEFINE q == a \div PageSize
<1>1. a = PageSize * q + (a % PageSize) /\ q \in Nat
  BY Division
<1> HIDE DEF q
<1>2. a + k = PageSize * q + k
  BY <1>1, ConfigAssumption
<1>3. QED
  BY <1>1, <1>2, Quotient

(* What WritePage leaves in cell i of the EEPROM.                          *)
Cell(a, h, b, e, i) ==
  LET page == a - (a % PageSize)
      cell(k) == page + ((a + k) % PageSize) + 1
      data == [k \in 0 .. h - 1 |-> b[a + k + 1]]
  IN  IF \E k \in DOMAIN data : cell(k) = i
        THEN data[CHOOSE k \in DOMAIN data : cell(k) = i]
        ELSE e[i]
(* A page write from an aligned address puts the text of the buffer where  *)
(* it belongs, and nothing elsewhere.                                      *)
LEMMA PageWritten ==
  ASSUME NEW a \in Nat, a % PageSize = 0, NEW h \in 1 .. PageSize, NEW b, NEW e,
         NEW i \in 1 .. DataSize
  PROVE  Cell(a, h, b, e, i) = IF i \in a + 1 .. a + h THEN b[i] ELSE e[i]
<1> DEFINE page == a - (a % PageSize)
           cell(k) == page + ((a + k) % PageSize) + 1
           data == [k \in 0 .. h - 1 |-> b[a + k + 1]]
<1>1. \A k \in 0 .. h - 1 : cell(k) = a + k + 1
  <2> SUFFICES ASSUME NEW k \in 0 .. h - 1
               PROVE  cell(k) = a + k + 1
    OBVIOUS
  <2>1. (a + k) % PageSize = k
    BY Aligned, ConfigAssumption
  <2>2. QED
    BY <2>1
<1>2. DOMAIN data = 0 .. h - 1 /\ \A k \in 0 .. h - 1 : data[k] = b[a + k + 1]
  OBVIOUS
<1> HIDE DEF cell, data
<1>3. CASE i \in a + 1 .. a + h
  <2>1. i - a - 1 \in 0 .. h - 1 /\ a + (i - a - 1) + 1 = i
    BY <1>3
  <2>2. \E k \in DOMAIN data : cell(k) = i
    BY <1>1, <1>2, <2>1
  <2> DEFINE c == CHOOSE k \in DOMAIN data : cell(k) = i
  <2>3. c \in 0 .. h - 1 /\ cell(c) = i
    BY <1>2, <2>2
  <2> HIDE DEF c
  <2>4. a + c + 1 = i /\ data[c] = b[a + c + 1]
    BY <1>1, <1>2, <2>3
  <2>5. QED
    BY <1>3, <2>2, <2>4 DEF c, cell, data, Cell
<1>4. CASE i \notin a + 1 .. a + h
  <2>1. ~ \E k \in DOMAIN data : cell(k) = i
    BY <1>1, <1>2, <1>4
  <2>2. QED
    BY <1>4, <2>1 DEF cell, data, Cell
<1>5. QED
  BY <1>3, <1>4

-----------------------------------------------------------------------------
(* What is written.  While the task writes, what is left is the plan from  *)
(* WriteAddr on (Planned); of a line that came alone what lies before it   *)
(* is in the EEPROM (Copied); and what was answered stays there up to      *)
(* DATA_Size (Stays).                                                      *)
Busy == {"write", "accept"}
Planned ==
  pc = "write" =>
    /\ addr \in 0 .. DataSize
    /\ todo = PageWrites(addr, DataSize - addr)
    /\ addr % PageSize = 0 \/ addr = DataSize
Copied ==
  clean /\ pc \in Busy =>
    /\ buf = Text(line)
    /\ \A i \in 1 .. DataSize : pc = "accept" \/ i <= addr => eeprom[i] = Text(line)[i]
Stays ==
  trusted \in Lines =>
    /\ trusted \in Good
    /\ pc \notin Busy => \A i \in 1 .. DataSize : eeprom[i] = Text(trusted)[i]

(* What the plan and the address are before and after a page write.        *)
LEMMA NextWrite ==
  ASSUME Planned, pc = "write"
  PROVE  /\ todo = <<>> <=> addr = DataSize
         /\ todo # <<>> =>
              /\ Head(todo) = Piece(DataSize - addr) /\ Head(todo) \in 1 .. PageSize
              /\ addr % PageSize = 0 /\ addr + Head(todo) \in 0 .. DataSize
              /\ Tail(todo) = PageWrites(addr + Head(todo), DataSize - (addr + Head(todo)))
              /\ (addr + Head(todo)) % PageSize = 0 \/ addr + Head(todo) = DataSize
<1>1. addr \in Nat /\ DataSize \in Nat /\ DataSize - addr \in Nat
  BY ConfigAssumption DEF Planned
<1>2. CASE addr = DataSize
  BY <1>1, <1>2, NothingToWrite DEF Planned
<1>3. CASE addr # DataSize
  <2> DEFINE n == DataSize - addr
  <2>1. n \in Nat /\ n > 0 /\ addr % PageSize = 0 /\ todo = PageWrites(addr, n)
    BY <1>1, <1>3 DEF Planned
  <2>2. /\ todo # <<>> /\ Head(todo) = Piece(n)
        /\ Tail(todo) = PageWrites(addr + Piece(n), n - Piece(n))
        /\ (addr + Piece(n)) % PageSize = 0 \/ n - Piece(n) = 0
        /\ Piece(n) \in 1 .. PageSize /\ Piece(n) <= n
    BY <1>1, <2>1, PlanStep
  <2>3. /\ n - Piece(n) = DataSize - (addr + Piece(n))
        /\ addr + Piece(n) \in 0 .. DataSize
        /\ n - Piece(n) = 0 => addr + Piece(n) = DataSize
    <3>1. Piece(n) \in Nat /\ Piece(n) <= DataSize - addr
      BY <2>2, ConfigAssumption
    <3>2. QED
      BY <1>1, <3>1
  <2>4. QED
    BY <1>3, <2>1, <2>2, <2>3
<1>4. QED
  BY <1>2, <1>3

(* What a page write puts into the EEPROM.                                 *)
LEMMA WritePut ==
  ASSUME Planned, WritePage
  PROVE  \/ /\ \A i \in 1 .. DataSize :
                 eeprom'[i] = IF i \in addr + 1 .. addr + Head(todo) THEN buf[i] ELSE eeprom[i]
            /\ clean' = clean
         \/ ~clean' /\ eeprom' = eeprom
<1>1. pc = "write" /\ todo # <<>>
  BY DEF WritePage, Running
<1>2. addr \in Nat /\ addr % PageSize = 0 /\ Head(todo) \in 1 .. PageSize
  BY <1>1, NextWrite DEF Planned
<1>3. CASE ~(clean' = FALSE /\ UNCHANGED eeprom)
  <2>1. /\ eeprom' = [i \in 1 .. DataSize |-> Cell(addr, Head(todo), buf, eeprom, i)]
        /\ clean' = clean
    BY <1>3, Zenon DEF WritePage, Cell
  <2>2. \A i \in 1 .. DataSize :
          Cell(addr, Head(todo), buf, eeprom, i)
            = IF i \in addr + 1 .. addr + Head(todo) THEN buf[i] ELSE eeprom[i]
    BY <1>2, PageWritten
  <2>3. QED
    BY <2>1, <2>2
<1>4. QED
  BY <1>3

(* Most steps leave the plan and the EEPROM alone.                         *)
LEMMA NotWriting ==
  ASSUME [Next]_vars, ~Parse, ~WritePage, ~WriteDone
  PROVE  /\ eeprom' = eeprom
         /\ pc' \in Busy => UNCHANGED <<pc, todo, addr>>
         /\ ~Said /\ ~PowerFails => trusted' = trusted
         /\ pc' \notin Busy /\ pc \in Busy => Said \/ PowerFails
<1> USE DEF taskVars, writeVars, Busy
<1>1. ASSUME NEW l \in Lines, Begin(l)
      PROVE  UNCHANGED <<eeprom, pc, todo, addr, trusted>>
  BY <1>1 DEF Begin
<1>2. CASE Receive \/ Idle \/ IdleIrq \/ AbortIrq
  BY <1>2 DEF Receive, Idle, IdleIrq, AbortIrq
<1>3. CASE OtherPrints \/ OtherPrinted \/ UNCHANGED vars
  BY <1>3 DEF OtherPrints, OtherPrinted, vars
<1>4. CASE Take \/ Say \/ Said \/ Wipe
  BY <1>4 DEF Take, Say, Said, Wipe, Running
<1>5. CASE PowerFails \/ Start
  BY <1>5 DEF PowerFails, Start
<1>6. QED
  BY <1>1, <1>2, <1>3, <1>4, <1>5 DEF Next, Operator, Store

(* Every step keeps to the plan.                                           *)
LEMMA PlannedKept ==
  ASSUME Planned, [Next]_vars
  PROVE  Planned'
<1>1. CASE Parse
  <2>1. pc' = "write" => todo' = PageWrites(0, DataSize) /\ addr' = 0
    BY <1>1 DEF Parse
  <2>2. 0 % PageSize = 0 /\ 0 \in 0 .. DataSize /\ DataSize - 0 = DataSize
    BY ConfigAssumption
  <2>3. QED
    BY <2>1, <2>2 DEF Planned
<1>2. CASE WritePage
  <2>1. pc = "write" /\ todo # <<>> /\ todo' = Tail(todo) /\ addr' = addr + Head(todo)
    BY <1>2 DEF WritePage, Running
  <2>2. QED
    BY <2>1, NextWrite DEF Planned
<1>3. CASE WriteDone
  BY <1>3 DEF WriteDone, Planned
<1>4. CASE ~Parse /\ ~WritePage /\ ~WriteDone
  <2>1. pc' = "write" => UNCHANGED <<pc, todo, addr>>
    BY <1>4, NotWriting DEF Busy
  <2>2. QED
    BY <2>1 DEF Planned
<1>5. QED
  BY <1>1, <1>2, <1>3, <1>4

(* A line that is being written has all come, and nothing comes after it.  *)
LEMMA LineStands ==
  ASSUME Inv, [Next]_vars, clean', pc \in Busy, pc' \in Busy
  PROVE  clean /\ line' = line /\ buf' = buf
<1> USE DEF Busy
<1>1. ASSUME NEW l \in Lines, Begin(l)
      PROVE  FALSE
  BY <1>1 DEF Begin, Rest
<1>2. CASE Receive
  <2>1. clean
    BY <1>2 DEF Receive
  <2>2. sent = Size(line) /\ Size(line) \in Nat
    BY <2>1, SizeInBuffer DEF Inv, Course, Coming, Signalled, Answering, Ranges
  <2>3. QED
    BY <1>2, <2>2 DEF Receive
<1>3. CASE Idle \/ IdleIrq \/ AbortIrq
  BY <1>3 DEF Idle, IdleIrq, AbortIrq, wireVars
<1>4. CASE OtherPrints \/ OtherPrinted \/ UNCHANGED vars
  BY <1>4 DEF OtherPrints, OtherPrinted, vars, wireVars
<1>5. CASE WritePage
  <2>1. clean' = clean \/ clean' = FALSE
    BY <1>5 DEF WritePage
  <2>2. QED
    BY <1>5, <2>1 DEF WritePage, wireVars
<1>6. CASE Take \/ Parse \/ WriteDone \/ Say \/ Said \/ Wipe
  BY <1>6 DEF Take, Parse, WriteDone, Say, Said, Wipe, Running, wireVars
<1>7. CASE PowerFails \/ Start
  BY <1>7 DEF PowerFails, Start
<1>8. QED
  BY <1>1, <1>2, <1>3, <1>4, <1>5, <1>6, <1>7 DEF Next, Operator, Store

(* Every step keeps what has been written of the line.                     *)
LEMMA CopiedKept ==
  ASSUME Inv, Planned, Copied, [Next]_vars
  PROVE  Copied'
<1> SUFFICES ASSUME clean', pc' \in Busy
             PROVE  /\ buf' = Text(line')
                    /\ \A i \in 1 .. DataSize : pc' = "accept" \/ i <= addr' =>
                         eeprom'[i] = Text(line')[i]
  BY DEF Copied, Text, Size
<1>1. CASE Parse
  <2>1. /\ pc = "parse" /\ clean /\ UNCHANGED <<line, buf>> /\ pc' = "write" /\ addr' = 0
    BY <1>1 DEF Parse, Running, wireVars, Busy
  <2>2. buf = Text(line)
    BY <2>1 DEF Inv, Course, Coming, Signalled, Answering
  <2>3. \A i \in 1 .. DataSize : ~(i <= 0)
    BY ConfigAssumption
  <2>4. QED
    BY <2>1, <2>2, <2>3
<1>2. CASE WritePage
  <2>1. pc = "write" /\ pc' = "write" /\ todo # <<>> /\ addr' = addr + Head(todo)
    BY <1>2 DEF WritePage, Running
  <2>2. clean /\ line' = line /\ buf' = buf /\ buf = Text(line)
    BY <2>1, LineStands DEF Copied, Busy
  <2>3. \A i \in 1 .. DataSize :
          eeprom'[i] = IF i \in addr + 1 .. addr + Head(todo) THEN buf[i] ELSE eeprom[i]
    BY <1>2, WritePut
  <2>4. addr \in Nat /\ Head(todo) \in Nat
    BY <2>1, NextWrite, ConfigAssumption DEF Planned
  <2>5. ASSUME NEW i \in 1 .. DataSize, i <= addr'
        PROVE  eeprom'[i] = Text(line)[i]
    <3>1. CASE i <= addr
      BY <2>1, <2>2, <2>3, <2>4, <3>1 DEF Copied, Busy
    <3>2. CASE i > addr
      <4>1. i \in addr + 1 .. addr + Head(todo)
        BY <2>1, <2>4, <2>5, <3>2
      <4>2. QED
        BY <2>2, <2>3, <4>1
    <3>3. QED
      BY <2>4, <3>1, <3>2
  <2>6. QED
    BY <2>1, <2>2, <2>5
<1>3. CASE WriteDone
  <2>1. /\ pc = "write" /\ todo = <<>> /\ UNCHANGED eeprom
    BY <1>3 DEF WriteDone, Running
  <2>2. clean /\ line' = line /\ buf' = buf
    BY <2>1, LineStands DEF Busy
  <2>3. addr = DataSize
    BY <2>1, NextWrite
  <2>4. \A i \in 1 .. DataSize : i <= addr
    BY <2>3, ConfigAssumption
  <2>5. QED
    BY <2>1, <2>2, <2>4 DEF Copied, Busy
<1>4. CASE ~Parse /\ ~WritePage /\ ~WriteDone
  <2>1. UNCHANGED <<pc, todo, addr, eeprom>>
    BY <1>4, NotWriting
  <2>2. clean /\ line' = line /\ buf' = buf
    BY <2>1, LineStands
  <2>3. QED
    BY <2>1, <2>2 DEF Copied
<1>5. QED
  BY <1>1, <1>2, <1>3, <1>4

(* No step undoes what was answered.                                       *)
LEMMA StaysKept ==
  ASSUME Inv, Copied, Stays, [Next]_vars
  PROVE  Stays'
<1> USE DEF Busy
<1> SUFFICES ASSUME trusted' \in Lines
             PROVE  /\ trusted' \in Good
                    /\ pc' \notin Busy =>
                         \A i \in 1 .. DataSize : eeprom'[i] = Text(trusted')[i]
  BY DEF Stays, Text, Size
<1>1. CASE Parse
  BY <1>1 DEF Parse, Running, Stays
<1>2. CASE WritePage
  BY <1>2 DEF WritePage, Running, Stays
<1>3. CASE WriteDone
  BY <1>3 DEF WriteDone, Running, Stays
<1>4. CASE Said
  <2>1. pc \in {"accept", "reject"} /\ eeprom' = eeprom
    BY <1>4 DEF Said, Inv, Printing
  <2>2. CASE pc = "reject"
    BY <1>4, <2>1, <2>2 DEF Said, Stays
  <2>3. CASE pc = "accept"
    <3>1. clean /\ trusted' = line
      BY <1>4, <2>3, ConfigAssumption DEF Said, Lines
    <3>2. line \in Good
      BY <2>3, <3>1 DEF Inv, Course, Coming, Signalled, Answering
    <3>3. QED
      BY <2>1, <2>3, <3>1, <3>2 DEF Copied
  <2>4. QED
    BY <2>1, <2>2, <2>3
<1>5. CASE PowerFails
  <2>1. eeprom' = eeprom /\ pc \notin Busy /\ trusted' = trusted
    BY <1>5, ConfigAssumption DEF PowerFails, Lines
  <2>2. QED
    BY <2>1 DEF Stays
<1>6. CASE ~Parse /\ ~WritePage /\ ~WriteDone /\ ~Said /\ ~PowerFails
  BY <1>6, NotWriting DEF Stays
<1>7. QED
  BY <1>1, <1>2, <1>3, <1>4, <1>5, <1>6

-----------------------------------------------------------------------------
(* What is read from text of the right kind is such text.                  *)
Cells == Units \cup {Blank}
LEMMA TextTypes ==
  /\ Zero \in [BufUnits -> Cells]
  /\ \A l \in Lines, i \in BufUnits : <<l, i>> \in Cells
  /\ \A e \in [1 .. DataSize -> Cells] : Stored(e) \in [BufUnits -> Cells]
  /\ \A t \in [BufUnits -> Cells] : Value(t) \in [BufUnits -> Cells]
<1>1. \A i \in BufUnits : i \in 1 .. DataSize \/ ~(i <= DataSize)
  BY ConfigAssumption DEF BufUnits
<1>2. \A e \in [1 .. DataSize -> Cells] : Stored(e) \in [BufUnits -> Cells]
  BY <1>1 DEF Stored, Cells
<1>3. Zero \in [BufUnits -> Cells]
  BY DEF Zero, Cells
<1>4. \A t \in [BufUnits -> Cells] : Value(t) \in [BufUnits -> Cells]
  BY <1>3 DEF Value, Cells
<1>5. QED
  BY <1>2, <1>3, <1>4 DEF Units, Cells

(* The new parts hold initially.                                           *)
LEMMA InitType == Init => TypeOK /\ Planned /\ Copied /\ Stays
<1> SUFFICES ASSUME Init
             PROVE  TypeOK /\ Planned /\ Copied /\ Stays
  OBVIOUS
<1>1. /\ Size(line) \in Nat /\ sent \in 0 .. Size(line)
      /\ MaxLines \in Nat /\ DataSize \in Nat
  BY SizeInBuffer, ConfigAssumption DEF Init
<1>2. buf \in [BufUnits -> Cells] /\ running \in [BufUnits -> Cells]
  BY TextTypes DEF Init
<1>3. eeprom \in [1 .. DataSize -> Cells]
  BY DEF Init, Cells
<1>4. todo \in Seq(1 .. PageSize)
  BY DEF Init
<1>5. TypeOK
  <2>1. 0 \in 0 .. MaxLines /\ 0 \in 0 .. DataSize /\ 0 \in Nat
    BY <1>1
  <2>2. /\ lines = 0 /\ addr = 0 /\ pos = 0 /\ line \in Lines /\ printer = "none"
        /\ seen = FALSE /\ idle = FALSE /\ armed = TRUE /\ aborting = FALSE
        /\ note = FALSE /\ clean = FALSE /\ pc = "wait" /\ trusted = Factory
    BY DEF Init
  <2>3. QED
    BY <1>1, <1>2, <1>3, <1>4, <2>1, <2>2 DEF TypeOK, Cells
<1>6. trusted \notin Lines
  BY ConfigAssumption DEF Init, Lines
<1>7. QED
  BY <1>5, <1>6 DEF Init, Planned, Copied, Stays, Busy

(* What the plan of page writes and its address may be.                    *)
LEMMA PlanKept ==
  ASSUME TypeOK, Planned, [Next]_vars
  PROVE  todo' \in Seq(1 .. PageSize) /\ addr' \in 0 .. DataSize
<1> USE DEF taskVars, writeVars
<1>1. todo \in Seq(1 .. PageSize) /\ addr \in 0 .. DataSize
      /\ 0 \in 0 .. DataSize /\ DataSize \in Nat
  BY ConfigAssumption DEF TypeOK
<1>2. CASE Parse
  BY <1>1, <1>2, PlanType DEF Parse
<1>3. CASE WritePage
  <2>1. /\ pc = "write" /\ todo # <<>> /\ todo' = Tail(todo)
        /\ addr' = addr + Head(todo)
    BY <1>3 DEF WritePage, Running
  <2>2. addr + Head(todo) \in 0 .. DataSize
    BY <2>1, NextWrite
  <2>3. Tail(todo) \in Seq(1 .. PageSize)
    BY <1>1, <2>1
  <2>4. QED
    BY <2>1, <2>2, <2>3
<1>4. CASE WriteDone
  BY <1>1, <1>4 DEF WriteDone
<1>5. ASSUME NEW l \in Lines, Begin(l)
      PROVE  UNCHANGED writeVars
  BY <1>5 DEF Begin
<1>6. CASE Receive \/ Idle \/ IdleIrq \/ AbortIrq \/ OtherPrints \/ OtherPrinted
           \/ UNCHANGED vars
  <2>1. UNCHANGED writeVars
    BY <1>6 DEF Receive, Idle, IdleIrq, AbortIrq, OtherPrints, OtherPrinted, vars
  <2>2. QED
    BY <1>1, <2>1
<1>7. CASE Take \/ Say \/ Said \/ Wipe \/ Start
  <2>1. UNCHANGED writeVars
    BY <1>7 DEF Take, Say, Said, Wipe, Start
  <2>2. QED
    BY <1>1, <2>1
<1>8. CASE PowerFails
  <2>1. todo' = <<>> /\ addr' = 0
    BY <1>8 DEF PowerFails
  <2>2. <<>> \in Seq(1 .. PageSize)
    OBVIOUS
  <2>3. QED
    BY <1>1, <2>1, <2>2
<1>9. QED
  BY <1>1, <1>2, <1>3, <1>4, <1>5, <1>6, <1>7, <1>8 DEF Next, Operator, Store

(* The buffer, the EEPROM and what was read from it hold units of lines.   *)
LEMMA TextKept ==
  ASSUME TypeOK, Planned, [Next]_vars
  PROVE  /\ buf' \in [BufUnits -> Cells]
         /\ running' \in [BufUnits -> Cells]
         /\ eeprom' \in [1 .. DataSize -> Cells]
<1>1. /\ buf \in [BufUnits -> Cells] /\ running \in [BufUnits -> Cells]
      /\ eeprom \in [1 .. DataSize -> Cells]
  BY DEF TypeOK, Cells
<1>2. ASSUME NEW l \in Lines, Begin(l)
      PROVE  UNCHANGED <<buf, running, eeprom>>
  BY <1>2 DEF Begin
<1>3. CASE Receive
  <2>1. UNCHANGED <<running, eeprom>>
    BY <1>3 DEF Receive
  <2>2. \/ buf' = buf
        \/ buf' = [buf EXCEPT ![pos + 1] = <<line, sent + 1>>]
    BY <1>3 DEF Receive
  <2>3. sent < Size(line) /\ line \in Lines /\ sent \in 0 .. Size(line)
    BY <1>3 DEF Receive, TypeOK
  <2>4. sent + 1 \in BufUnits
    BY <2>3, SizeInBuffer, ConfigAssumption DEF BufUnits
  <2>5. <<line, sent + 1>> \in Cells
    BY <2>3, <2>4, TextTypes
  <2> HIDE DEF Cells
  <2>6. QED
    BY <1>1, <2>1, <2>2, <2>5
<1>4. CASE Idle \/ IdleIrq \/ AbortIrq \/ OtherPrints \/ OtherPrinted \/ UNCHANGED vars
  <2>1. UNCHANGED <<buf, running, eeprom>>
    BY <1>4 DEF Idle, IdleIrq, AbortIrq, OtherPrints, OtherPrinted, vars
  <2>2. QED
    BY <1>1, <2>1
<1>5. CASE Take \/ Parse \/ WriteDone \/ Say \/ Said
  <2>1. UNCHANGED <<buf, running, eeprom>>
    BY <1>5 DEF Take, Parse, WriteDone, Say, Said
  <2>2. QED
    BY <1>1, <2>1
<1>6. CASE WritePage
  <2>1. /\ UNCHANGED <<buf, running>>
        /\ \/ eeprom' = eeprom
           \/ eeprom' = [i \in 1 .. DataSize |-> Cell(addr, Head(todo), buf, eeprom, i)]
    BY <1>6, Zenon DEF WritePage, Cell
  <2>2. addr \in Nat /\ addr % PageSize = 0 /\ Head(todo) \in 1 .. PageSize
    BY <1>6, NextWrite DEF WritePage, Running, Planned
  <2>3. \A i \in 1 .. DataSize :
          Cell(addr, Head(todo), buf, eeprom, i)
            = IF i \in addr + 1 .. addr + Head(todo) THEN buf[i] ELSE eeprom[i]
    BY <2>2, PageWritten
  <2>4. \A i \in 1 .. DataSize : i \in BufUnits /\ buf[i] \in Cells /\ eeprom[i] \in Cells
    BY <1>1, ConfigAssumption DEF BufUnits
  <2>5. \A i \in 1 .. DataSize : Cell(addr, Head(todo), buf, eeprom, i) \in Cells
    BY <2>3, <2>4
  <2>6. QED
    BY <1>1, <2>1, <2>5
<1>7. CASE Wipe \/ PowerFails
  <2>1. buf' = Zero /\ running' \in {running, Zero} /\ eeprom' = eeprom
    BY <1>7 DEF Wipe, PowerFails
  <2>2. QED
    BY <1>1, <2>1, TextTypes
<1>8. CASE Start
  <2>1. /\ UNCHANGED <<buf, eeprom>>
        /\ running' \in {Value(Stored(eeprom)), Zero}
    BY <1>8 DEF Start
  <2>2. QED
    BY <1>1, <2>1, TextTypes
<1>9. QED
  BY <1>1, <1>2, <1>3, <1>4, <1>5, <1>6, <1>7, <1>8 DEF Next, Operator, Store

(* The bound on lines, the printer and the operator's knowledge.           *)
LEMMA RestKept ==
  ASSUME TypeOK, [Next]_vars
  PROVE  /\ lines' \in 0 .. MaxLines
         /\ printer' \in {"none", "other", "store"}
         /\ trusted' \in Lines \cup {Factory, Unknown}
<1> USE DEF wireVars
<1>1. ASSUME NEW l \in Lines, Begin(l)
      PROVE  lines' \in 0 .. MaxLines /\ UNCHANGED <<printer, trusted>>
  BY <1>1, ConfigAssumption DEF Begin, TypeOK
<1>2. CASE Receive \/ Idle \/ IdleIrq \/ AbortIrq \/ UNCHANGED vars
  BY <1>2 DEF Receive, Idle, IdleIrq, AbortIrq, vars, TypeOK
<1>3. CASE OtherPrints \/ OtherPrinted
  BY <1>3 DEF OtherPrints, OtherPrinted, TypeOK
<1>4. CASE Take \/ Parse \/ Wipe
  BY <1>4 DEF Take, Parse, Wipe, TypeOK
<1>5. CASE WritePage \/ WriteDone
  <2>1. UNCHANGED <<lines, printer, trusted>>
    BY <1>5 DEF WritePage, WriteDone
  <2>2. QED
    BY <2>1 DEF TypeOK
<1>6. CASE Say \/ Said
  BY <1>6 DEF Say, Said, TypeOK
<1>7. CASE PowerFails \/ Start
  BY <1>7 DEF PowerFails, Start, TypeOK
<1>8. QED
  BY <1>1, <1>2, <1>3, <1>4, <1>5, <1>6, <1>7 DEF Next, Operator, Store, TypeOK

(* Every step keeps the types.                                             *)
LEMMA NextType ==
  ASSUME TypeOK, Planned, Inv, [Next]_vars
  PROVE  TypeOK'
<1>1. Ranges'
  BY NextInv DEF Inv
<1>2. /\ buf' \in [BufUnits -> Units \cup {Blank}]
      /\ running' \in [BufUnits -> Units \cup {Blank}]
      /\ eeprom' \in [1 .. DataSize -> Units \cup {Blank}]
  BY TextKept DEF Cells
<1>3. QED
  BY <1>1, <1>2, PlanKept, RestKept DEF TypeOK, Ranges, Steps

(* All of it together.                                                     *)
StoreInv == Inv /\ TypeOK /\ Planned /\ Copied /\ Stays

(* The whole invariant holds in every reachable state.                     *)
LEMMA StoreInvariance == Spec => []StoreInv
<1>1. Init => StoreInv
  BY InitInv, InitType DEF StoreInv
<1>2. StoreInv /\ [Next]_vars => StoreInv'
  BY NextInv, NextType, PlannedKept, CopiedKept, StaysKept DEF StoreInv
<1>3. QED
  BY <1>1, <1>2, PTL DEF Spec

-----------------------------------------------------------------------------
(* Every variable keeps its type: above all what is left of the page       *)
(* writes of I2C_EE_BufferWrite and WriteAddr, which stays within the      *)
(* DATA_Size of the EEPROM that are in use.                                *)
THEOREM TypeCorrect == Spec => []TypeOK
<1>1. StoreInv => TypeOK
  BY DEF StoreInv
<1>2. QED
  BY <1>1, StoreInvariance, PTL

(* The chip wraps within its page: no page write may cross the end of one. *)
WritesStayInPage ==
  pc = "write" /\ todo # <<>> => (addr % PageSize) + Head(todo) <= PageSize

(* Whatever the sizes of page and text, no page write of                   *)
(* I2C_EE_BufferWrite crosses the end of a page, where the chip would wrap.*)
THEOREM WritesStay == Spec => []WritesStayInPage
<1>1. StoreInv => WritesStayInPage
  <2> SUFFICES ASSUME StoreInv, pc = "write", todo # <<>>
               PROVE  (addr % PageSize) + Head(todo) <= PageSize
    BY DEF WritesStayInPage
  <2>1. addr % PageSize = 0 /\ Head(todo) \in 1 .. PageSize
    BY NextWrite DEF StoreInv
  <2>2. QED
    BY <2>1, ConfigAssumption
<1>2. QED
  BY <1>1, StoreInvariance, PTL

(* What the operator was told is in the EEPROM, unit by unit, up to        *)
(* DATA_Size.                                                              *)
Kept ==
  trusted \in Lines /\ pc \notin Busy =>
    \A i \in BufUnits : i <= DataSize => Stored(eeprom)[i] = Text(trusted)[i]
(* However long the lines are, what was answered with success stays in the *)
(* EEPROM up to DATA_Size, whatever page writes, later lines, refusals, a  *)
(* locked handle and power failures between lines do (I2C_Write_EE_IP).    *)
THEOREM StoredToDataSize == Spec => []Kept
<1>1. StoreInv => Kept
  <2> SUFFICES ASSUME StoreInv, trusted \in Lines, pc \notin Busy,
                      NEW i \in BufUnits, i <= DataSize
               PROVE  Stored(eeprom)[i] = Text(trusted)[i]
    BY DEF Kept
  <2>1. i \in 1 .. DataSize
    BY ConfigAssumption DEF BufUnits
  <2>2. Stored(eeprom)[i] = eeprom[i]
    BY DEF Stored
  <2>3. QED
    BY <2>1, <2>2 DEF StoreInv, Stays
<1>2. QED
  BY <1>1, StoreInvariance, PTL

(* A well-formed line that is all there is read back as it was written,    *)
(* up to its last unit and no further (I2C_Read_EE_IP).                    *)
THEOREM ReadBack ==
  ASSUME NEW l \in Good
  PROVE  Value(Text(l)) = Text(l)
<1> DEFINE t == Text(l)
<1>1. /\ l \in Lines /\ l \notin Bad /\ DataSize \in Nat /\ DataSize > 1
      /\ Size(l) = IF l \in Long THEN DataSize + 1 ELSE DataSize
  BY ConfigAssumption DEF Good, Lines, Size
<1>2. \A j \in 1 .. Size(l) : t[j] = <<l, j>> /\ j \in BufUnits
  BY <1>1 DEF Text, BufUnits
<1>3. \A j \in BufUnits : ~(j <= Size(l)) => t[j] = Blank
  BY DEF Text
<1> HIDE DEF t
<1>4. \A j \in 1 .. Size(l) : Fits(t, j)
  BY <1>2 DEF Fits, Blank
<1>5. \A n \in BufUnits : n <= Size(l) => Reads(t, n)
  BY <1>1, <1>4 DEF Reads, BufUnits
<1>6. Accepts(t)
  <2>1. Needed(t) \in BufUnits /\ Needed(t) <= Size(l)
    <3>1. t[DataSize - 1] = <<l, DataSize - 1>>
      BY <1>1, <1>2
    <3>2. QED
      BY <1>1, <3>1 DEF Needed, BufUnits, Blank
  <2>2. QED
    BY <1>5, <2>1 DEF Accepts
<1>7. \A j \in BufUnits : (IF Reads(t, j) THEN t[j] ELSE Blank) = t[j]
  BY <1>1, <1>3, <1>5 DEF BufUnits
<1>8. Value(t) = [j \in BufUnits |-> t[j]]
  BY <1>6, <1>7 DEF Value
<1>9. t = [j \in BufUnits |-> t[j]]
  BY DEF t, Text
<1>10. QED
  BY <1>8, <1>9 DEF t

(* A line no longer than DATA_Size is there as a whole.                    *)
LEMMA WholeLine ==
  ASSUME StoreInv, trusted \in Short, pc \notin Busy
  PROVE  Stored(eeprom) = Text(trusted)
<1>1. trusted \in Lines /\ Size(trusted) = DataSize
  BY ConfigAssumption DEF Lines, Size
<1>2. \A i \in BufUnits : i \in 1 .. DataSize \/ ~(i <= DataSize)
  BY ConfigAssumption DEF BufUnits
<1>3. \A i \in 1 .. DataSize : eeprom[i] = Text(trusted)[i]
  BY <1>1 DEF StoreInv, Stays
<1>4. \A i \in BufUnits : Stored(eeprom)[i] = Text(trusted)[i]
  BY <1>1, <1>2, <1>3 DEF Stored, Text
<1>5. QED
  BY <1>4 DEF Stored, Text

(* Nothing but a start turns the module on.                                *)
LEMMA OnlyStart ==
  ASSUME [Next]_vars, pc = "off", pc' = "wait"
  PROVE  Start
<1> USE DEF taskVars
<1>1. ASSUME NEW l \in Lines, Begin(l)
      PROVE  FALSE
  BY <1>1 DEF Begin
<1>2. CASE Receive \/ Idle \/ IdleIrq \/ AbortIrq \/ OtherPrints \/ OtherPrinted
           \/ UNCHANGED vars
  BY <1>2 DEF Receive, Idle, IdleIrq, AbortIrq, OtherPrints, OtherPrinted, vars
<1>3. CASE Take \/ Parse \/ WritePage \/ WriteDone \/ Say \/ Wipe
  BY <1>3 DEF Take, Parse, WritePage, WriteDone, Say, Wipe, Running
<1>4. CASE Said
  BY <1>4 DEF Said
<1>5. CASE PowerFails
  BY <1>5 DEF PowerFails
<1>6. QED
  BY <1>1, <1>2, <1>3, <1>4, <1>5 DEF Next, Operator, Store

(* If the last line answered with success is no longer than DATA_Size, the *)
(* module has, after a restart, the address of that very line or none,     *)
(* whatever longer lines came before (I2C_Write_EE_IP, I2C_Read_EE_IP).    *)
THEOREM RestartHasLine ==
  Spec => [][pc = "off" /\ pc' = "wait" /\ trusted \in Short =>
               running' \in {Text(trusted), Zero}]_vars
<1> DEFINE HasLine == pc = "off" /\ pc' = "wait" /\ trusted \in Short =>
                        running' \in {Text(trusted), Zero}
<1>1. StoreInv /\ [Next]_vars => HasLine
  <2> SUFFICES ASSUME StoreInv, [Next]_vars, pc = "off", pc' = "wait", trusted \in Short
               PROVE  running' \in {Text(trusted), Zero}
    OBVIOUS
  <2>1. Value(Stored(eeprom)) = Text(trusted)
    BY WholeLine, ReadBack DEF Busy, Good
  <2>2. QED
    BY <2>1, OnlyStart DEF Start
<1>2. QED
  BY <1>1, StoreInvariance, PTL DEF Spec

(* If no well-formed line is longer than DATA_Size, the EEPROM holds the   *)
(* whole line that was last answered with success (I2C_Write_EE_IP).  With *)
(* a longer one it does not: the run ConfigStoreLong.                      *)
THEOREM StoredAreWhole ==
  ASSUME Long = {}
  PROVE  Spec => []StoredWhole
<1>1. StoreInv /\ trusted \in Lines => trusted \in Short
  BY DEF StoreInv, Stays, Good
<1>2. StoreInv => StoredWhole
  BY <1>1, WholeLine DEF StoredWhole, Busy
<1>3. QED
  BY <1>2, StoreInvariance, PTL

(* If no well-formed line is longer than DATA_Size, the module connects    *)
(* after a restart to the server of the last line answered with success,   *)
(* or to none (I2C_Read_EE_IP).                                            *)
THEOREM RestartsObey ==
  ASSUME Long = {}
  PROVE  Spec => RestartObeys
<1> DEFINE Obeys == pc = "off" /\ pc' = "wait" /\ trusted \in Lines =>
                      running' \in {Value(Text(trusted)), Zero}
<1>1. StoreInv /\ [Next]_vars => Obeys
  <2> SUFFICES ASSUME StoreInv, [Next]_vars, pc = "off", pc' = "wait", trusted \in Lines
               PROVE  running' \in {Value(Text(trusted)), Zero}
    OBVIOUS
  <2>1. Stored(eeprom) = Text(trusted)
    BY WholeLine DEF Busy, StoreInv, Stays, Good
  <2>2. QED
    BY <2>1, OnlyStart DEF Start
<1>2. QED
  BY <1>1, StoreInvariance, PTL DEF Spec, RestartObeys
=============================================================================
