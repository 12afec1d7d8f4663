# TLA+ models of the ETH_IO firmware

ETH_IO is an Ethernet I/O module on an STM32F407: two digital inputs, three
LED outputs, FreeRTOS, LwIP and a TCP connection to a host program. The module
is the TCP client. It reports the levels of its inputs when they change, once
a second, and when the host asks (`query`); it toggles an output for each of
`LED1`, `LED2`, `LED3`; the host's address is set over the serial port and
kept in an I2C EEPROM.

This directory holds TLA+ specifications of that program, TLC configurations,
and proofs checked by TLAPS. Every definition is translated from the code under
`src/`; `PROJECT.json` ("map") gives the lines for each.

## 1. The system

| Component | Code | State | Operations | Model |
|---|---|---|---|---|
| Status reporting | `User/client.c` (client), `User/input/*`, `main.c` (timer), EXTI handlers | pin levels, EXTI pending bits, the client's notification count, the scan under way | edge, handler, give, take, scan, write, timer tick, query | `StatusReport`, `InputMirror` |
| Host link | `User/client.c` (client and clientrecv), LwIP `api_lib.c`, `api_msg.c` | the shared `conn`, netconns (pcb, state, flags, mailbox, semaphore), both tasks | new, connect, close, write, recv, TCP callbacks, return of a task | `HostLink`, `CommandPipe` |
| Ethernet reception | `User/arch/ethernetif.c`, `User/eth/bsp_eth.c`, `stm32f4xx_hal_eth.c` | descriptor ring, RxDesc, HAL lock, counting semaphore, pbuf pool, TCP/IP mailbox | DMA, interrupt handler, `ethernetif_input`, `low_level_input` | `EthInput` |
| Configuration | `User/usart/*`, `User/i2c/*`, `I2ceeprom_Task`, UART and DMA handlers | `Usart_Rx_Buf`, reception, UART lock, notification, EEPROM | receive, idle, abort, parse, page write, answer, clear, power failure, start | `ConfigStore` (partly) |
| Ethernet transmission | `low_level_output` in `ethernetif.c`, `HAL_ETH_TransmitFrame` | static semaphore, TxDesc, HAL lock, transmit ring | look at the descriptor, wait, copy, hand over, signal; DMA | `EthOutput`, `CommandPipe` |
| Start-up | `main.c`, `board.c`, `client_init`, `clientrecv_init`, `TCPIP_Init` | which tasks and handles exist, which interrupts are on, the critical section | initialise, create, wait for DHCP, delete itself | `Startup` |
| Port layer | `User/arch/sys_arch.c` on FreeRTOS `queue.c` | count, lock count, list of waiting tasks, timeouts | wait, fetch, signal, trypost, give from an interrupt | `SysArch`, `Semaphore` (partly) |
| LEDs, GPIO, clocks, SysTick, cm_backtrace | `User/led`, `board.c`, ... | registers | set-up, tracing | not modelled: no behaviour to speak of |
| FreeRTOS, LwIP core, HAL | vendored | | | only what the program calls, where it calls it |

How they interact:

```
 pins --EXTI--> ISR --notify--.
 timer service task --notify--+--> client --netconn_write--> LwIP --> low_level_output --> DMA
 clientrecv ("query") -notify-'                               |
      ^---- recvmbox <---- recv_tcp <---- tcpip_thread <------' <-- mbox <-- ETHIN <-- ring <-- DMA
 serial port --DMA, idle ISR--> I2ceeprom_Task --pages--> EEPROM --(next start)--> client
```

Tasks and priorities: client and clientrecv 4, ETHIN 3, TCP/IP thread 3, the
timer service task as `FreeRTOSConfig.h` says, AppTaskCreate and I2ceeprom_Task
1. There is one processor: an interrupt comes between any two steps of a task;
preemption between tasks follows priorities, and the models allow more orders
than that wherever nothing depends on it.

What is hard in this code: notifications that collapse while the client scans;
one interrupt for several frames; HAL handles whose lock is tried once, and the
failure dropped; a connection that dies between a test and a block; a mailbox
or pool that is full; the serial buffer that receives while it is used; power
that fails between pages; tasks that must not return. `PROJECT.json`
("hazards") lists each at its line with the properties that cover it, or the
reason why none does.

## 2. The modules

### StatusReport, InputMirror, StatusReportProofs

`StatusReport` has one action per atomic step of the path. An edge (`Edge`) sets
the EXTI pending bit; the handler clears it (`IsrClear`) and then gives the
notification (`IsrGive`), two steps because another edge may fall between them.
`TimerTick` and `RecvQuery` give the same notification. `TakeBegin` and
`TakeEnd` are the two critical sections of `ulTaskNotifyTake`; `ScanFirst` and
`ScanSecond` the two pin reads of `Input_Scan`; `Write` the message, through
`ScanCode` and `Message` (the numbers 11, 10, 01, 00 and the four buffers).
`WordMod` and `ValueMod` stand for 2^32 (`ulNotifiedValue`) and 2^16
(`NotifyValue`): the run uses 8 and 4, so both wrap within it. `dropped` is a
history variable: the last notification was lost to that narrowing.

`InputMirror` is the promise: the host's picture is, whenever nothing is owed,
the true one. `StatusReport` implements it with
`owed <- Ringing \/ Sampling \/ dropped`.

The time before `client_init` has returned is `Startup`'s subject (the task
handle is null then). Delivery of a message is `HostLink`'s: here `Write` is
complete when `netconn_write` returns.

### HostLink, CommandPipe, HostLinkProofs, HostPipeProofs

`HostLink` has the two tasks that share `conn`, and the TCP/IP thread. What
LwIP does under the core lock is one step. `err_tcp` is three (`ErrTcp`,
`ErrPost`, `ErrSignal`): it posts to the receive mailbox, which readies
clientrecv (priority 4 against 3), before it signals the client. `netconn_recv`
works without the lock, so its test (`RecvCall`) and its fetch (`RecvFetch`,
`RecvEmpty`) are separate. TCP itself (handshakes, retransmission, loss) is the
environment: it may refuse, reset, close or deliver at any time; `wire` keeps
what is sent in order, `refused_data` included. A FIN is lost when the mailbox
is full, as `TCP_EVENT_CLOSED`'s result is not looked at unless it is ERR_ABRT.

Two timing assumptions are in guards. `StartRecv` runs only while client and
the TCP/IP thread both wait, because AppTaskCreate has priority 1. `Delayed`
(the client's `vTaskDelay(10)`) does not end while clientrecv stands between
its test and its fetch: ten ticks are far longer than that path, in which
clientrecv, of equal priority, does not block.

`CommandPipe` is the promise: segments are taken in order, once each. It is
also what `EthOutput` promises of frames.

### EthInput, EthInputProofs

The ring as `low_level_init` and `HAL_ETH_GetReceivedFrame` keep it, the
interrupt handler in two steps (the callback gives the token, then flag and
HAL lock are cleared), `ethernetif_input` with the critical section around
`low_level_input` and the jump back after a frame, a transmitter that may be
preempted with the HAL lock, the TCP/IP thread's mailbox, and the stack, which
frees pbufs in any order. Only the receive interrupt is enabled
(`stm32f4xx_hal_eth.c:1843`), and a frame fits one descriptor and one pbuf, so
the multi-segment branches are unreachable and left out. `cut` records why the
last poll ended.

### ConfigStore, ConfigStoreProofs

Serial text is counted in units of a few characters, each a pair of line and
position, so that mixtures and truncations stay visible; a page is two units
and DATA_Size three, which takes the page loop and the remainder. `Receive` is
the DMA, `Idle` the wire falling silent (within a line too), `IdleIrq` and
`AbortIrq` the two handlers, `AbortDone` the callback that notifies the task and
tries to restart reception under the UART handle's lock. The task takes, parses,
writes page by page from the live buffer, answers and clears. What
`I2C_EE_BufferWrite` has left to do is `todo`, the lengths of its page writes as
`PageWrites` plans them, and `addr`, its WriteAddr; a page write wraps within
its page, as the chip does. The bus may fail
at each page; power may fail at any time. `sscanf` reads the buffer in one
step, one printed character stands for the whole message, and the notification
count is kept as zero or not (a wrap would need 65536 lines unread). In the
build of `src/Listings/LwIP_F407.map` the bytes after `I2c_Buf_Read` are zero
at start, which is what ends a text of exactly 20 characters. `clean` and
`trusted` are history: whether the line under way came alone, whole, and with
reception on, and what the answers entitle the operator to believe.

### EthOutput, Startup, EthOutputProofs, StartupProofs

`EthOutput` follows `low_level_output` step by step: the creation of the
static semaphore and its first give (`NewSem`, `FirstGive`), the look at
`heth.TxDesc` *before* the wait (`ReadDesc`, which keeps the descriptor in
`mine` or goes to the label `error`), `Wait`, `Copy`, and the label `error`
itself (`Leave`), where the semaphore is signalled by those that waited and by
those that did not. `HAL_ETH_TransmitFrame` is three steps: lock and OWN check
(`Hand`), OWN (`SetOwn`), advance of TxDesc, resumption of the DMA and unlock
(`Advance`); the interrupt handler may unlock the handle between any two
(`IsrUnlock`). The DMA sends, or finds nothing and suspends itself. A descriptor
holds the frame its owner believes to be in it (`slot`) and its buffer the one
that was copied there (`buffer`); they differ in `spoilt` frames.

Three kinds of caller: the TCP/IP thread, client and clientrecv under the core
lock (`core`), and AppTaskCreate, which calls `dhcp_start` without it. Its
priority is the lowest, hence the guard `Runs`. The TCP/IP thread has nothing
to send before the discover is on the wire or handed over: the interface has no
address, and DHCP's timers run only after `dhcp_start`.

`Startup` extends `EthOutput` by everything around it: the interrupts that
BSP_Init enables, `main`, `TCPIP_Init` with its polling, the creation of
client, clientrecv and I2ceeprom_Task (a task runs before its handle is
stored, and each creation may fail), the timer, and `vTaskDelete` inside the
critical section. On this port `vTaskDelete` *returns*: the switch it asks for
is an interrupt that the critical section masks, so the deleted task runs on,
leaves the critical section, and is switched out there (`DeleteSelf`,
`ExitCritical`). Who notifies whom is in `Sources`.

### SysArch, Semaphore, SysArchProofs

`SysArch` is `xQueueGenericReceive` as `sys_arch_sem_wait` and
`sys_arch_mbox_fetch` call it, one action per critical section: look (`Try`),
suspend the scheduler and lock the queue (`Lock`), look at the time and again
at the count (`Check`), join the list (`Place`), unlock and wake for what was
noted (`Unlock`), resume (`Resume`), and after a timeout the last look
(`Last`). `Give` is a task's signal or trypost, `IsrGive` the interrupt's,
which may come between any two steps and, while the queue is locked, only
raises `cTxLock`. `Expire` is the tick. Messages are counted, not told apart,
and which of several waiting tasks is woken is left open.

`Semaphore` is what the other modules take such an object to be: a bounded
count, taken in one step. `EthInput` uses it so for its token and its mailbox,
`EthOutput` for ousem and the core lock, `HostLink` for `recvmbox` and
`op_completed`; `SysArch` implements it with `asking` the tasks inside a wait.

## 3. Runs

| Run | Shows | Bounds |
|---|---|---|
| `StatusReport` | type, TornScanRepeated, HostUpToDate, NoLostWakeup, ImplementsMirror; StatusConverges, QueryAnswered under fairness | counters modulo 8 and 4, one query waiting; 207,936 states |
| `HostLink` | CompletionOwed, ReceiverWillHear, MailboxAlive, NothingLost, CommandsObeyed, ImplementsPipe; SegmentServed, OperationReturns under fairness | 2 netconns, mailbox of 2, 3 segments of one command; 138,656 states |
| `HostLinkBatch` (violation) | CommandsObeyed: of two commands in one segment the second is dropped | 1 segment of up to 2 commands |
| `HostLinkReturn` (violation) | TaskNeverReturns: clientrecv returns on any error | 1 segment |
| `HostLinkSuccess` (violation) | ConnectSuccessful: every result but ERR_MEM counts as connected | 1 segment |
| `EthInput` | FramesInOrder, PbufsConserved, NoFrameForgotten, DeafOnlyWhenBusy; RingDrained under fairness | ring 3, pool 2, mailbox 1, 2 tokens, 6 frames; 84,976 states |
| `EthInputDeaf` (violation) | ReceptionResumes: a full ring under one token, and a poll refused the HAL lock, end reception | ring 2 |
| `ConfigStore` | BufferCleared, StoredWhole, AnswerRight, RestartObeys; LineHeard under fairness | two good lines and a bad one, 2 lines sent; 696,542 states |
| `ConfigStoreLong` (violation) | StoredWhole: a 21-character configuration loses its last digit | one line of 20, one of 21 characters |
| `Startup` | AcceptedIsQueued, SpoiltOnlyAtStart, NullOnlyAtStart, ImplementsPipe; FramesLeave, SendersReturn, StartupEnds under fairness | ring 3, 2 frames per sender, 4 senders; 112,870 states |
| `EthOutputStart` (violation) | PacketIsSent: the first frame of the TCP/IP thread may leave with other bytes | ring 3, AppTaskCreate and the TCP/IP thread |
| `SysArch` | WakeupsOwed, ImplementsSemaphore (its liveness too); TimedWaitEnds under fairness | 3 waiting tasks, one with a timeout, count up to 3; 4,740 states, no other bound |

Why the bounds are enough. Counters wrap and are full within the runs. The
ring, the pool, the mailbox and the token count of `EthInput` are each smaller
than the frames sent, so every one of them runs full, alone and together, and
the ring goes round twice. The transmit ring of three goes round twice with
seven frames and is full when the DMA is slow. Three segments overflow a mailbox
of two. Two netconns are enough for a failed attempt followed by one that
succeeds, and for the pool to run out. Two tasks on the list and two tokens
noted in `cTxLock` are enough for a wake-up that serves the wrong number. Two
configuration lines are enough for an overlap, for a line lost after a refused
restart of reception, and for a stored one followed by a failure of any kind.

Every property has a mutant of the code that violates it ("mutants"): a
dropped guard, a swapped case, a step left out.

### Fairness

- StatusReport: interrupts are served (weak). Tasks and the timer are strong:
  an interrupt preempts them again and again if pins keep moving, but each runs
  in between. The pins and the host owe nothing. `netconn_write` returns, which
  is `HostLink`'s OperationReturns.
- HostLink: weak for the tasks and the TCP/IP thread (priorities 4 and 3, all
  block often); a SYN is answered or times out, and while the connection stands
  the host acknowledges data. It is not assumed that the host sends anything.
- EthInput: strong for the interrupt, which critical sections mask, weak for
  ETHIN.
- Startup: weak for AppTaskCreate, which yields only by `vTaskDelay` and runs
  when the others block, for the tasks inside `low_level_output` (the core lock
  and the semaphore are what keeps one from another, and both are given back),
  for the DMA, for DHCP's timer (the TCP/IP thread asks again), and, as an
  assumption on the world, for a DHCP server that answers what reaches it.
  Without a server AppTaskCreate polls for ever. No fairness is put on the
  frames of client and clientrecv.
- SysArch: strong for the steps of a task and for the clock, as other tasks
  suspend the scheduler again and again. No one is obliged to give.
  TimedWaitEnds has an exception that the code has: a late task that sees a
  message in its last look tries again, and another may take it first; only the
  TCP/IP thread waits with a timeout, alone on its mailbox.
- ConfigStore: weak for interrupts and the idle wire, strong for the task,
  which has the lowest priority and runs whenever the others block.

## 4. Findings

1. `clientrecv` leaves its loop on any error of `netconn_recv` and returns; the
   FreeRTOS port halts the module with interrupts off (`HostLinkReturn`).
2. `client` takes every result of `netconn_connect` but -1 (ERR_MEM) for
   success and never tries again (`HostLinkSuccess`).
3. Commands that TCP joins into one segment are dropped but for the first
   (`HostLinkBatch`).
4. Reception can stop for good: `low_level_input` returns before it resumes
   the DMA when the HAL handle is locked (`EthInputDeaf`).
5. DATA_Size is 20, the longest configuration 21 characters
   (`ConfigStoreLong`).
6. `low_level_output` reads the descriptor before it waits: the first frame of
   the TCP/IP thread may be copied into the buffer of a descriptor that has
   gone, and other bytes leave (`EthOutputStart`).

The runs that pass say how far the damage goes: reception goes deaf only
through a refused lock (DeafOnlyWhenBusy); a serial line is lost only while
printf holds the UART handle, and is then still answered, with an error
(LineHeard, AnswerRight); what the EEPROM holds differs from what was answered
only after an overlap, a pause within a line, a bus error or a power failure
during a write (StoredWhole, RestartObeys); no frame but the one of finding 6
can leave damaged, none is lost, and the start-up recovers from it because DHCP
asks again (SpoiltOnlyAtStart, StartupEnds). A notification to a null handle,
from an input or the serial line before the start-up is over, prints an
assertion and writes through the null pointer; after the start-up it happens
only if a task could not be created (NullOnlyAtStart). A notification count
that is a multiple of 65536 (`NotifyValue` is a `uint16_t`) is cleared without
a report: `dropped` in HostUpToDate.

## 5. Proofs

`StatusReportProofs` proves, for every word width, value width and mailbox
bound that `StatusAssumption` allows, and with no other assumption:

- `TypeCorrect`, `TornScansRepeated`, `HostKeptUpToDate`, `WakeupsNotLost`: the
  invariants of the run hold in every reachable state;
- `PathImplementsMirror`: every behaviour of `StatusReport` is one of
  `InputMirror` under the refinement mapping.

The argument is one inductive invariant, `Inv`: the conjunction of the type
invariant, TornScanRepeated, HostUpToDate and NoLostWakeup. HostUpToDate is not
inductive alone: a `Write` makes the host's picture that of the scan, so the
scan must be known to be current unless something rings (TornScanRepeated);
and the scan is current at the write only because any edge after a read leaves
a latch, a handler or a count behind. `GiveRings` says that a give keeps the
path ringing or records a drop (the count may wrap to zero), and
`MessageFaithful` that the code of `Input_Scan` and the text sent for it
recover the levels. `InitInv`
and `NextInv` (one step per action) give `Invariance`; the refinement uses the
invariant in both states of a step (`MirrorInit`, `MirrorNext`).

`EthInputProofs` holds for every ring, pool, mailbox, number of tokens and
number of frames: `FramesKeepOrder`, `PbufsAccountedFor`, `FramesNotForgotten`,
`DeafByLockAlone` and `TypeCorrect`. The descriptors with the CPU are a piece of
the ring from RxDesc to the DMA (`Arc`), which frames fill from the old end to
the new (`Sorted`), all newer than what was posted (`Older`); descriptors and
pbufs are counted against what they hold (`RingCount`, `Kept`); and a ring that
has frames while ETHIN sleeps without a token was left by a poll that was cut
short (`Awake`). FramesInOrder says nothing of the DMA's place, so the arc must
be carried along to know that a new frame goes behind the others.

`HostLinkProofs` holds for every pool, mailbox and number and length of
segments: `WaitsAreOwed`, `ReceiverHears`, `MailboxOutlivesReader` and
`TypeCorrect`. The netconns that conn does not name are closed or fresh
(`Elsewhere`), and of the one it names the client's place, the operation under
way and the pcb go together (`InUse`, `Operation`). `InErr` says that nothing
changes that netconn's pcb between the steps of `err_tcp`, and `Reader` that
clientrecv reads only when the client can no longer give up conn, which is what
MailboxAlive needs from the priorities.

`HostPipeProofs` adds to that invariant where each segment is (`Line`): the one
in hand next after those acted upon, those in the mailbox after it, those on the
wire last, notices behind all of them. It follows (`PathImplementsPipe`) that
`HostLink` implements `CommandPipe`: `Handle` maps to Take, `HostSend` to Send,
every other step stutters. `CommandPipe` itself keeps what was taken the
beginning of what was sent (`InOrder`), which the refinement carries over to
`HostLink`. With the places of `Line` this gives `NothingIsLost`: while the
connection stands, the four sequences end to end are what was sent, and no
notice is among them. `LedIsToggled` is the general truth about the output: it
is the parity of the segments acted upon that *begin* with LED. When no segment
holds two commands, those are all the commands, hence `CommandsAreObeyed`; its
hypothesis MaxBatch = 1 is what TCP does not promise (finding 3).

`EthOutputProofs` is for every transmit ring and any number of clients and
frames. `AcceptedAreQueued`: a frame that low_level_output accepts was handed to
the DMA, in a descriptor that was free. The core lock keeps all but
AppTaskCreate apart (`CoreHeld`, `Locker`); AppTaskCreate is the first to use
the interface (`BootAlone`) and can be overtaken only between its hand-over and
its return (`BootOverlaps`). `RingImplementsPipe`: counted from the DMA's
descriptor, the ring holds what was queued and not yet sent, and the next free
place lies behind it (`Line`), so frames leave in the order handed over.
`SpoiltAtMostOnce`: every sender but the TCP/IP thread with its first frame
copies into the buffer it hands over (`Aimed`), nobody into one that is in the
ring, so what leaves is whole (`Whole`).

`StartupProofs` shows that every behaviour of `Startup` is one of `EthOutput`
(`StartImplementsOutput`), so that these three hold of the composition too
(`StartAcceptedAreQueued`, `StartImplementsPipe`, `StartSpoiltAtMostOnce`), and
`HandlesStoredInTime`: the invariant `Stored` ties each handle to the steps of
the start-up and to the failures of xTaskCreate. `StartTypeCorrect` is its type
invariant.

`ConfigStoreProofs` is for all sets of lines, every page size, DATA_Size and
number of lines: `BufferIsCleared`, `AnswersAreRight`, `TypeCorrect`,
`WritesStay`, `StoredToDataSize`, `RestartHasLine`, `StoredAreWhole`,
`RestartsObey`. A line that
comes alone passes three stages, known unit by unit (`Coming`, `Signalled`,
`Answering`), and can begin so because reception that is on and idle stands at
the start of the buffer (`AtStart`). `LineRead` says which texts sscanf accepts.

While such a line is written nothing changes the buffer (`LineStands`). The
write begins on a page's boundary, and `PlanStep` says that a page write from
there ends on the next boundary or at the end of the text, with the plan for
the rest left to do. So WriteAddr and what is left determine each other
(`Planned`), no write wraps (`WritesStay`, `PageWritten`), and the EEPROM holds
the line up to WriteAddr (`Copied`) and all of it at the answer (`Stays`). No
induction over the pages is needed: each page write is a step of the invariant.
A line of any length is so stored up to DATA_Size (`StoredToDataSize`), and a
line that is there as a whole is read as that line (`ReadBack`): a restart has
the address of the last line answered, if it is not longer than DATA_Size, or
none (`RestartHasLine`). `StoredAreWhole` and `RestartsObey` state the run's
properties for all lines and have the hypothesis that no well-formed line is
longer (Long = {}), without which they are false (finding 5).

`SysArchProofs` is for every finite set of tasks, any of them with a timeout,
and every length of queue: `WakeupsNotLost`, `TypeCorrect`, and
`QueueIsSemaphore`, the safety part of `Semaphore`. `Owner` names the task that
has the scheduler suspended, `Locked` and `Noted` say when `cTxLock` may be
raised, `Placing` and `Sleepers` who is on the list. WakeupsOwed counts tasks on
the list against messages; it is kept because `Unlock` wakes once for every
message noted, and because `Place` comes after a look that found the queue
empty or leaves the note that an interrupt made since.

What these proofs assume is what the modules' ASSUMEs say, and the type of a
count is as wide as needed; the finite bounds of the runs (how many frames,
segments, lines) are parameters there like any other.

Every safety property of the passing runs is the subject of a theorem:
invariants, action properties and refinements. Only model-checked is liveness,
as fairness and ENABLED are beyond the prover: StatusConverges, QueryAnswered,
SegmentServed, OperationReturns, RingDrained, LineHeard, FramesLeave,
SendersReturn, StartupEnds, TimedWaitEnds, and the liveness part of `Semaphore`
in ImplementsSemaphore (its safety part is `QueueIsSemaphore`).

## 6. Not modelled

`src/` holds about 440,000 lines, nearly all of them vendored: register
definitions and drivers for peripherals the module does not use, DSP code, the
rest of LwIP and FreeRTOS. The program's own C files (`src/User` without
`cm_backtrace`) have a few thousand, and the models map what of them changes
state. Mapping more of the rest would add nothing about this program, so the
share of all lines that is mapped stays well below one in a hundred.

TCP, IP, ARP and DHCP; the content of frames; formatting of printed text; the
numbers in an address (`%d` through pointers to `uint16_t`, octets above 255);
GPIO, clock and peripheral set-up; the wait loops on the I2C bus; mutexes with
priority inheritance, and creation and deletion of semaphores and mailboxes, in
the port layer; frames longer than a descriptor.

## 7. Plan

1. Mutexes of the port layer with priority inheritance, and the lifetime of
   `op_completed` and `recvmbox` when a netconn is closed, in `SysArch`, with
   the proof that they are not used after they are freed.
2. `Module`: the composition of EthInput's mailbox with HostLink's segments and
   StatusReport's writes, for the end-to-end promise command in, report out.
