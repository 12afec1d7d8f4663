------------------------------ MODULE HostLink ------------------------------
(***************************************************************************)
(* The connection to the host: the client task opens it and writes on it,  *)
(* the clientrecv task reads commands from it, and the TCP/IP thread runs  *)
(* the callbacks that complete the operations of both.                     *)
(*                                                                         *)
(* Client and clientrecv share the global conn.  What LwIP does under the  *)
(* core lock (lwip_netconn_do_*, the TCP callbacks) is one step, except    *)
(* err_tcp, whose post readies clientrecv, of higher priority than the     *)
(* TCP/IP thread, before the completion is signalled.  netconn_recv reads  *)
(* the netconn without the lock: its test and its fetch are two steps.     *)
(*                                                                         *)
(* Priorities matter in one place: AppTaskCreate (1) creates clientrecv    *)
(* only while client (4) and the TCP/IP thread (3) both wait.              *)
(***************************************************************************)
EXTENDS Integers, Sequences, FiniteSets

CONSTANTS
  Pool,      (* MEMP_NUM_NETCONN, 4 on the target                          *)
  MboxSize,  (* DEFAULT_TCP_RECVMBOX_SIZE, 10 on the target                *)
  MaxBatch,  (* how many commands TCP may put into one segment             *)
  MaxSegs    (* bound: how many segments the host sends                    *)

ASSUME LinkAssumption ==
  /\ Pool \in Nat \ {0}
  /\ MboxSize \in Nat \ {0}
  /\ MaxBatch \in Nat \ {0}
  /\ MaxSegs \in Nat

VARIABLES
  conn,    (* the global conn: an index into nc, or Null                   *)
  used,    (* how many netconns of the pool are allocated                  *)
  nc,      (* the netconns                                                 *)
  client,  (* where the client task is                                     *)
  ret,     (* err of the message of the client's last netconn call         *)
  bell,    (* whether the client's notification count is non-zero          *)
  recv,    (* where clientrecv is                                          *)
  rconn,   (* the netconn clientrecv is reading from                       *)
  item,    (* what it has fetched from the mailbox                         *)
  stack,   (* where the TCP/IP thread is in err_tcp                        *)
  wire,    (* segments sent that recv_tcp has not posted yet               *)
  led,     (* the level of the LED that the command "LED" toggles          *)
  sent,    (* history: segments the host has sent                          *)
  taken,   (* history: segments clientrecv has acted upon                  *)
  joined,  (* history: the connection was once established                 *)
  halted   (* prvTaskExitError: interrupts off, for( ;; )                  *)

clientVars == <<client, ret>>
recvVars == <<recv, rconn, item>>
poolVars == <<conn, used>>
hostVars == <<wire, sent>>
outVars == <<led, taken>>
vars == <<poolVars, nc, clientVars, bell, recvVars, stack, hostVars, outVars, joined, halted>>

Null == 0
Conns == 1 .. Pool
Commands == {"LED", "query"}
Segments == UNION {[1 .. n -> Commands] : n \in 1 .. MaxBatch}

Data(s) == [kind |-> "data", cmds |-> s]
Closed == [kind |-> "netconn_closed", cmds |-> <<>>]
Error == [kind |-> "err", cmds |-> <<>>]
Items == {Data(s) : s \in Segments} \cup {Closed, Error}

(* A netconn: its pcb (none once the pointer is NULL), the operation under *)
(* way, a pending error, NETCONN_FLAG_MBOXCLOSED, whether recvmbox is      *)
(* valid, what is in it, and the tokens of op_completed.                   *)
Netconns ==
  [pcb : {"none", "closed", "synsent", "established", "closewait"},
   state : {"none", "connect", "write"},
   pending : BOOLEAN, mboxclosed : BOOLEAN, valid : BOOLEAN,
   recvmbox : Seq(Items), sem : Nat]

Fresh ==
  [pcb |-> "closed", state |-> "none", pending |-> FALSE, mboxclosed |-> FALSE,
   valid |-> TRUE, recvmbox |-> <<>>, sem |-> 0]

Idle == [at |-> "idle", conn |-> Null, wake |-> FALSE]

TypeOK ==
  /\ conn \in 0 .. used
  /\ used \in 0 .. Pool
  /\ nc \in [Conns -> Netconns]
  /\ client \in {"new", "delay", "connect", "connecting", "close", "take", "write", "writing"}
  /\ ret \in {"OK", "MEM", "other"}
  /\ bell \in BOOLEAN
  /\ recv \in {"absent", "failed", "call", "wait", "poll", "got", "returned"}
  /\ rconn \in 0 .. Pool
  /\ item \in Items
  /\ stack \in [at : {"idle", "post", "signal"}, conn : 0 .. Pool, wake : BOOLEAN]
  /\ wire \in Seq(Segments)
  /\ sent \in Seq(Segments)
  /\ taken \in Seq(Segments)
  /\ led \in BOOLEAN
  /\ joined \in BOOLEAN
  /\ halted \in BOOLEAN
  /\ \A c \in Conns : Len(nc[c].recvmbox) <= MboxSize /\ nc[c].sem <= 1

Init ==
  /\ conn = Null
  /\ used = 0
  /\ nc = [c \in Conns |-> Fresh]
  /\ client = "new"
  /\ ret = "OK"
  /\ bell = FALSE
  /\ recv = "absent"
  /\ rconn = Null
  /\ item = Closed
  /\ stack = Idle
  /\ wire = <<>>
  /\ led = FALSE
  /\ sent = <<>>
  /\ taken = <<>>
  /\ joined = FALSE
  /\ halted = FALSE

(* Nothing but prvTaskExitError halts the processor.                       *)
Up == ~halted /\ UNCHANGED halted

CoreFree == stack.at = "idle"
Live(c) == nc[c].pcb \in {"synsent", "established", "closewait"}

-----------------------------------------------------------------------------
(* The client task.                                                        *)

(* netconn_new: NULL when the pool, the heap or the pcbs have run out.     *)
NetconnNew ==
  /\ Up
  /\ client = "new"
  /\ CoreFree
  /\ \/ /\ used < Pool
        /\ used' = used + 1
        /\ conn' = used + 1
        /\ client' = "connect"
     \/ /\ conn' = Null
        /\ client' = "delay"
        /\ UNCHANGED used
  /\ UNCHANGED <<nc, ret, bell, recvVars, stack, hostVars, outVars, joined>>

(* vTaskDelay(10) is over; continue.  Ten ticks are more than clientrecv,  *)
(* running alone at its priority, needs from its creation to its fetch.    *)
Delayed ==
  /\ Up
  /\ client = "delay"
  /\ recv # "call"
  /\ client' = "new"
  /\ UNCHANGED <<poolVars, nc, ret, bell, recvVars, stack, hostVars, outVars, joined>>

(* lwip_netconn_do_connect: tcp_connect queues the SYN, finds no memory    *)
(* for it, or fails otherwise (no route, ERR_RTE).  Only ERR_MEM is -1.    *)
Connect ==
  /\ Up
  /\ client = "connect"
  /\ CoreFree
  /\ \/ /\ nc' = [nc EXCEPT ![conn].pcb = "synsent", ![conn].state = "connect"]
        /\ client' = "connecting"
        /\ UNCHANGED ret
     \/ /\ ret' = "MEM"
        /\ client' = "close"
        /\ UNCHANGED nc
     \/ /\ ret' = "other"
        /\ client' = "take"
        /\ UNCHANGED nc
  /\ UNCHANGED <<poolVars, bell, recvVars, stack, hostVars, outVars, joined>>

(* The completion of a connect or a write is taken from op_completed; the  *)
(* test for -1 follows the connect, and nothing looks at ret of a write.   *)
Completed ==
  /\ Up
  /\ client \in {"connecting", "writing"}
  /\ CoreFree
  /\ nc[conn].sem > 0
  /\ nc' = [nc EXCEPT ![conn].sem = @ - 1]
  /\ client' = IF client = "connecting" /\ ret = "MEM" THEN "close" ELSE "take"
  /\ UNCHANGED <<poolVars, ret, bell, recvVars, stack, hostVars, outVars, joined>>

(* netconn_close after ERR_MEM: netconn_drain frees recvmbox, tcp_close    *)
(* frees the pcb.  The netconn itself is never deleted.                    *)
Close ==
  /\ Up
  /\ client = "close"
  /\ CoreFree
  /\ nc' = [nc EXCEPT ![conn].pcb = "none", ![conn].valid = FALSE, ![conn].recvmbox = <<>>]
  /\ client' = "delay"
  /\ UNCHANGED <<poolVars, ret, bell, recvVars, stack, hostVars, outVars, joined>>

(* ulTaskNotifyTake returns; the report is scanned (see StatusReport).     *)
Take ==
  /\ Up
  /\ client = "take"
  /\ bell
  /\ bell' = FALSE
  /\ client' = "write"
  /\ UNCHANGED <<poolVars, nc, ret, recvVars, stack, hostVars, outVars, joined>>

(* lwip_netconn_do_write: a pending error is returned once, a missing or   *)
(* closed pcb is ERR_CONN, else the message is queued or, if the send      *)
(* buffer is full, the client waits for sent_tcp or poll_tcp.              *)
Write ==
  /\ Up
  /\ client = "write"
  /\ CoreFree
  /\ \/ /\ nc[conn].pending
        /\ nc' = [nc EXCEPT ![conn].pending = FALSE]
        /\ ret' = "other"
        /\ client' = "take"
     \/ /\ ~nc[conn].pending
        /\ nc[conn].pcb \in {"none", "closed"}
        /\ ret' = "other"
        /\ client' = "take"
        /\ UNCHANGED nc
     \/ /\ ~nc[conn].pending
        /\ nc[conn].pcb \in {"established", "closewait"}
        /\ \/ ret' = "OK" /\ client' = "take" /\ UNCHANGED nc
           \/ /\ nc' = [nc EXCEPT ![conn].state = "write"]
              /\ client' = "writing"
              /\ UNCHANGED ret
  /\ UNCHANGED <<poolVars, bell, recvVars, stack, hostVars, outVars, joined>>

-----------------------------------------------------------------------------
(* The TCP/IP thread.                                                      *)

(* lwip_netconn_do_connected: the host has accepted.                       *)
Connected(c) ==
  /\ Up
  /\ CoreFree
  /\ nc[c].pcb = "synsent"
  /\ nc' = [nc EXCEPT ![c].pcb = "established", ![c].state = "none", ![c].sem = @ + 1]
  /\ ret' = "OK"
  /\ joined' = TRUE
  /\ UNCHANGED <<poolVars, client, bell, recvVars, stack, hostVars, outVars>>

(* mutant: space is not checked, the segment is posted and lost            *)
RecvTcpDropsWhenFull(c) ==
  /\ Up
  /\ CoreFree
  /\ nc[c].pcb = "established"
  /\ wire # <<>>
  /\ wire' = Tail(wire)
  /\ nc' = IF Len(nc[c].recvmbox) < MboxSize
             THEN [nc EXCEPT ![c].recvmbox = Append(@, Data(Head(wire)))]
             ELSE nc
  /\ UNCHANGED <<poolVars, clientVars, bell, recvVars, stack, sent, outVars, joined>>

(* mutant: the mailbox is taken to have room                               *)
RecvTcpUnchecked(c) ==
  /\ Up
  /\ CoreFree
  /\ nc[c].pcb = "established"
  /\ wire # <<>>
  /\ nc' = [nc EXCEPT ![c].recvmbox = Append(@, Data(Head(wire)))]
  /\ wire' = Tail(wire)
  /\ UNCHANGED <<poolVars, clientVars, bell, recvVars, stack, sent, outVars, joined>>

(* recv_tcp: a segment is posted if the mailbox has room; if not, it is    *)
(* kept as refused_data and presented again, nothing after it passing.     *)
RecvTcp(c) ==
  /\ Up
  /\ CoreFree
  /\ nc[c].pcb = "established"
  /\ wire # <<>>
  /\ Len(nc[c].recvmbox) < MboxSize
  /\ nc' = [nc EXCEPT ![c].recvmbox = Append(@, Data(Head(wire)))]
  /\ wire' = Tail(wire)
  /\ UNCHANGED <<poolVars, clientVars, bell, recvVars, stack, sent, outVars, joined>>

(* recv_tcp with no pbuf, after all data: the host has closed its side.    *)
(* TCP_EVENT_CLOSED ignores the result: with a full mailbox nothing is     *)
(* posted, now or later.                                                   *)
RecvFin(c) ==
  /\ Up
  /\ CoreFree
  /\ nc[c].pcb = "established"
  /\ wire = <<>>
  /\ nc' = [nc EXCEPT ![c].pcb = "closewait",
                      ![c].recvmbox = IF Len(@) < MboxSize THEN Append(@, Closed) ELSE @]
  /\ UNCHANGED <<poolVars, clientVars, bell, recvVars, stack, hostVars, outVars, joined>>

(* mutant: the delayed completion is not signalled                         *)
WriteMoreSilent(c) ==
  /\ Up
  /\ CoreFree
  /\ nc[c].state = "write"
  /\ nc' = [nc EXCEPT ![c].state = "none"]
  /\ ret' = "OK"
  /\ UNCHANGED <<poolVars, client, bell, recvVars, stack, hostVars, outVars, joined>>

(* sent_tcp or poll_tcp: lwip_netconn_do_writemore finds room and wakes    *)
(* the writer.                                                             *)
WriteMore(c) ==
  /\ Up
  /\ CoreFree
  /\ nc[c].state = "write"
  /\ nc' = [nc EXCEPT ![c].state = "none", ![c].sem = @ + 1]
  /\ ret' \in {"OK", "other"}
  /\ UNCHANGED <<poolVars, client, bell, recvVars, stack, hostVars, outVars, joined>>

(* mutant: MBOXCLOSED is not set                                           *)
ErrTcpKeepsMboxOpen(c) ==
  /\ Up
  /\ CoreFree
  /\ Live(c)
  /\ nc' = [nc EXCEPT ![c].pcb = "none", ![c].state = "none", ![c].pending = TRUE]
  /\ stack' = [at |-> "post", conn |-> c, wake |-> nc[c].state # "none"]
  /\ wire' = <<>>
  /\ UNCHANGED <<poolVars, clientVars, bell, recvVars, sent, outVars, joined>>

(* mutant: the operation under way is forgotten before it is looked at     *)
ErrTcpForgetsWaiter(c) ==
  /\ Up
  /\ CoreFree
  /\ Live(c)
  /\ nc' = [nc EXCEPT ![c].pcb = "none", ![c].pending = TRUE,
                      ![c].mboxclosed = TRUE, ![c].state = "none"]
  /\ stack' = [at |-> "post", conn |-> c, wake |-> FALSE]
  /\ wire' = <<>>
  /\ UNCHANGED <<poolVars, clientVars, bell, recvVars, sent, outVars, joined>>

(* err_tcp, from a refusal, a reset or a retransmission limit.  First,     *)
(* under protection, the pcb goes, the error is pending, MBOXCLOSED is     *)
(* set and the state is reset ...                                          *)
ErrTcp(c) ==
  /\ Up
  /\ CoreFree
  /\ Live(c)
  /\ nc' = [nc EXCEPT ![c].pcb = "none", ![c].pending = TRUE,
                      ![c].mboxclosed = TRUE, ![c].state = "none"]
  /\ stack' = [at |-> "post", conn |-> c, wake |-> nc[c].state # "none"]
  /\ wire' = <<>>
  /\ UNCHANGED <<poolVars, clientVars, bell, recvVars, sent, outVars, joined>>

(* ... then the error is posted, if the mailbox has room ...               *)
ErrPost ==
  /\ Up
  /\ stack.at = "post"
  /\ nc' = [nc EXCEPT ![stack.conn].recvmbox =
              IF nc[stack.conn].valid /\ Len(@) < MboxSize THEN Append(@, Error) ELSE @]
  /\ stack' = [stack EXCEPT !.at = "signal"]
  /\ UNCHANGED <<poolVars, clientVars, bell, recvVars, hostVars, outVars, joined>>

(* ... and a connect or a write that was under way is completed.           *)
ErrSignal ==
  /\ Up
  /\ stack.at = "signal"
  /\ stack' = Idle
  /\ IF stack.wake
       THEN /\ nc' = [nc EXCEPT ![stack.conn].sem = @ + 1]
            /\ ret' = "other"
       ELSE UNCHANGED <<nc, ret>>
  /\ UNCHANGED <<poolVars, client, bell, recvVars, hostVars, outVars, joined>>

-----------------------------------------------------------------------------
(* The clientrecv task.                                                    *)

(* The client task waits, so that AppTaskCreate may run.                   *)
ClientWaits ==
  \/ client = "delay"
  \/ client = "take" /\ ~bell
  \/ client \in {"connecting", "writing"} /\ nc[conn].sem = 0

(* mutant: AppTaskCreate has a priority above client                       *)
StartRecvAnyTime ==
  /\ Up
  /\ recv = "absent"
  /\ recv' \in {"call", "failed"}
  /\ UNCHANGED <<poolVars, nc, clientVars, bell, rconn, item, stack, hostVars, outVars, joined>>

(* AppTaskCreate goes on from client_init to clientrecv_init; xTaskCreate  *)
(* may fail for want of heap.                                              *)
StartRecv ==
  /\ Up
  /\ recv = "absent"
  /\ ClientWaits
  /\ CoreFree
  /\ recv' \in {"call", "failed"}
  /\ UNCHANGED <<poolVars, nc, clientVars, bell, rconn, item, stack, hostVars, outVars, joined>>

(* netconn_recv: ERR_ARG without a netconn, ERR_CONN without a mailbox;    *)
(* otherwise the flags say whether the fetch may block.                    *)
RecvCall ==
  /\ Up
  /\ recv = "call"
  /\ rconn' = conn
  /\ recv' = IF conn = Null \/ ~nc[conn].valid THEN "returned"
             ELSE IF nc[conn].mboxclosed \/ nc[conn].pending THEN "poll" ELSE "wait"
  /\ UNCHANGED <<poolVars, nc, clientVars, bell, item, stack, hostVars, outVars, joined>>

(* sys_arch_mbox_fetch, sys_arch_mbox_tryfetch: an item is there.          *)
RecvFetch ==
  /\ Up
  /\ recv \in {"wait", "poll"}
  /\ nc[rconn].recvmbox # <<>>
  /\ item' = Head(nc[rconn].recvmbox)
  /\ nc' = [nc EXCEPT ![rconn].recvmbox = Tail(@)]
  /\ recv' = "got"
  /\ UNCHANGED <<poolVars, clientVars, bell, rconn, stack, hostVars, outVars, joined>>

(* sys_arch_mbox_tryfetch: empty.  netconn_err resets the pending error;   *)
(* every one of ERR_CONN, ERR_WOULDBLOCK and the error ends the loop.      *)
RecvEmpty ==
  /\ Up
  /\ recv = "poll"
  /\ nc[rconn].recvmbox = <<>>
  /\ nc' = [nc EXCEPT ![rconn].pending = FALSE]
  /\ recv' = "returned"
  /\ UNCHANGED <<poolVars, clientVars, bell, rconn, item, stack, hostVars, outVars, joined>>

(* mutant: the body of the inner loop runs once more for the same segment  *)
HandleTwice ==
  /\ Up
  /\ recv = "got"
  /\ item.kind = "data"
  /\ CoreFree
  /\ taken' = Append(Append(taken, item.cmds), item.cmds)
  /\ recv' = "call"
  /\ UNCHANGED <<poolVars, nc, clientVars, led, bell, rconn, item, stack, hostVars, joined>>

(* mutant: a "query" falls through to the toggle of the output             *)
HandleFallsThrough ==
  /\ Up
  /\ recv = "got"
  /\ item.kind = "data"
  /\ CoreFree
  /\ led' = ~led
  /\ bell' = (bell \/ item.cmds[1] = "query")
  /\ taken' = Append(taken, item.cmds)
  /\ recv' = "call"
  /\ UNCHANGED <<poolVars, nc, clientVars, rconn, item, stack, hostVars, joined>>

(* A segment: lwip_netconn_do_recv opens the window, then the loop body    *)
(* compares the start of the payload, and only that, with the commands.    *)
Handle ==
  /\ Up
  /\ recv = "got"
  /\ item.kind = "data"
  /\ CoreFree
  /\ LET c == item.cmds[1] IN
       /\ led' = IF c = "LED" THEN ~led ELSE led
       /\ bell' = (bell \/ c = "query")
  /\ taken' = Append(taken, item.cmds)
  /\ recv' = "call"
  /\ UNCHANGED <<poolVars, nc, clientVars, rconn, item, stack, hostVars, joined>>

(* The host has closed: without a pcb the error or ERR_RST is returned,    *)
(* with one the receiving side is shut down (netconn_drain) unless a write *)
(* is under way, and ERR_CLSD is returned.                                 *)
RecvClosed ==
  /\ Up
  /\ recv = "got"
  /\ item.kind = "netconn_closed"
  /\ CoreFree
  /\ recv' = "returned"
  /\ nc' = IF nc[rconn].pcb = "none" THEN [nc EXCEPT ![rconn].pending = FALSE]
           ELSE IF nc[rconn].state # "none" THEN nc
           ELSE [nc EXCEPT ![rconn].valid = FALSE, ![rconn].recvmbox = <<>>]
  /\ UNCHANGED <<poolVars, clientVars, bell, rconn, item, stack, hostVars, outVars, joined>>

(* An error message: netconn_recv returns it and the loop ends.            *)
RecvError ==
  /\ Up
  /\ recv = "got"
  /\ item.kind = "err"
  /\ recv' = "returned"
  /\ UNCHANGED <<poolVars, nc, clientVars, bell, rconn, item, stack, hostVars, outVars, joined>>

-----------------------------------------------------------------------------
(* The host, and whatever else rings the client's bell (StatusReport).     *)
HostSend(c) ==
  /\ Up
  /\ nc[c].pcb = "established"
  /\ Len(sent) < MaxSegs
  /\ \E s \in Segments : sent' = Append(sent, s) /\ wire' = Append(wire, s)
  /\ UNCHANGED <<poolVars, nc, clientVars, bell, recvVars, stack, outVars, joined>>

Ring ==
  /\ Up
  /\ bell' = TRUE
  /\ UNCHANGED <<poolVars, nc, clientVars, recvVars, stack, hostVars, outVars, joined>>

-----------------------------------------------------------------------------
Client == NetconnNew \/ Delayed \/ Connect \/ Completed \/ Close \/ Take \/ Write
Recv == RecvCall \/ RecvFetch \/ RecvEmpty \/ Handle \/ RecvClosed \/ RecvError
ErrRest == ErrPost \/ ErrSignal
Stack(c) == Connected(c) \/ RecvTcp(c) \/ RecvFin(c) \/ WriteMore(c) \/ ErrTcp(c)

(* clientrecv returns from its function into prvTaskExitError.             *)
TaskExit ==
  /\ ~halted
  /\ recv = "returned"
  /\ halted' = TRUE
  /\ UNCHANGED <<poolVars, nc, clientVars, bell, recvVars, stack, hostVars, outVars, joined>>

(* for( ;; ) with interrupts disabled.                                     *)
Spin == halted /\ UNCHANGED vars

Next ==
  \/ Client
  \/ StartRecv
  \/ Recv
  \/ ErrRest
  \/ Ring
  \/ \E c \in Conns : Stack(c) \/ HostSend(c)
  \/ TaskExit
  \/ Spin

Spec == Init /\ [][Next]_vars

(* Fairness.  The client, clientrecv and the TCP/IP thread run in the end  *)
(* when they are ready; AppTaskCreate may wait for ever for a client that  *)
(* the bell keeps busy.  A SYN is answered or given up, and while the      *)
(* connection stands the host acknowledges what is written; it owes no     *)
(* commands.                                                               *)
FairSpec ==
  /\ Spec
  /\ WF_vars(Client)
  /\ WF_vars(Recv)
  /\ WF_vars(ErrRest)
  /\ WF_vars(TaskExit)
  /\ \A c \in Conns :
       /\ WF_vars(nc[c].pcb = "synsent" /\ (Connected(c) \/ ErrTcp(c)))
       /\ WF_vars(RecvTcp(c))
       /\ WF_vars(WriteMore(c))

-----------------------------------------------------------------------------
(* Every wait of the client on op_completed is owed a signal: the netconn  *)
(* still has the operation and a pcb to complete it, err_tcp is on its way *)
(* to the signal, or the token is there; and a token is there only for a   *)
(* wait, so that no later operation completes on an old one                *)
(* (lwip_netconn_do_connect, lwip_netconn_do_write, err_tcp).              *)
CompletionOwed ==
  /\ client \in {"connecting", "writing"} =>
       \/ nc[conn].sem = 1
       \/ nc[conn].state # "none" /\ Live(conn)
       \/ stack.at # "idle" /\ stack.conn = conn /\ stack.wake
  /\ \A c \in Conns : nc[c].sem > 0 =>
       c = conn /\ client \in {"connecting", "writing"} /\ nc[c].state = "none"

(* clientrecv never blocks on a mailbox nobody will post to again: once    *)
(* MBOXCLOSED is set, a blocking fetch already chosen still finds an item, *)
(* or the error is about to be posted (netconn_recv_data against err_tcp). *)
ReceiverWillHear ==
  recv = "wait" /\ nc[rconn].pcb = "none" =>
    \/ nc[rconn].recvmbox # <<>>
    \/ stack.at = "post" /\ stack.conn = rconn

(* The mailbox clientrecv reads from is never freed under it, although     *)
(* netconn_close of the client frees mailboxes without looking: by the     *)
(* priorities clientrecv starts only when the client is past that close.   *)
MailboxAlive == recv \in {"wait", "poll"} => nc[rconn].valid /\ rconn = conn

(* A mailbox that is full loses no command and reorders none: while the    *)
(* connection stands, what is acted upon, held, in the mailbox and on the  *)
(* wire is, in this order, what the host has sent, and no notice of an end *)
(* or an error is among it (recv_tcp, clientrecv).                         *)
CmdsOf(q) == [k \in DOMAIN q |-> q[k].cmds]
Held == IF recv = "got" /\ item.kind = "data" THEN <<item.cmds>> ELSE <<>>
NothingLost ==
  conn # Null /\ nc[conn].pcb = "established" =>
    taken \o Held \o CmdsOf(nc[conn].recvmbox) \o wire = sent

(* The command path implements the pipe, whatever happens to the           *)
(* connection (clientrecv, recv_tcp, err_tcp).                             *)
Pipe == INSTANCE CommandPipe
ImplementsPipe == Pipe!Spec

(* When all the host has sent has been acted upon, the output is what the  *)
(* host's commands make it: toggled once for each of them (README.md:15 of *)
(* the repository; clientrecv).                                            *)
LedCommands ==
  {p \in (1 .. Len(sent)) \X (1 .. MaxBatch) :
     p[2] <= Len(sent[p[1]]) /\ sent[p[1]][p[2]] = "LED"}
CommandsObeyed ==
  Len(taken) = Len(sent) => led = (Cardinality(LedCommands) % 2 = 1)

(* Once clientrecv has been created every segment is acted upon, unless    *)
(* the connection is lost or the module halts (recv_tcp, clientrecv).      *)
SegmentServed ==
  \A n \in 1 .. MaxSegs :
    Len(sent) >= n /\ recv \notin {"absent", "failed"} ~>
      Len(taken) >= n \/ halted \/ conn = Null \/ ~Live(conn)

(* netconn_connect and netconn_write return, or the module has halted.     *)
OperationReturns ==
  client \in {"connecting", "writing"} ~>
    (client \notin {"connecting", "writing"} \/ halted)

(* "A function that implements a task must not exit or attempt to return   *)
(* to its caller" (port.c:265).                                            *)
TaskNeverReturns == recv # "returned"

(* "Connect to server successful!" (client.c:88): the client is past its   *)
(* connect only with a connection that was established.                    *)
ConnectSuccessful == client \in {"take", "write", "writing"} => joined
=============================================================================
