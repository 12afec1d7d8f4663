--------------------------- MODULE HostLinkProofs ---------------------------
(***************************************************************************)
(* Proofs about HostLink, for every number of netconns, every size of the  *)
(* mailbox and every number and length of segments: every wait of the      *)
(* client is owed its signal, clientrecv does not block on a dead mailbox, *)
(* and no mailbox is freed under it.                                       *)
(*                                                                         *)
(* Everything rests on there being one netconn in use: those before conn   *)
(* have been closed, those after it are Fresh (Elsewhere), and the client  *)
(* gives up conn only before it has been connected.  Of conn itself it is  *)
(* known that the operation under way, the pcb and the client's place go   *)
(* together (Operation), that err_tcp keeps the core lock between its      *)
(* three steps (InErr), and that clientrecv has nothing to read from while *)
(* the client may still change conn (Reader).                              *)
(***************************************************************************)
EXTENDS HostLink, TLAPS

Trying == {"new", "delay", "connect", "close"}
Waiting == {"connecting", "writing"}
Open == {"connecting", "take", "write", "writing"}
Reading == {"wait", "poll", "got"}

Elsewhere ==
  \A d \in Conns : d # conn =>
    /\ nc[d].pcb \in {"none", "closed"}
    /\ nc[d].state = "none"
    /\ nc[d].sem = 0
    /\ d > used => nc[d] = Fresh

InUse ==
  /\ client \notin {"new", "delay"} => conn # Null
  /\ client = "connect" => nc[conn] = Fresh
  /\ client \in Trying /\ conn # Null => nc[conn].pcb \in {"none", "closed"}
Operation ==
  conn # Null =>
    /\ nc[conn].pcb = "synsent" <=> nc[conn].state = "connect"
    /\ nc[conn].state = "connect" => client = "connecting"
    /\ nc[conn].state = "write" =>
         client = "writing" /\ nc[conn].pcb \in {"established", "closewait"}
    /\ nc[conn].sem > 0 =>
         /\ client \in Waiting /\ nc[conn].state = "none"
         /\ client = "connecting" => ret # "MEM"
    /\ client \in Waiting =>
         \/ nc[conn].sem = 1
         \/ nc[conn].state # "none"
         \/ stack.at # "idle" /\ stack.wake
InErr ==
  stack.at # "idle" =>
    /\ stack.conn = conn /\ conn # Null /\ client \in Open
    /\ nc[conn].pcb = "none"
    /\ stack.wake => client \in Waiting /\ nc[conn].sem = 0
Reader ==
  /\ recv \in {"call"} \cup Reading => client \in Open \cup {"delay"}
  /\ recv \in Reading => client \in Open /\ rconn = conn
  /\ client \in {"new", "delay"} /\ conn # Null => ~nc[conn].valid
  /\ client \in Open /\ nc[conn].pcb = "none" => nc[conn].mboxclosed
  /\ client \in Open /\ recv # "returned" => nc[conn].valid
  /\ recv = "wait" /\ nc[conn].pcb = "none" =>
       nc[conn].recvmbox # <<>> \/ stack.at = "post"

Here == InUse /\ Operation /\ InErr /\ Reader
Inv == TypeOK /\ Elsewhere /\ Here

-----------------------------------------------------------------------------
(* The netconn in use is one of the pool, and a netconn's fields have      *)
(* their types.                                                            *)
LEMMA ConnInPool == TypeOK /\ conn # Null => conn \in Conns /\ conn <= used
  BY LinkAssumption DEF TypeOK, Conns, Null

LEMMA NetconnFields ==
  ASSUME TypeOK, NEW c \in Conns
  PROVE  /\ nc[c].pcb \in {"none", "closed", "synsent", "established", "closewait"}
         /\ nc[c].state \in {"none", "connect", "write"}
         /\ nc[c].pending \in BOOLEAN /\ nc[c].mboxclosed \in BOOLEAN
         /\ nc[c].valid \in BOOLEAN
         /\ nc[c].recvmbox \in Seq(Items) /\ Len(nc[c].recvmbox) <= MboxSize
         /\ nc[c].sem \in {0, 1}
  BY DEF TypeOK, Netconns

(* At first there is no netconn and nobody runs.                           *)
LEMMA InitInv == Init => Inv
<1> SUFFICES ASSUME Init
             PROVE  Inv
  OBVIOUS
<1>1. TypeOK
  <2>1. Fresh \in Netconns
    BY DEF Fresh, Netconns
  <2>2. nc \in [Conns -> Netconns]
    BY <2>1 DEF Init
  <2>3. Closed \in Items
    BY DEF Items
  <2>4. \A c \in Conns : Len(nc[c].recvmbox) <= MboxSize /\ nc[c].sem <= 1
    BY LinkAssumption DEF Init, Fresh
  <2>5. stack \in [at : {"idle", "post", "signal"}, conn : 0 .. Pool, wake : BOOLEAN]
    BY LinkAssumption DEF Init, Idle, Null
  <2>6. wire \in Seq(Segments) /\ sent \in Seq(Segments) /\ taken \in Seq(Segments)
    BY DEF Init
  <2>7. conn \in 0 .. used /\ used \in 0 .. Pool /\ rconn \in 0 .. Pool /\ item \in Items
    BY <2>3, LinkAssumption DEF Init, Null
  <2>8. QED
    BY <2>2, <2>4, <2>5, <2>6, <2>7 DEF Init, TypeOK
<1>2. Elsewhere /\ Here
  BY DEF Init, Elsewhere, Here, InUse, Operation, InErr, Reader, Reading, Fresh, Open, Idle
<1>3. QED
  BY <1>1, <1>2 DEF Inv

(* A step that changes one netconn leaves the others as they are.          *)
LEMMA OneChanged ==
  ASSUME TypeOK, NEW c \in Conns, NEW r \in Netconns, nc' = [nc EXCEPT ![c] = r],
         Len(r.recvmbox) <= MboxSize, r.sem <= 1
  PROVE  /\ nc' \in [Conns -> Netconns]
         /\ nc'[c] = r
         /\ \A d \in Conns : d # c => nc'[d] = nc[d]
         /\ \A d \in Conns : Len(nc'[d].recvmbox) <= MboxSize /\ nc'[d].sem <= 1
  BY DEF TypeOK
(* Only the netconn in use is connected or has an operation under way.     *)
LEMMA BusyIsInUse ==
  ASSUME Inv, NEW c \in Conns, nc[c].pcb \notin {"none", "closed"} \/ nc[c].state # "none"
  PROVE  c = conn /\ conn # Null /\ client \in Open
<1>1. c = conn /\ conn # Null
  BY DEF Inv, Elsewhere, Conns, Null
<1>2. client \notin Trying
  BY <1>1, NetconnFields DEF Inv, Here, InUse, Operation, Trying
<1>3. QED
  BY <1>1, <1>2 DEF Inv, TypeOK, Trying, Open

(* What can be in a mailbox.                                               *)
LEMMA ItemTypes ==
  /\ Closed \in Items /\ Error \in Items
  /\ \A s \in Segments : Data(s) \in Items
  /\ <<>> \in Seq(Items) /\ Len(<<>>) = 0
  BY DEF Items

(* A mailbox after a post.                                                 *)
LEMMA Appended ==
  ASSUME NEW q \in Seq(Items), NEW x \in Items
  PROVE  /\ Append(q, x) \in Seq(Items) /\ Append(q, x) # <<>>
         /\ Len(q) < MboxSize => Len(Append(q, x)) <= MboxSize
         /\ Len(q) >= MboxSize => q # <<>>
<1>1. Append(q, x) \in Seq(Items) /\ Len(Append(q, x)) = Len(q) + 1 /\ Len(q) \in Nat
  OBVIOUS
<1>2. \A s : s = <<>> => Len(s) = 0
  OBVIOUS
<1>3. QED
  BY <1>1, <1>2, LinkAssumption

-----------------------------------------------------------------------------
(* The client task.                                                        *)

(* netconn_new hands out a netconn nobody has used, or none.               *)
LEMMA NewKeeps ==
  ASSUME Inv, NetconnNew
  PROVE  Inv'
<1> USE LinkAssumption DEF Inv, Here
<1>1. /\ client = "new" /\ stack.at = "idle"
      /\ UNCHANGED <<nc, ret, bell, recv, rconn, item, stack, wire, sent, led, taken,
                     joined, halted>>
      /\ \/ used < Pool /\ used' = used + 1 /\ conn' = used + 1 /\ client' = "connect"
         \/ conn' = Null /\ client' = "delay" /\ used' = used
  BY DEF NetconnNew, Up, CoreFree, recvVars, hostVars, outVars
<1>2. conn # Null =>
        nc[conn].pcb \in {"none", "closed"} /\ nc[conn].state = "none" /\ nc[conn].sem = 0
  BY <1>1, ConnInPool, NetconnFields DEF InUse, Operation, Trying, Waiting
<1>3. client' = "connect" <=> conn' # Null
  BY <1>1 DEF TypeOK, Null
<1>a. conn' # Null => conn' \in Conns /\ conn' > used /\ conn' # conn /\ nc[conn'] = Fresh
  BY <1>1 DEF TypeOK, Elsewhere, Conns, Null
<1>4. TypeOK'
  BY <1>1 DEF TypeOK, Null
<1>5. Elsewhere'
  BY <1>1, <1>2 DEF TypeOK, Elsewhere, Conns, Null
<1>6. InUse' /\ Operation'
  BY <1>1, <1>3, <1>a DEF InUse, Operation, Trying, Waiting, Fresh
<1>7. InErr' /\ Reader'
  BY <1>1 DEF InErr, Reader, Reading, Open
<1>8. QED
  BY <1>4, <1>5, <1>6, <1>7

(* lwip_netconn_do_connect queues the SYN: from here a signal is owed.     *)
LEMMA ConnectStartsKeeps ==
  ASSUME Inv, Connect, client' = "connecting"
  PROVE  Inv'
<1> USE LinkAssumption DEF Inv, Here
<1>0. /\ conn \in Conns /\ nc[conn] \in Netconns /\ nc[conn].sem \in {0, 1}
      /\ Len(nc[conn].recvmbox) <= MboxSize
      /\ client = "connect" /\ nc[conn].valid /\ nc[conn].sem = 0 /\ stack.at = "idle"
  BY ConnInPool, NetconnFields
  DEF Connect, InUse, Operation, InErr, Reader, Reading, Open, Waiting, Live, CoreFree, TypeOK, Fresh
<1> DEFINE r == [nc[conn] EXCEPT !.pcb = "synsent", !.state = "connect"]
<1>1. /\ UNCHANGED <<conn, used, ret, bell, recv, rconn, item, stack, wire,
                     sent, led, taken, joined, halted>>
      /\ client' = "connecting"
      /\ nc' = [nc EXCEPT ![conn] = r]
  BY <1>0 DEF Connect, Up, poolVars, clientVars, recvVars, hostVars, outVars, TypeOK
<1>2. /\ r \in Netconns /\ Len(r.recvmbox) <= MboxSize /\ r.sem <= 1
      /\ r.pending = nc[conn].pending /\ r.mboxclosed = nc[conn].mboxclosed
      /\ r.valid = nc[conn].valid /\ r.recvmbox = nc[conn].recvmbox
      /\ r.sem = nc[conn].sem
      /\ r.pcb = "synsent"
      /\ r.state = "connect"
  <2>1. nc[conn] \in Netconns /\ nc[conn].sem \in {0, 1} /\ Len(nc[conn].recvmbox) <= MboxSize
    BY <1>0
  <2>2. r \in Netconns
    BY <2>1 DEF Netconns
  <2>3. QED
    BY <2>1, <2>2 DEF Netconns
<1> HIDE DEF r
<1>3. /\ nc' \in [Conns -> Netconns]
      /\ nc'[conn] = r
      /\ \A d \in Conns : d # conn => nc'[d] = nc[d]
      /\ \A d \in Conns : Len(nc'[d].recvmbox) <= MboxSize /\ nc'[d].sem <= 1
  BY <1>0, <1>1, <1>2, OneChanged
<1>4. TypeOK'
  BY <1>1, <1>2, <1>3 DEF TypeOK
<1>5. Elsewhere'
  BY <1>1, <1>3 DEF Elsewhere
<1>6. InUse' /\ Operation'
  BY <1>0, <1>1, <1>2, <1>3 DEF InUse, Operation, Reader, Trying, Waiting, Open
<1>7. InErr' /\ Reader'
  BY <1>0, <1>1, <1>2, <1>3 DEF Operation, InErr, Reader, Waiting, Open, Reading
<1>8. QED
  BY <1>4, <1>5, <1>6, <1>7

(* The completion is taken; nothing of the operation is left.              *)
LEMMA CompletedKeeps ==
  ASSUME Inv, Completed
  PROVE  Inv'
<1> USE LinkAssumption DEF Inv, Here
<1>0. /\ conn \in Conns /\ nc[conn] \in Netconns /\ nc[conn].sem \in {0, 1}
      /\ Len(nc[conn].recvmbox) <= MboxSize
      /\ client \in {"connecting", "writing"} /\ stack.at = "idle"
      /\ nc[conn].sem = 1 /\ nc[conn].state = "none" /\ (client = "connecting" => ret # "MEM")
  BY ConnInPool, NetconnFields
  DEF Completed, InUse, Operation, InErr, Reader, Reading, Open, Waiting, Live, CoreFree, TypeOK
<1> DEFINE r == [nc[conn] EXCEPT !.sem = 0]
<1>1. /\ UNCHANGED <<conn, used, ret, bell, recv, rconn, item, stack, wire,
                     sent, led, taken, joined, halted>>
      /\ client' = "take"
      /\ nc' = [nc EXCEPT ![conn] = r]
  BY <1>0 DEF Completed, Up, poolVars, clientVars, recvVars, hostVars, outVars, TypeOK
<1>2. /\ r \in Netconns /\ Len(r.recvmbox) <= MboxSize /\ r.sem <= 1
      /\ r.pcb = nc[conn].pcb /\ r.state = nc[conn].state
      /\ r.pending = nc[conn].pending /\ r.mboxclosed = nc[conn].mboxclosed
      /\ r.valid = nc[conn].valid /\ r.recvmbox = nc[conn].recvmbox
      /\ r.sem = 0
  <2>1. nc[conn] \in Netconns /\ nc[conn].sem \in {0, 1} /\ Len(nc[conn].recvmbox) <= MboxSize
    BY <1>0
  <2>2. r \in Netconns
    BY <2>1 DEF Netconns
  <2>3. QED
    BY <2>1, <2>2 DEF Netconns
<1> HIDE DEF r
<1>3. /\ nc' \in [Conns -> Netconns]
      /\ nc'[conn] = r
      /\ \A d \in Conns : d # conn => nc'[d] = nc[d]
      /\ \A d \in Conns : Len(nc'[d].recvmbox) <= MboxSize /\ nc'[d].sem <= 1
  BY <1>0, <1>1, <1>2, OneChanged
<1>4. TypeOK'
  BY <1>1, <1>2, <1>3 DEF TypeOK
<1>5. Elsewhere'
  BY <1>1, <1>3 DEF Elsewhere
<1>6. InUse' /\ Operation'
  BY <1>0, <1>1, <1>2, <1>3 DEF InUse, Operation, Reader, Trying, Waiting, Open
<1>7. InErr' /\ Reader'
  BY <1>0, <1>1, <1>2, <1>3 DEF Operation, InErr, Reader, Waiting, Open, Reading
<1>8. QED
  BY <1>4, <1>5, <1>6, <1>7

(* The client closes a netconn that only it knows of.                      *)
LEMMA CloseKeeps ==
  ASSUME Inv, Close
  PROVE  Inv'
<1> USE LinkAssumption DEF Inv, Here
<1>0. /\ conn \in Conns /\ nc[conn] \in Netconns /\ nc[conn].sem \in {0, 1}
      /\ Len(nc[conn].recvmbox) <= MboxSize
      /\ client = "close" /\ stack.at = "idle" /\ nc[conn].sem = 0 /\ nc[conn].state = "none"
  BY ConnInPool, NetconnFields
  DEF Close, InUse, Operation, InErr, Reader, Reading, Open, Waiting, Live, CoreFree, TypeOK
<1> DEFINE m == <<>>
<1>m. m \in Seq(Items) /\ Len(m) <= MboxSize
  BY <1>0, NetconnFields, ItemTypes, Appended
<1> DEFINE r == [nc[conn] EXCEPT !.pcb = "none", !.valid = FALSE, !.recvmbox = m]
<1>1. /\ UNCHANGED <<conn, used, ret, bell, recv, rconn, item, stack, wire,
                     sent, led, taken, joined, halted>>
      /\ client' = "delay"
      /\ nc' = [nc EXCEPT ![conn] = r]
  BY <1>0 DEF Close, Up, poolVars, clientVars, recvVars, hostVars, outVars, TypeOK
<1> HIDE DEF m
<1>2. /\ r \in Netconns /\ Len(r.recvmbox) <= MboxSize /\ r.sem <= 1
      /\ r.state = nc[conn].state /\ r.pending = nc[conn].pending
      /\ r.mboxclosed = nc[conn].mboxclosed /\ r.sem = nc[conn].sem
      /\ r.pcb = "none"
      /\ r.valid = FALSE
      /\ r.recvmbox = m
  <2>1. nc[conn] \in Netconns /\ nc[conn].sem \in {0, 1} /\ Len(nc[conn].recvmbox) <= MboxSize
    BY <1>0
  <2>2. r \in Netconns
    BY <2>1, <1>m DEF Netconns
  <2>3. QED
    BY <2>1, <2>2, <1>m DEF Netconns
<1> HIDE DEF r
<1>3. /\ nc' \in [Conns -> Netconns]
      /\ nc'[conn] = r
      /\ \A d \in Conns : d # conn => nc'[d] = nc[d]
      /\ \A d \in Conns : Len(nc'[d].recvmbox) <= MboxSize /\ nc'[d].sem <= 1
  BY <1>0, <1>1, <1>2, OneChanged
<1>4. TypeOK'
  <2>1. stack' \in [at : {"idle", "post", "signal"}, conn : 0 .. Pool, wake : BOOLEAN]
    BY <1>1 DEF TypeOK
  <2>2. QED
    BY <1>1, <1>3, <2>1 DEF TypeOK
<1>5. Elsewhere'
  BY <1>1, <1>3 DEF Elsewhere
<1>6. InUse' /\ Operation'
  BY <1>0, <1>1, <1>2, <1>3, <1>m DEF InUse, Operation, Reader, Trying, Waiting, Open
<1>7. InErr' /\ Reader'
  BY <1>0, <1>1, <1>2, <1>3, <1>m DEF Operation, InErr, Reader, Waiting, Open, Reading
<1>8. QED
  BY <1>4, <1>5, <1>6, <1>7

(* lwip_netconn_do_write returns a pending error, once.                    *)
LEMMA WritePendingKeeps ==
  ASSUME Inv, Write, nc[conn].pending
  PROVE  Inv'
<1> USE LinkAssumption DEF Inv, Here
<1>0. /\ conn \in Conns /\ nc[conn] \in Netconns /\ nc[conn].sem \in {0, 1}
      /\ Len(nc[conn].recvmbox) <= MboxSize
      /\ client = "write" /\ stack.at = "idle" /\ nc[conn].state = "none" /\ nc[conn].sem = 0
  BY ConnInPool, NetconnFields
  DEF Write, InUse, Operation, InErr, Reader, Reading, Open, Waiting, Live, CoreFree, TypeOK
<1> DEFINE r == [nc[conn] EXCEPT !.pending = FALSE]
<1>1. /\ UNCHANGED <<conn, used, bell, recv, rconn, item, stack, wire,
                     sent, led, taken, joined, halted>>
      /\ client' = "take" /\ ret' \in {"OK", "MEM", "other"}
      /\ nc' = [nc EXCEPT ![conn] = r]
  BY <1>0 DEF Write, Up, poolVars, clientVars, recvVars, hostVars, outVars, TypeOK
<1>2. /\ r \in Netconns /\ Len(r.recvmbox) <= MboxSize /\ r.sem <= 1
      /\ r.pcb = nc[conn].pcb /\ r.state = nc[conn].state
      /\ r.mboxclosed = nc[conn].mboxclosed /\ r.valid = nc[conn].valid
      /\ r.recvmbox = nc[conn].recvmbox /\ r.sem = nc[conn].sem
  <2>1. nc[conn] \in Netconns /\ nc[conn].sem \in {0, 1} /\ Len(nc[conn].recvmbox) <= MboxSize
    BY <1>0
  <2>2. r \in Netconns
    BY <2>1 DEF Netconns
  <2>3. QED
    BY <2>1, <2>2 DEF Netconns
<1> HIDE DEF r
<1>3. /\ nc' \in [Conns -> Netconns]
      /\ nc'[conn] = r
      /\ \A d \in Conns : d # conn => nc'[d] = nc[d]
      /\ \A d \in Conns : Len(nc'[d].recvmbox) <= MboxSize /\ nc'[d].sem <= 1
  BY <1>0, <1>1, <1>2, OneChanged
<1>4. TypeOK'
  BY <1>1, <1>2, <1>3 DEF TypeOK
<1>5. Elsewhere'
  BY <1>1, <1>3 DEF Elsewhere
<1>6. InUse' /\ Operation'
  BY <1>0, <1>1, <1>2, <1>3 DEF InUse, Operation, Reader, Trying, Waiting, Open
<1>7. InErr' /\ Reader'
  BY <1>0, <1>1, <1>2, <1>3 DEF Operation, InErr, Reader, Waiting, Open, Reading
<1>8. QED
  BY <1>4, <1>5, <1>6, <1>7

(* The send buffer is full: the client waits for the TCP/IP thread.        *)
LEMMA WriteWaitsKeeps ==
  ASSUME Inv, Write, client' = "writing"
  PROVE  Inv'
<1> USE LinkAssumption DEF Inv, Here
<1>0. /\ conn \in Conns /\ nc[conn] \in Netconns /\ nc[conn].sem \in {0, 1}
      /\ Len(nc[conn].recvmbox) <= MboxSize
      /\ client = "write" /\ stack.at = "idle" /\ nc[conn].sem = 0
      /\ nc[conn].pcb \in {"established", "closewait"}
  BY ConnInPool, NetconnFields
  DEF Write, InUse, Operation, InErr, Reader, Reading, Open, Waiting, Live, CoreFree, TypeOK
<1> DEFINE r == [nc[conn] EXCEPT !.state = "write"]
<1>1. /\ UNCHANGED <<conn, used, ret, bell, recv, rconn, item, stack, wire,
                     sent, led, taken, joined, halted>>
      /\ client' = "writing"
      /\ nc' = [nc EXCEPT ![conn] = r]
  BY <1>0 DEF Write, Up, poolVars, clientVars, recvVars, hostVars, outVars, TypeOK
<1>2. /\ r \in Netconns /\ Len(r.recvmbox) <= MboxSize /\ r.sem <= 1
      /\ r.pcb = nc[conn].pcb /\ r.pending = nc[conn].pending
      /\ r.mboxclosed = nc[conn].mboxclosed /\ r.valid = nc[conn].valid
      /\ r.recvmbox = nc[conn].recvmbox /\ r.sem = nc[conn].sem
      /\ r.state = "write"
  <2>1. nc[conn] \in Netconns /\ nc[conn].sem \in {0, 1} /\ Len(nc[conn].recvmbox) <= MboxSize
    BY <1>0
  <2>2. r \in Netconns
    BY <2>1 DEF Netconns
  <2>3. QED
    BY <2>1, <2>2 DEF Netconns
<1> HIDE DEF r
<1>3. /\ nc' \in [Conns -> Netconns]
      /\ nc'[conn] = r
      /\ \A d \in Conns : d # conn => nc'[d] = nc[d]
      /\ \A d \in Conns : Len(nc'[d].recvmbox) <= MboxSize /\ nc'[d].sem <= 1
  BY <1>0, <1>1, <1>2, OneChanged
<1>4. TypeOK'
  BY <1>1, <1>2, <1>3 DEF TypeOK
<1>5. Elsewhere'
  BY <1>1, <1>3 DEF Elsewhere
<1>6. InUse' /\ Operation'
  BY <1>0, <1>1, <1>2, <1>3 DEF InUse, Operation, Reader, Trying, Waiting, Open
<1>7. InErr' /\ Reader'
  BY <1>0, <1>1, <1>2, <1>3 DEF Operation, InErr, Reader, Waiting, Open, Reading
<1>8. QED
  BY <1>4, <1>5, <1>6, <1>7

-----------------------------------------------------------------------------
(* The TCP/IP thread.                                                      *)
LEMMA ConnectedKeeps ==
  ASSUME Inv, NEW c \in Conns, Connected(c)
  PROVE  Inv'
<1> USE LinkAssumption DEF Inv, Here
<1>c. c = conn /\ conn # Null /\ client \in Open
  BY BusyIsInUse DEF Connected, Live
<1>0. /\ conn \in Conns /\ nc[conn] \in Netconns /\ nc[conn].sem \in {0, 1}
      /\ Len(nc[conn].recvmbox) <= MboxSize
      /\ client = "connecting" /\ stack.at = "idle"
      /\ nc[conn].sem = 0
  BY <1>c, ConnInPool, NetconnFields
  DEF Connected, InUse, Operation, InErr, Reader, Reading, Open, Waiting, Live, CoreFree, TypeOK
<1> DEFINE r == [nc[conn] EXCEPT !.pcb = "established", !.state = "none", !.sem = 1]
<1>1. /\ UNCHANGED <<conn, used, client, bell, recv, rconn, item, stack,
                     wire, sent, led, taken, halted>>
      /\ ret' = "OK" /\ joined' \in BOOLEAN
      /\ nc' = [nc EXCEPT ![conn] = r]
  BY <1>c, <1>0 DEF Connected, Up, poolVars, clientVars, recvVars, hostVars, outVars, TypeOK, Netconns
<1>2. /\ r \in Netconns /\ Len(r.recvmbox) <= MboxSize /\ r.sem <= 1
      /\ r.pending = nc[conn].pending /\ r.mboxclosed = nc[conn].mboxclosed
      /\ r.valid = nc[conn].valid /\ r.recvmbox = nc[conn].recvmbox
      /\ r.pcb = "established"
      /\ r.state = "none"
      /\ r.sem = 1
  <2>1. nc[conn] \in Netconns /\ nc[conn].sem \in {0, 1} /\ Len(nc[conn].recvmbox) <= MboxSize
    BY <1>0
  <2>2. r \in Netconns
    BY <2>1 DEF Netconns
  <2>3. QED
    BY <2>1, <2>2 DEF Netconns
<1> HIDE DEF r
<1>3. /\ nc' \in [Conns -> Netconns]
      /\ nc'[conn] = r
      /\ \A d \in Conns : d # conn => nc'[d] = nc[d]
      /\ \A d \in Conns : Len(nc'[d].recvmbox) <= MboxSize /\ nc'[d].sem <= 1
  BY <1>0, <1>1, <1>2, OneChanged
<1>4. TypeOK'
  BY <1>1, <1>2, <1>3 DEF TypeOK
<1>5. Elsewhere'
  BY <1>1, <1>3 DEF Elsewhere
<1>6. InUse' /\ Operation'
  BY <1>0, <1>1, <1>2, <1>3 DEF InUse, Operation, Reader, Trying, Waiting, Open
<1>7. InErr' /\ Reader'
  BY <1>0, <1>1, <1>2, <1>3 DEF Operation, InErr, Reader, Waiting, Open, Reading
<1>8. QED
  BY <1>4, <1>5, <1>6, <1>7

(* recv_tcp posts a segment where there is room.                           *)
LEMMA RecvTcpKeeps ==
  ASSUME Inv, NEW c \in Conns, RecvTcp(c)
  PROVE  Inv'
<1> USE LinkAssumption DEF Inv, Here
<1>c. c = conn /\ conn # Null /\ client \in Open
  BY BusyIsInUse DEF RecvTcp, Live
<1>0. /\ conn \in Conns /\ nc[conn] \in Netconns /\ nc[conn].sem \in {0, 1}
      /\ Len(nc[conn].recvmbox) <= MboxSize
      /\ stack.at = "idle"
      /\ nc[conn].pcb = "established" /\ Len(nc[conn].recvmbox) < MboxSize
      /\ wire # <<>> /\ wire \in Seq(Segments) /\ Head(wire) \in Segments
  BY <1>c, ConnInPool, NetconnFields
  DEF RecvTcp, InUse, Operation, InErr, Reader, Reading, Open, Waiting, Live, CoreFree, TypeOK
<1> DEFINE m == Append(nc[conn].recvmbox, Data(Head(wire)))
<1>m. m \in Seq(Items) /\ Len(m) <= MboxSize /\ m # <<>>
  BY <1>0, NetconnFields, ItemTypes, Appended
<1> DEFINE r == [nc[conn] EXCEPT !.recvmbox = m]
<1>1. /\ UNCHANGED <<conn, used, client, ret, bell, recv, rconn, item,
                     stack, sent, led, taken, joined, halted>>
      /\ wire' \in Seq(Segments)
      /\ nc' = [nc EXCEPT ![conn] = r]
  BY <1>c, <1>0 DEF RecvTcp, Up, poolVars, clientVars, recvVars, hostVars, outVars, TypeOK
<1> HIDE DEF m
<1>2. /\ r \in Netconns /\ Len(r.recvmbox) <= MboxSize /\ r.sem <= 1
      /\ r.pcb = nc[conn].pcb /\ r.state = nc[conn].state
      /\ r.pending = nc[conn].pending /\ r.mboxclosed = nc[conn].mboxclosed
      /\ r.valid = nc[conn].valid /\ r.sem = nc[conn].sem
      /\ r.recvmbox = m
  <2>1. nc[conn] \in Netconns /\ nc[conn].sem \in {0, 1} /\ Len(nc[conn].recvmbox) <= MboxSize
    BY <1>0
  <2>2. r \in Netconns
    BY <2>1, <1>m DEF Netconns
  <2>3. QED
    BY <2>1, <2>2, <1>m DEF Netconns
<1> HIDE DEF r
<1>3. /\ nc' \in [Conns -> Netconns]
      /\ nc'[conn] = r
      /\ \A d \in Conns : d # conn => nc'[d] = nc[d]
      /\ \A d \in Conns : Len(nc'[d].recvmbox) <= MboxSize /\ nc'[d].sem <= 1
  BY <1>0, <1>1, <1>2, OneChanged
<1>4. TypeOK'
  <2>1. stack' \in [at : {"idle", "post", "signal"}, conn : 0 .. Pool, wake : BOOLEAN]
    BY <1>1 DEF TypeOK
  <2>2. QED
    BY <1>1, <1>3, <2>1 DEF TypeOK
<1>5. Elsewhere'
  BY <1>1, <1>3 DEF Elsewhere
<1>6. InUse' /\ Operation'
  BY <1>0, <1>1, <1>2, <1>3, <1>m DEF InUse, Operation, Reader, Trying, Waiting, Open
<1>7. InErr' /\ Reader'
  BY <1>0, <1>1, <1>2, <1>3, <1>m DEF Operation, InErr, Reader, Waiting, Open, Reading
<1>8. QED
  BY <1>4, <1>5, <1>6, <1>7

(* The host closes its side, and clientrecv hears of it if there is room.  *)
LEMMA RecvFinKeeps ==
  ASSUME Inv, NEW c \in Conns, RecvFin(c)
  PROVE  Inv'
<1> USE LinkAssumption DEF Inv, Here
<1>c. c = conn /\ conn # Null /\ client \in Open
  BY BusyIsInUse DEF RecvFin, Live
<1>0. /\ conn \in Conns /\ nc[conn] \in Netconns /\ nc[conn].sem \in {0, 1}
      /\ Len(nc[conn].recvmbox) <= MboxSize
      /\ stack.at = "idle"
      /\ nc[conn].pcb = "established"
  BY <1>c, ConnInPool, NetconnFields
  DEF RecvFin, InUse, Operation, InErr, Reader, Reading, Open, Waiting, Live, CoreFree, TypeOK
<1> DEFINE m == IF Len(nc[conn].recvmbox) < MboxSize THEN Append(nc[conn].recvmbox, Closed)
                 ELSE nc[conn].recvmbox
<1>m. m \in Seq(Items) /\ Len(m) <= MboxSize
  BY <1>0, NetconnFields, ItemTypes, Appended
<1> DEFINE r == [nc[conn] EXCEPT !.pcb = "closewait", !.recvmbox = m]
<1>1. /\ UNCHANGED <<conn, used, client, ret, bell, recv, rconn, item,
                     stack, wire, sent, led, taken, joined, halted>>
      /\ nc' = [nc EXCEPT ![conn] = r]
  BY <1>c, <1>0 DEF RecvFin, Up, poolVars, clientVars, recvVars, hostVars, outVars, TypeOK
<1> HIDE DEF m
<1>2. /\ r \in Netconns /\ Len(r.recvmbox) <= MboxSize /\ r.sem <= 1
      /\ r.state = nc[conn].state /\ r.pending = nc[conn].pending
      /\ r.mboxclosed = nc[conn].mboxclosed /\ r.valid = nc[conn].valid
      /\ r.sem = nc[conn].sem
      /\ r.pcb = "closewait"
      /\ r.recvmbox = m
  <2>1. nc[conn] \in Netconns /\ nc[conn].sem \in {0, 1} /\ Len(nc[conn].recvmbox) <= MboxSize
    BY <1>0
  <2>2. r \in Netconns
    BY <2>1, <1>m DEF Netconns
  <2>3. QED
    BY <2>1, <2>2, <1>m DEF Netconns
<1> HIDE DEF r
<1>3. /\ nc' \in [Conns -> Netconns]
      /\ nc'[conn] = r
      /\ \A d \in Conns : d # conn => nc'[d] = nc[d]
      /\ \A d \in Conns : Len(nc'[d].recvmbox) <= MboxSize /\ nc'[d].sem <= 1
  BY <1>0, <1>1, <1>2, OneChanged
<1>4. TypeOK'
  BY <1>1, <1>2, <1>3, <1>m DEF TypeOK
<1>5. Elsewhere'
  BY <1>1, <1>3 DEF Elsewhere
<1>6. InUse' /\ Operation'
  BY <1>0, <1>1, <1>2, <1>3, <1>m DEF InUse, Operation, Reader, Trying, Waiting, Open
<1>7. InErr' /\ Reader'
  BY <1>0, <1>1, <1>2, <1>3, <1>m DEF Operation, InErr, Reader, Waiting, Open, Reading
<1>8. QED
  BY <1>4, <1>5, <1>6, <1>7

(* lwip_netconn_do_writemore completes the write that was under way.       *)
LEMMA WriteMoreKeeps ==
  ASSUME Inv, NEW c \in Conns, WriteMore(c)
  PROVE  Inv'
<1> USE LinkAssumption DEF Inv, Here
<1>c. c = conn /\ conn # Null /\ client \in Open
  BY BusyIsInUse DEF WriteMore, Live
<1>0. /\ conn \in Conns /\ nc[conn] \in Netconns /\ nc[conn].sem \in {0, 1}
      /\ Len(nc[conn].recvmbox) <= MboxSize
      /\ client = "writing" /\ stack.at = "idle"
      /\ nc[conn].pcb \notin {"none", "synsent"} /\ nc[conn].sem = 0
  BY <1>c, ConnInPool, NetconnFields
  DEF WriteMore, InUse, Operation, InErr, Reader, Reading, Open, Waiting, Live, CoreFree, TypeOK
<1> DEFINE r == [nc[conn] EXCEPT !.state = "none", !.sem = 1]
<1>1. /\ UNCHANGED <<conn, used, client, bell, recv, rconn, item, stack,
                     wire, sent, led, taken, joined, halted>>
      /\ ret' \in {"OK", "MEM", "other"}
      /\ nc' = [nc EXCEPT ![conn] = r]
  BY <1>c, <1>0 DEF WriteMore, Up, poolVars, clientVars, recvVars, hostVars, outVars, TypeOK, Netconns
<1>2. /\ r \in Netconns /\ Len(r.recvmbox) <= MboxSize /\ r.sem <= 1
      /\ r.pcb = nc[conn].pcb /\ r.pending = nc[conn].pending
      /\ r.mboxclosed = nc[conn].mboxclosed /\ r.valid = nc[conn].valid
      /\ r.recvmbox = nc[conn].recvmbox
      /\ r.state = "none"
      /\ r.sem = 1
  <2>1. nc[conn] \in Netconns /\ nc[conn].sem \in {0, 1} /\ Len(nc[conn].recvmbox) <= MboxSize
    BY <1>0
  <2>2. r \in Netconns
    BY <2>1 DEF Netconns
  <2>3. QED
    BY <2>1, <2>2 DEF Netconns
<1> HIDE DEF r
<1>3. /\ nc' \in [Conns -> Netconns]
      /\ nc'[conn] = r
      /\ \A d \in Conns : d # conn => nc'[d] = nc[d]
      /\ \A d \in Conns : Len(nc'[d].recvmbox) <= MboxSize /\ nc'[d].sem <= 1
  BY <1>0, <1>1, <1>2, OneChanged
<1>4. TypeOK'
  BY <1>1, <1>2, <1>3 DEF TypeOK
<1>5. Elsewhere'
  BY <1>1, <1>3 DEF Elsewhere
<1>6. InUse' /\ Operation'
  BY <1>0, <1>1, <1>2, <1>3 DEF InUse, Operation, Reader, Trying, Waiting, Open
<1>7. InErr' /\ Reader'
  BY <1>0, <1>1, <1>2, <1>3 DEF Operation, InErr, Reader, Waiting, Open, Reading
<1>8. QED
  BY <1>4, <1>5, <1>6, <1>7

(* err_tcp takes the pcb away and remembers whether somebody waits ...     *)
LEMMA ErrTcpKeeps ==
  ASSUME Inv, NEW c \in Conns, ErrTcp(c)
  PROVE  Inv'
<1> USE LinkAssumption DEF Inv, Here
<1>c. c = conn /\ conn # Null /\ client \in Open
  BY BusyIsInUse DEF ErrTcp, Live
<1>0. /\ conn \in Conns /\ nc[conn] \in Netconns /\ nc[conn].sem \in {0, 1}
      /\ Len(nc[conn].recvmbox) <= MboxSize
      /\ stack.at = "idle"
      /\ conn # Null /\ client \in Open
      /\ nc[conn].state # "none" => nc[conn].sem = 0 /\ client \in Waiting
  BY <1>c, ConnInPool, NetconnFields
  DEF ErrTcp, InUse, Operation, InErr, Reader, Reading, Open, Waiting, Live, CoreFree, TypeOK
<1> DEFINE r == [nc[conn] EXCEPT !.pcb = "none", !.pending = TRUE, !.mboxclosed = TRUE, !.state = "none"]
<1>1. /\ UNCHANGED <<conn, used, client, ret, bell, recv, rconn, item,
                     sent, led, taken, joined, halted>>
      /\ wire' = <<>>
      /\ nc' = [nc EXCEPT ![conn] = r]
  BY <1>c, <1>0 DEF ErrTcp, Up, poolVars, clientVars, recvVars, hostVars, outVars, TypeOK
<1>s. /\ stack'.at = "post" /\ stack'.conn = conn
      /\ stack'.wake <=> nc[conn].state # "none"
      /\ stack' \in [at : {"idle", "post", "signal"}, conn : 0 .. Pool, wake : BOOLEAN]
  <2>1. conn \in 0 .. Pool /\ (nc[conn].state # "none") \in BOOLEAN
    BY <1>0 DEF Conns
  <2>2. stack' = [at |-> "post", conn |-> conn, wake |-> nc[conn].state # "none"]
    BY <1>c DEF ErrTcp
  <2>3. QED
    BY <2>1, <2>2
<1>2. /\ r \in Netconns /\ Len(r.recvmbox) <= MboxSize /\ r.sem <= 1
      /\ r.valid = nc[conn].valid /\ r.recvmbox = nc[conn].recvmbox
      /\ r.sem = nc[conn].sem
      /\ r.pcb = "none"
      /\ r.state = "none"
      /\ r.mboxclosed
  <2>1. nc[conn] \in Netconns /\ nc[conn].sem \in {0, 1} /\ Len(nc[conn].recvmbox) <= MboxSize
    BY <1>0
  <2>2. r \in Netconns
    BY <2>1 DEF Netconns
  <2>3. QED
    BY <2>1, <2>2 DEF Netconns
<1> HIDE DEF r
<1>3. /\ nc' \in [Conns -> Netconns]
      /\ nc'[conn] = r
      /\ \A d \in Conns : d # conn => nc'[d] = nc[d]
      /\ \A d \in Conns : Len(nc'[d].recvmbox) <= MboxSize /\ nc'[d].sem <= 1
  BY <1>0, <1>1, <1>2, OneChanged
<1>4. TypeOK'
  BY <1>1, <1>2, <1>3, <1>s DEF TypeOK
<1>5. Elsewhere'
  BY <1>1, <1>3, <1>s DEF Elsewhere
<1>6. InUse' /\ Operation'
  BY <1>0, <1>1, <1>2, <1>3, <1>s DEF InUse, Operation, Reader, Trying, Waiting, Open
<1>7. InErr' /\ Reader'
  BY <1>0, <1>1, <1>2, <1>3, <1>s DEF Operation, InErr, Reader, Waiting, Open, Reading
<1>8. QED
  BY <1>4, <1>5, <1>6, <1>7

(* ... posts, or leaves the mailbox full, so that it is not empty ...      *)
LEMMA ErrPostKeeps ==
  ASSUME Inv, ErrPost
  PROVE  Inv'
<1> USE LinkAssumption DEF Inv, Here
<1>0. /\ conn \in Conns /\ nc[conn] \in Netconns /\ nc[conn].sem \in {0, 1}
      /\ Len(nc[conn].recvmbox) <= MboxSize
      /\ stack.at = "post" /\ stack.conn = conn /\ nc[conn].pcb = "none" /\ client \in Open
  BY ConnInPool, NetconnFields
  DEF ErrPost, InUse, Operation, InErr, Reader, Reading, Open, Waiting, Live, CoreFree, TypeOK
<1> DEFINE m == IF nc[conn].valid /\ Len(nc[conn].recvmbox) < MboxSize
                 THEN Append(nc[conn].recvmbox, Error) ELSE nc[conn].recvmbox
<1>m. m \in Seq(Items) /\ Len(m) <= MboxSize /\ (nc[conn].valid => m # <<>>)
  BY <1>0, NetconnFields, ItemTypes, Appended
<1> DEFINE r == [nc[conn] EXCEPT !.recvmbox = m]
<1>1. /\ UNCHANGED <<conn, used, client, ret, bell, recv, rconn, item,
                     wire, sent, led, taken, joined, halted>>
      /\ stack' = [stack EXCEPT !.at = "signal"]
      /\ nc' = [nc EXCEPT ![conn] = r]
  BY <1>0 DEF ErrPost, Up, poolVars, clientVars, recvVars, hostVars, outVars, TypeOK
<1> HIDE DEF m
<1>2. /\ r \in Netconns /\ Len(r.recvmbox) <= MboxSize /\ r.sem <= 1
      /\ r.pcb = nc[conn].pcb /\ r.state = nc[conn].state
      /\ r.pending = nc[conn].pending /\ r.mboxclosed = nc[conn].mboxclosed
      /\ r.valid = nc[conn].valid /\ r.sem = nc[conn].sem
      /\ r.recvmbox = m
  <2>1. nc[conn] \in Netconns /\ nc[conn].sem \in {0, 1} /\ Len(nc[conn].recvmbox) <= MboxSize
    BY <1>0
  <2>2. r \in Netconns
    BY <2>1, <1>m DEF Netconns
  <2>3. QED
    BY <2>1, <2>2, <1>m DEF Netconns
<1> HIDE DEF r
<1>3. /\ nc' \in [Conns -> Netconns]
      /\ nc'[conn] = r
      /\ \A d \in Conns : d # conn => nc'[d] = nc[d]
      /\ \A d \in Conns : Len(nc'[d].recvmbox) <= MboxSize /\ nc'[d].sem <= 1
  BY <1>0, <1>1, <1>2, OneChanged
<1>4. TypeOK'
  <2>1. stack' \in [at : {"idle", "post", "signal"}, conn : 0 .. Pool, wake : BOOLEAN]
    BY <1>1 DEF TypeOK
  <2>2. QED
    BY <1>1, <1>3, <2>1 DEF TypeOK
<1>5. Elsewhere'
  BY <1>1, <1>3 DEF Elsewhere
<1>6. InUse' /\ Operation'
  BY <1>0, <1>1, <1>2, <1>3, <1>m DEF InUse, Operation, Reader, Trying, Waiting, Open
<1>7. InErr' /\ Reader'
  BY <1>0, <1>1, <1>2, <1>3, <1>m DEF Operation, InErr, Reader, Waiting, Open, Reading
<1>8. QED
  BY <1>4, <1>5, <1>6, <1>7

(* ... and gives the waiter its signal.                                    *)
LEMMA ErrSignalKeeps ==
  ASSUME Inv, ErrSignal, stack.wake
  PROVE  Inv'
<1> USE LinkAssumption DEF Inv, Here
<1>0. /\ conn \in Conns /\ nc[conn] \in Netconns /\ nc[conn].sem \in {0, 1}
      /\ Len(nc[conn].recvmbox) <= MboxSize
      /\ stack.at = "signal" /\ stack.conn = conn /\ nc[conn].pcb = "none"
      /\ client \in Waiting /\ nc[conn].sem = 0 /\ nc[conn].state = "none"
  BY ConnInPool, NetconnFields
  DEF ErrSignal, InUse, Operation, InErr, Reader, Reading, Open, Waiting, Live, CoreFree, TypeOK
<1> DEFINE r == [nc[conn] EXCEPT !.sem = 1]
<1>1. /\ UNCHANGED <<conn, used, client, bell, recv, rconn, item, wire,
                     sent, led, taken, joined, halted>>
      /\ stack' \in [at : {"idle", "post", "signal"}, conn : 0 .. Pool, wake : BOOLEAN]
      /\ stack'.at = "idle" /\ ret' = "other"
      /\ nc' = [nc EXCEPT ![conn] = r]
  BY <1>0 DEF ErrSignal, Up, poolVars, clientVars, recvVars, hostVars, outVars, TypeOK, Netconns, Idle, Null
<1>2. /\ r \in Netconns /\ Len(r.recvmbox) <= MboxSize /\ r.sem <= 1
      /\ r.pcb = nc[conn].pcb /\ r.state = nc[conn].state
      /\ r.pending = nc[conn].pending /\ r.mboxclosed = nc[conn].mboxclosed
      /\ r.valid = nc[conn].valid /\ r.recvmbox = nc[conn].recvmbox
      /\ r.sem = 1
  <2>1. nc[conn] \in Netconns /\ nc[conn].sem \in {0, 1} /\ Len(nc[conn].recvmbox) <= MboxSize
    BY <1>0
  <2>2. r \in Netconns
    BY <2>1 DEF Netconns
  <2>3. QED
    BY <2>1, <2>2 DEF Netconns
<1> HIDE DEF r
<1>3. /\ nc' \in [Conns -> Netconns]
      /\ nc'[conn] = r
      /\ \A d \in Conns : d # conn => nc'[d] = nc[d]
      /\ \A d \in Conns : Len(nc'[d].recvmbox) <= MboxSize /\ nc'[d].sem <= 1
  BY <1>0, <1>1, <1>2, OneChanged
<1>4. TypeOK'
  BY <1>1, <1>2, <1>3 DEF TypeOK
<1>5. Elsewhere'
  BY <1>1, <1>3 DEF Elsewhere
<1>6. InUse' /\ Operation'
  BY <1>0, <1>1, <1>2, <1>3 DEF InUse, Operation, Reader, Trying, Waiting, Open
<1>7. InErr' /\ Reader'
  BY <1>0, <1>1, <1>2, <1>3 DEF Operation, InErr, Reader, Waiting, Open, Reading
<1>8. QED
  BY <1>4, <1>5, <1>6, <1>7

-----------------------------------------------------------------------------
(* The clientrecv task.                                                    *)
LEMMA RecvFetchKeeps ==
  ASSUME Inv, RecvFetch
  PROVE  Inv'
<1> USE LinkAssumption DEF Inv, Here
<1>0. /\ conn \in Conns /\ nc[conn] \in Netconns /\ nc[conn].sem \in {0, 1}
      /\ Len(nc[conn].recvmbox) <= MboxSize
      /\ recv \in {"wait", "poll"} /\ rconn = conn /\ client \in Open /\ nc[conn].valid
      /\ nc[conn].recvmbox # <<>> /\ Head(nc[conn].recvmbox) \in Items
  BY ConnInPool, NetconnFields
  DEF RecvFetch, InUse, Operation, InErr, Reader, Reading, Open, Waiting, Live, CoreFree, TypeOK
<1> DEFINE m == Tail(nc[conn].recvmbox)
<1>m. m \in Seq(Items) /\ Len(m) <= MboxSize
  BY <1>0, NetconnFields, ItemTypes, Appended
<1> DEFINE r == [nc[conn] EXCEPT !.recvmbox = m]
<1>1. /\ UNCHANGED <<conn, used, client, ret, bell, rconn, stack, wire,
                     sent, led, taken, joined, halted>>
      /\ recv' = "got" /\ item' \in Items
      /\ nc' = [nc EXCEPT ![conn] = r]
  BY <1>0 DEF RecvFetch, Up, poolVars, clientVars, recvVars, hostVars, outVars, TypeOK
<1> HIDE DEF m
<1>2. /\ r \in Netconns /\ Len(r.recvmbox) <= MboxSize /\ r.sem <= 1
      /\ r.pcb = nc[conn].pcb /\ r.state = nc[conn].state
      /\ r.pending = nc[conn].pending /\ r.mboxclosed = nc[conn].mboxclosed
      /\ r.valid = nc[conn].valid /\ r.sem = nc[conn].sem
      /\ r.recvmbox = m
  <2>1. nc[conn] \in Netconns /\ nc[conn].sem \in {0, 1} /\ Len(nc[conn].recvmbox) <= MboxSize
    BY <1>0
  <2>2. r \in Netconns
    BY <2>1, <1>m DEF Netconns
  <2>3. QED
    BY <2>1, <2>2, <1>m DEF Netconns
<1> HIDE DEF r
<1>3. /\ nc' \in [Conns -> Netconns]
      /\ nc'[conn] = r
      /\ \A d \in Conns : d # conn => nc'[d] = nc[d]
      /\ \A d \in Conns : Len(nc'[d].recvmbox) <= MboxSize /\ nc'[d].sem <= 1
  BY <1>0, <1>1, <1>2, OneChanged
<1>4. TypeOK'
  BY <1>1, <1>2, <1>3, <1>m DEF TypeOK
<1>5. Elsewhere'
  BY <1>1, <1>3 DEF Elsewhere
<1>6. InUse' /\ Operation'
  BY <1>0, <1>1, <1>2, <1>3, <1>m DEF InUse, Operation, Reader, Trying, Waiting, Open
<1>7. InErr' /\ Reader'
  BY <1>0, <1>1, <1>2, <1>3, <1>m DEF Operation, InErr, Reader, Waiting, Open, Reading
<1>8. QED
  BY <1>4, <1>5, <1>6, <1>7

(* An empty mailbox ends clientrecv's loop.                                *)
LEMMA RecvEmptyKeeps ==
  ASSUME Inv, RecvEmpty
  PROVE  Inv'
<1> USE LinkAssumption DEF Inv, Here
<1>0. /\ conn \in Conns /\ nc[conn] \in Netconns /\ nc[conn].sem \in {0, 1}
      /\ Len(nc[conn].recvmbox) <= MboxSize
      /\ recv = "poll" /\ rconn = conn /\ client \in Open
  BY ConnInPool, NetconnFields
  DEF RecvEmpty, InUse, Operation, InErr, Reader, Reading, Open, Waiting, Live, CoreFree, TypeOK
<1> DEFINE r == [nc[conn] EXCEPT !.pending = FALSE]
<1>1. /\ UNCHANGED <<conn, used, client, ret, bell, rconn, item, stack,
                     wire, sent, led, taken, joined, halted>>
      /\ recv' = "returned"
      /\ nc' = [nc EXCEPT ![conn] = r]
  BY <1>0 DEF RecvEmpty, Up, poolVars, clientVars, recvVars, hostVars, outVars, TypeOK
<1>2. /\ r \in Netconns /\ Len(r.recvmbox) <= MboxSize /\ r.sem <= 1
      /\ r.pcb = nc[conn].pcb /\ r.state = nc[conn].state
      /\ r.mboxclosed = nc[conn].mboxclosed /\ r.valid = nc[conn].valid
      /\ r.recvmbox = nc[conn].recvmbox /\ r.sem = nc[conn].sem
  <2>1. nc[conn] \in Netconns /\ nc[conn].sem \in {0, 1} /\ Len(nc[conn].recvmbox) <= MboxSize
    BY <1>0
  <2>2. r \in Netconns
    BY <2>1 DEF Netconns
  <2>3. QED
    BY <2>1, <2>2 DEF Netconns
<1> HIDE DEF r
<1>3. /\ nc' \in [Conns -> Netconns]
      /\ nc'[conn] = r
      /\ \A d \in Conns : d # conn => nc'[d] = nc[d]
      /\ \A d \in Conns : Len(nc'[d].recvmbox) <= MboxSize /\ nc'[d].sem <= 1
  BY <1>0, <1>1, <1>2, OneChanged
<1>4. TypeOK'
  BY <1>1, <1>2, <1>3 DEF TypeOK
<1>5. Elsewhere'
  BY <1>1, <1>3 DEF Elsewhere
<1>6. InUse' /\ Operation'
  BY <1>0, <1>1, <1>2, <1>3 DEF InUse, Operation, Reader, Trying, Waiting, Open
<1>7. InErr' /\ Reader'
  BY <1>0, <1>1, <1>2, <1>3 DEF Operation, InErr, Reader, Waiting, Open, Reading
<1>8. QED
  BY <1>4, <1>5, <1>6, <1>7

(* Without a pcb the end of the stream resets the pending error ...        *)
LEMMA RecvClosedResetsKeeps ==
  ASSUME Inv, RecvClosed, nc[rconn].pcb = "none"
  PROVE  Inv'
<1> USE LinkAssumption DEF Inv, Here
<1>0. /\ conn \in Conns /\ nc[conn] \in Netconns /\ nc[conn].sem \in {0, 1}
      /\ Len(nc[conn].recvmbox) <= MboxSize
      /\ recv = "got" /\ rconn = conn /\ client \in Open /\ stack.at = "idle"
  BY ConnInPool, NetconnFields
  DEF RecvClosed, InUse, Operation, InErr, Reader, Reading, Open, Waiting, Live, CoreFree, TypeOK
<1> DEFINE r == [nc[conn] EXCEPT !.pending = FALSE]
<1>1. /\ UNCHANGED <<conn, used, client, ret, bell, rconn, item, stack,
                     wire, sent, led, taken, joined, halted>>
      /\ recv' = "returned"
      /\ nc' = [nc EXCEPT ![conn] = r]
  BY <1>0 DEF RecvClosed, Up, poolVars, clientVars, recvVars, hostVars, outVars, TypeOK
<1>2. /\ r \in Netconns /\ Len(r.recvmbox) <= MboxSize /\ r.sem <= 1
      /\ r.pcb = nc[conn].pcb /\ r.state = nc[conn].state
      /\ r.mboxclosed = nc[conn].mboxclosed /\ r.valid = nc[conn].valid
      /\ r.recvmbox = nc[conn].recvmbox /\ r.sem = nc[conn].sem
  <2>1. nc[conn] \in Netconns /\ nc[conn].sem \in {0, 1} /\ Len(nc[conn].recvmbox) <= MboxSize
    BY <1>0
  <2>2. r \in Netconns
    BY <2>1 DEF Netconns
  <2>3. QED
    BY <2>1, <2>2 DEF Netconns
<1> HIDE DEF r
<1>3. /\ nc' \in [Conns -> Netconns]
      /\ nc'[conn] = r
      /\ \A d \in Conns : d # conn => nc'[d] = nc[d]
      /\ \A d \in Conns : Len(nc'[d].recvmbox) <= MboxSize /\ nc'[d].sem <= 1
  BY <1>0, <1>1, <1>2, OneChanged
<1>4. TypeOK'
  BY <1>1, <1>2, <1>3 DEF TypeOK
<1>5. Elsewhere'
  BY <1>1, <1>3 DEF Elsewhere
<1>6. InUse' /\ Operation'
  BY <1>0, <1>1, <1>2, <1>3 DEF InUse, Operation, Reader, Trying, Waiting, Open
<1>7. InErr' /\ Reader'
  BY <1>0, <1>1, <1>2, <1>3 DEF Operation, InErr, Reader, Waiting, Open, Reading
<1>8. QED
  BY <1>4, <1>5, <1>6, <1>7

(* ... and with one it frees the mailbox, whose only reader returns.       *)
LEMMA RecvClosedDrainsKeeps ==
  ASSUME Inv, RecvClosed, nc[rconn].pcb # "none", nc[rconn].state = "none"
  PROVE  Inv'
<1> USE LinkAssumption DEF Inv, Here
<1>0. /\ conn \in Conns /\ nc[conn] \in Netconns /\ nc[conn].sem \in {0, 1}
      /\ Len(nc[conn].recvmbox) <= MboxSize
      /\ recv = "got" /\ rconn = conn /\ client \in Open /\ stack.at = "idle"
  BY ConnInPool, NetconnFields
  DEF RecvClosed, InUse, Operation, InErr, Reader, Reading, Open, Waiting, Live, CoreFree, TypeOK
<1> DEFINE m == <<>>
<1>m. m \in Seq(Items) /\ Len(m) <= MboxSize
  BY <1>0, NetconnFields, ItemTypes, Appended
<1> DEFINE r == [nc[conn] EXCEPT !.valid = FALSE, !.recvmbox = m]
<1>1. /\ UNCHANGED <<conn, used, client, ret, bell, rconn, item, stack,
                     wire, sent, led, taken, joined, halted>>
      /\ recv' = "returned"
      /\ nc' = [nc EXCEPT ![conn] = r]
  BY <1>0 DEF RecvClosed, Up, poolVars, clientVars, recvVars, hostVars, outVars, TypeOK
<1> HIDE DEF m
<1>2. /\ r \in Netconns /\ Len(r.recvmbox) <= MboxSize /\ r.sem <= 1
      /\ r.pcb = nc[conn].pcb /\ r.state = nc[conn].state
      /\ r.pending = nc[conn].pending /\ r.mboxclosed = nc[conn].mboxclosed
      /\ r.sem = nc[conn].sem
      /\ r.recvmbox = m
  <2>1. nc[conn] \in Netconns /\ nc[conn].sem \in {0, 1} /\ Len(nc[conn].recvmbox) <= MboxSize
    BY <1>0
  <2>2. r \in Netconns
    BY <2>1, <1>m DEF Netconns
  <2>3. QED
    BY <2>1, <2>2, <1>m DEF Netconns
<1> HIDE DEF r
<1>3. /\ nc' \in [Conns -> Netconns]
      /\ nc'[conn] = r
      /\ \A d \in Conns : d # conn => nc'[d] = nc[d]
      /\ \A d \in Conns : Len(nc'[d].recvmbox) <= MboxSize /\ nc'[d].sem <= 1
  BY <1>0, <1>1, <1>2, OneChanged
<1>4. TypeOK'
  BY <1>1, <1>2, <1>3, <1>m DEF TypeOK
<1>5. Elsewhere'
  BY <1>1, <1>3 DEF Elsewhere
<1>6. InUse' /\ Operation'
  BY <1>0, <1>1, <1>2, <1>3, <1>m DEF InUse, Operation, Reader, Trying, Waiting, Open
<1>7. InErr' /\ Reader'
  BY <1>0, <1>1, <1>2, <1>3, <1>m DEF Operation, InErr, Reader, Waiting, Open, Reading
<1>8. QED
  BY <1>4, <1>5, <1>6, <1>7
-----------------------------------------------------------------------------
(* The steps that change no netconn.                                       *)
LEMMA ClientMovesOn ==
  ASSUME Inv, UNCHANGED nc, Delayed \/ Connect \/ Take \/ Write
  PROVE  Inv'
<1> USE LinkAssumption DEF Inv, Here
<1>1. /\ UNCHANGED <<conn, used, recv, rconn, item, stack, wire, sent, led, taken,
                     joined, halted>>
      /\ bell' \in BOOLEAN /\ ret' \in {"OK", "MEM", "other"}
      /\ \/ client = "delay" /\ client' = "new" /\ recv # "call"
         \/ client = "connect" /\ client' \in {"close", "take"}
         \/ client = "take" /\ client' = "write"
         \/ client = "write" /\ client' = "take"
  <2>1. CASE Delayed
    BY <2>1 DEF Delayed, Up, poolVars, recvVars, hostVars, outVars, TypeOK
  <2>2. CASE Take
    BY <2>2 DEF Take, Up, poolVars, recvVars, hostVars, outVars, TypeOK
  <2>3. CASE Connect
    <3>1. client = "connect" /\ conn \in Conns /\ nc[conn].state = "none"
      BY <2>3, ConnInPool DEF Connect, InUse, Fresh
    <3>2. client' # "connecting"
      <4>1. nc' = [nc EXCEPT ![conn].pcb = "synsent", ![conn].state = "connect"]
              => nc'[conn].state = "connect"
        BY <3>1 DEF TypeOK, Netconns
      <4>2. QED
        BY <2>3, <3>1, <4>1 DEF Connect
    <3>3. QED
      BY <2>3, <3>2 DEF Connect, Up, poolVars, recvVars, hostVars, outVars, TypeOK
  <2>4. CASE Write
    <3>1. client = "write" /\ conn \in Conns /\ nc[conn].state = "none"
      BY <2>4, ConnInPool, NetconnFields DEF Write, InUse, Operation
    <3>2. client' # "writing"
      <4>1. nc' = [nc EXCEPT ![conn].state = "write"] => nc'[conn].state = "write"
        BY <3>1 DEF TypeOK, Netconns
      <4>2. QED
        BY <2>4, <3>1, <4>1 DEF Write
    <3>3. QED
      BY <2>4, <3>2 DEF Write, Up, poolVars, recvVars, hostVars, outVars, TypeOK
  <2>5. QED
    BY <2>1, <2>2, <2>3, <2>4
<1>2. TypeOK'
  BY <1>1 DEF TypeOK
<1>3. Elsewhere'
  BY <1>1 DEF Elsewhere
<1>4. client = "connect" => nc[conn].pcb = "closed" /\ nc[conn].state = "none" /\ nc[conn].valid
  BY DEF InUse, Fresh
<1>5. InUse' /\ Operation'
  BY <1>1, <1>4 DEF InUse, Operation, Trying, Waiting
<1>6. InErr' /\ Reader'
  BY <1>1, <1>4 DEF InErr, Reader, Reading, Waiting, Open
<1>7. QED
  BY <1>2, <1>3, <1>5, <1>6

(* err_tcp for a netconn without an operation signals nobody.              *)
LEMMA ErrWithoutWaiter ==
  ASSUME Inv, ErrSignal, ~stack.wake
  PROVE  Inv'
<1> USE LinkAssumption DEF Inv, Here
<1>1. /\ UNCHANGED <<conn, used, nc, client, ret, bell, recv, rconn, item, wire, sent, led,
                     taken, joined, halted>>
      /\ stack.at = "signal" /\ stack' = Idle
  BY DEF ErrSignal, Up, poolVars, recvVars, hostVars, outVars
<1>2. /\ stack'.at = "idle"
      /\ stack' \in [at : {"idle", "post", "signal"}, conn : 0 .. Pool, wake : BOOLEAN]
  BY <1>1 DEF Idle, Null
<1>3. TypeOK'
  BY <1>1, <1>2 DEF TypeOK
<1>4. Elsewhere' /\ InUse' /\ Operation'
  BY <1>1, <1>2 DEF Elsewhere, InUse, Operation
<1>5. InErr' /\ Reader'
  BY <1>1, <1>2 DEF InErr, Reader
<1>6. QED
  BY <1>3, <1>4, <1>5

(* clientrecv decides by the flags of conn whether it may block.           *)
LEMMA CallKeeps ==
  ASSUME Inv, RecvCall
  PROVE  Inv'
<1> USE LinkAssumption DEF Inv, Here
<1>1. /\ UNCHANGED <<conn, used, nc, client, ret, bell, item, stack, wire, sent, led, taken,
                     joined, halted>>
      /\ recv = "call" /\ rconn' = conn /\ recv' \in {"returned", "poll", "wait"}
      /\ recv' # "returned" => conn # Null /\ nc[conn].valid
      /\ recv' = "wait" => ~nc[conn].mboxclosed
  BY DEF RecvCall, Up, poolVars, clientVars, hostVars, outVars
<1>2. TypeOK'
  BY <1>1 DEF TypeOK
<1>3. Elsewhere' /\ InUse' /\ Operation' /\ InErr'
  BY <1>1 DEF Elsewhere, InUse, Operation, InErr
<1>4. Reader'
  BY <1>1 DEF Reader, Reading, Open
<1>5. QED
  BY <1>2, <1>3, <1>4

(* clientrecv is created, acts on a segment, or returns.                   *)
LEMMA RecvMovesOn ==
  ASSUME Inv, UNCHANGED nc, StartRecv \/ Handle \/ RecvClosed \/ RecvError
  PROVE  Inv'
<1> USE LinkAssumption DEF Inv, Here
<1>1. /\ UNCHANGED <<conn, used, client, ret, rconn, item, stack, wire, sent, joined, halted>>
      /\ \/ /\ recv = "absent" /\ recv' \in {"call", "failed"}
            /\ client \in Open \cup {"delay"}
         \/ recv = "got" /\ recv' \in {"call", "returned"}
  BY DEF StartRecv, ClientWaits, Handle, RecvClosed, RecvError, Up, Open, poolVars,
         clientVars, hostVars
<1>2. led' \in BOOLEAN /\ bell' \in BOOLEAN /\ taken' \in Seq(Segments)
  <2>1. CASE Handle
    <3>1. item.cmds \in Segments
      BY <2>1 DEF Handle, TypeOK, Items, Data, Closed, Error
    <3>2. taken' \in Seq(Segments)
      BY <2>1, <3>1 DEF Handle, TypeOK
    <3>3. led' \in BOOLEAN /\ bell' \in BOOLEAN
      BY <2>1 DEF Handle, TypeOK
    <3>4. QED
      BY <3>2, <3>3
  <2>2. CASE UNCHANGED <<led, bell, taken>>
    BY <2>2 DEF TypeOK
  <2>3. QED
    BY <2>1, <2>2 DEF StartRecv, RecvClosed, RecvError, outVars
<1>3. TypeOK'
  BY <1>1, <1>2 DEF TypeOK
<1>4. Elsewhere' /\ InUse' /\ Operation' /\ InErr'
  BY <1>1 DEF Elsewhere, InUse, Operation, InErr
<1>5. Reader'
  BY <1>1 DEF Reader, Reading, Open
<1>6. QED
  BY <1>3, <1>4, <1>5

(* The host, the bell and the halted processor change nothing of this.     *)
LEMMA WorldKeeps ==
  ASSUME Inv, Ring \/ TaskExit \/ Spin \/ UNCHANGED vars \/ \E c \in Conns : HostSend(c)
  PROVE  Inv'
<1> USE LinkAssumption DEF Inv, Here
<1>1. UNCHANGED <<conn, used, nc, client, ret, recv, rconn, item, stack, led, taken, joined>>
  BY DEF Ring, TaskExit, Spin, HostSend, Up, vars, poolVars, clientVars, recvVars, outVars
<1>2. bell' \in BOOLEAN /\ halted' \in BOOLEAN
  BY DEF Ring, TaskExit, Spin, HostSend, Up, vars, TypeOK
<1>3. wire' \in Seq(Segments) /\ sent' \in Seq(Segments)
  <2>1. ASSUME NEW c \in Conns, HostSend(c)
        PROVE  wire' \in Seq(Segments) /\ sent' \in Seq(Segments)
    BY <2>1 DEF HostSend, TypeOK
  <2>2. CASE UNCHANGED <<wire, sent>>
    BY <2>2 DEF TypeOK
  <2>3. QED
    BY <2>1, <2>2 DEF Ring, TaskExit, Spin, vars, hostVars
<1>4. TypeOK'
  BY <1>1, <1>2, <1>3 DEF TypeOK
<1>5. Elsewhere' /\ InUse' /\ Operation' /\ InErr' /\ Reader'
  BY <1>1 DEF Elsewhere, InUse, Operation, InErr, Reader
<1>6. QED
  BY <1>4, <1>5

-----------------------------------------------------------------------------
(* Every step keeps the invariant.                                         *)
LEMMA NextInv == Inv /\ [Next]_vars => Inv'
<1> SUFFICES ASSUME Inv, [Next]_vars
             PROVE  Inv'
  OBVIOUS
<1>1. CASE NetconnNew \/ Completed \/ Close
  BY <1>1, NewKeeps, CompletedKeeps, CloseKeeps
<1>2. CASE Delayed \/ Take
  BY <1>2, ClientMovesOn DEF Delayed, Take
<1>3. CASE Connect
  <2>1. CASE client' = "connecting"
    BY <1>3, <2>1, ConnectStartsKeeps
  <2>2. CASE client' # "connecting"
    BY <1>3, <2>2, ClientMovesOn DEF Connect
  <2>3. QED
    BY <2>1, <2>2
<1>4. CASE Write
  <2>1. CASE nc[conn].pending
    BY <1>4, <2>1, WritePendingKeeps
  <2>2. CASE client' = "writing"
    BY <1>4, <2>2, WriteWaitsKeeps
  <2>3. CASE ~nc[conn].pending /\ client' # "writing"
    BY <1>4, <2>3, ClientMovesOn DEF Write
  <2>4. QED
    BY <2>1, <2>2, <2>3
<1>5. ASSUME NEW c \in Conns, Stack(c)
      PROVE  Inv'
  BY <1>5, ConnectedKeeps, RecvTcpKeeps, RecvFinKeeps, WriteMoreKeeps, ErrTcpKeeps DEF Stack
<1>6. CASE ErrPost
  BY <1>6, ErrPostKeeps
<1>7. CASE ErrSignal
  BY <1>7, ErrSignalKeeps, ErrWithoutWaiter
<1>8. CASE RecvCall \/ RecvFetch \/ RecvEmpty
  BY <1>8, CallKeeps, RecvFetchKeeps, RecvEmptyKeeps
<1>9. CASE RecvClosed
  <2>1. CASE nc[rconn].pcb = "none"
    BY <1>9, <2>1, RecvClosedResetsKeeps
  <2>2. CASE nc[rconn].pcb # "none" /\ nc[rconn].state = "none"
    BY <1>9, <2>2, RecvClosedDrainsKeeps
  <2>3. CASE nc[rconn].pcb # "none" /\ nc[rconn].state # "none"
    BY <1>9, <2>3, RecvMovesOn DEF RecvClosed
  <2>4. QED
    BY <2>1, <2>2, <2>3
<1>10. CASE StartRecv \/ Handle \/ RecvError
  BY <1>10, RecvMovesOn DEF StartRecv, Handle, RecvError
<1>11. CASE Ring \/ TaskExit \/ Spin \/ UNCHANGED vars \/ \E c \in Conns : HostSend(c)
  BY <1>11, WorldKeeps
<1>12. QED
  BY <1>1, <1>2, <1>3, <1>4, <1>5, <1>6, <1>7, <1>8, <1>9, <1>10, <1>11
  DEF Next, Client, Recv, ErrRest

-----------------------------------------------------------------------------
(* The inductive invariant holds in every reachable state.                 *)
THEOREM Invariance == Spec => []Inv
  BY InitInv, NextInv, PTL DEF Spec

(* Every variable keeps to its range: no mailbox overflows, and            *)
(* op_completed never holds two tokens (recv_tcp, err_tcp).                *)
THEOREM TypeCorrect == Spec => []TypeOK
<1>1. Inv => TypeOK
  BY DEF Inv
<1>2. QED
  BY Invariance, <1>1, PTL

(* Every wait of netconn_connect and netconn_write is owed a signal, and   *)
(* no signal is left over for a later one, whatever the host does          *)
(* (lwip_netconn_do_connect, lwip_netconn_do_write, err_tcp).              *)
THEOREM WaitsAreOwed == Spec => []CompletionOwed
<1>1. Inv => CompletionOwed
  <2> SUFFICES ASSUME Inv
               PROVE  CompletionOwed
    OBVIOUS
  <2> USE DEF Inv, Here
  <2>1. ASSUME client \in Waiting
        PROVE  \/ nc[conn].sem = 1
               \/ nc[conn].state # "none" /\ Live(conn)
               \/ stack.at # "idle" /\ stack.conn = conn /\ stack.wake
    <3>1. conn \in Conns /\ conn # Null
      BY <2>1, ConnInPool DEF InUse, Waiting
    <3>2. nc[conn].state # "none" => Live(conn)
      BY <3>1, NetconnFields DEF Operation, Live
    <3>3. QED
      BY <2>1, <3>1, <3>2 DEF Operation, InErr
  <2>2. ASSUME NEW c \in Conns, nc[c].sem > 0
        PROVE  c = conn /\ client \in Waiting /\ nc[c].state = "none"
    BY <2>2 DEF Elsewhere, Operation, Conns, Null
  <2>3. QED
    BY <2>1, <2>2 DEF CompletionOwed, Waiting
<1>2. QED
  BY Invariance, <1>1, PTL

(* clientrecv does not block on a mailbox whose connection is gone, unless *)
(* the error is on its way there (netconn_recv_data against err_tcp).      *)
THEOREM ReceiverHears == Spec => []ReceiverWillHear
<1>1. Inv => ReceiverWillHear
  BY DEF Inv, Here, Reader, Reading, InErr, ReceiverWillHear
<1>2. QED
  BY Invariance, <1>1, PTL

(* netconn_close never frees the mailbox that clientrecv reads from: the   *)
(* client reaches it only before clientrecv has anything to read           *)
(* (netconn_close in client, netconn_recv in clientrecv).                  *)
THEOREM MailboxOutlivesReader == Spec => []MailboxAlive
<1>1. Inv => MailboxAlive
  BY DEF Inv, Here, Reader, Reading, MailboxAlive
<1>2. QED
  BY Invariance, <1>1, PTL
=============================================================================
