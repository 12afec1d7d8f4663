--------------------------- MODULE HostPipeProofs ---------------------------
(***************************************************************************)
(* The proof that HostLink implements CommandPipe and what follows from    *)
(* it: whatever the sizes of mailbox and pool, and whatever becomes of the *)
(* connection, segments are acted upon one by one in the order sent; none  *)
(* is lost while the connection stands; and the output is toggled by       *)
(* nothing but what was acted upon.                                        *)
(*                                                                         *)
(* The invariant gives each segment in the module its place in what was    *)
(* sent (Line): the one clientrecv holds comes after those acted upon,     *)
(* those in the mailbox after that, those not yet posted last.  Nothing    *)
(* comes into the mailbox after an error or the end of the stream, and     *)
(* nothing was sent before the one connection the client makes.  That what *)
(* was acted upon is itself the beginning of what was sent (InOrder) is    *)
(* proved of CommandPipe and carried over by the refinement.               *)
(***************************************************************************)
EXTENDS HostLinkProofs, FiniteSetTheorems

Holding == IF recv = "got" /\ item.kind = "data" THEN 1 ELSE 0
Base == Len(taken) + Holding
Box == nc[conn].recvmbox
Unopened == client \in Trying \/ nc[conn].pcb \in {"closed", "synsent"}

InHand ==
  /\ Base <= Len(sent)
  /\ Holding = 1 => item.cmds = sent[Len(taken) + 1]
  /\ recv = "got" /\ item.kind # "data" =>
       nc[conn].pcb # "established" /\ \A i \in DOMAIN Box : Box[i].kind # "data"
Posted ==
  conn # Null =>
    /\ \A i \in DOMAIN Box : Box[i].kind = "data" =>
         Base + i <= Len(sent) /\ Box[i].cmds = sent[Base + i]
    /\ \A i, j \in DOMAIN Box : i < j /\ Box[j].kind = "data" => Box[i].kind = "data"
Coming ==
  conn # Null /\ nc[conn].pcb = "established" =>
    /\ \A i \in DOMAIN Box : Box[i].kind = "data"
    /\ Base + Len(Box) + Len(wire) = Len(sent)
    /\ \A k \in DOMAIN wire : wire[k] = sent[Base + Len(Box) + k]
Before ==
  conn = Null \/ Unopened =>
    /\ sent = <<>> /\ wire = <<>> /\ recv # "got"
    /\ conn # Null => Box = <<>>

Line == InHand /\ Posted /\ Coming /\ Before

-----------------------------------------------------------------------------
(* What the places are made of.                                            *)
LEMMA PlaceTypes ==
  ASSUME TypeOK
  PROVE  /\ sent \in Seq(Segments) /\ wire \in Seq(Segments) /\ taken \in Seq(Segments)
         /\ Len(sent) \in Nat /\ Len(wire) \in Nat /\ Len(taken) \in Nat
         /\ Holding \in {0, 1} /\ Base \in Nat
         /\ conn # Null => Box \in Seq(Items) /\ Len(Box) \in Nat
  BY ConnInPool, NetconnFields DEF TypeOK, Holding, Base, Box

LEMMA InitLine == Init => Line
<1> SUFFICES ASSUME Init
             PROVE  Line
  OBVIOUS
<1>1. taken = <<>> /\ sent = <<>> /\ wire = <<>> /\ Len(<<>>) = 0 /\ conn = Null
      /\ recv = "absent" /\ Holding = 0
  BY DEF Init, Holding
<1>2. QED
  BY <1>1 DEF Line, InHand, Posted, Coming, Before, Base

(* Most steps leave all segments where they are.                           *)
Still ==
  /\ UNCHANGED <<conn, sent, taken, wire, item>>
  /\ recv = "got" <=> recv' = "got"
  /\ conn # Null =>
       /\ nc'[conn].recvmbox = nc[conn].recvmbox
       /\ nc'[conn].pcb = nc[conn].pcb
       /\ client' \in Trying => client \in Trying

LEMMA StillKeeps ==
  ASSUME Inv, Line, Still
  PROVE  Line'
<1>1. Holding' = Holding /\ Base' = Base /\ (recv = "got" => conn # Null)
  BY DEF Still, Holding, Base, Inv, Here, InUse, Reader, Reading, Open
<1>2. conn # Null => Box' = Box
  BY DEF Still, Box
<1>3. InHand'
  BY <1>1, <1>2 DEF Still, Line, InHand
<1>4. Posted' /\ Coming'
  BY <1>1, <1>2 DEF Still, Line, Posted, Coming
<1>5. Before'
  BY <1>2 DEF Still, Line, Before, Unopened
<1>6. QED
  BY <1>3, <1>4, <1>5 DEF Line

LEMMA ClientStill ==
  ASSUME Inv, Delayed \/ Completed \/ Take \/ Write
  PROVE  Still
<1> USE DEF Inv, Here, Still, Trying
<1>1. client # "delay" => conn \in Conns
  BY ConnInPool DEF InUse, Delayed, Completed, Take, Write
<1>2. CASE Delayed \/ Take
  BY <1>2 DEF Delayed, Take, poolVars, recvVars, hostVars, outVars
<1>3. CASE Completed
  <2>1. conn \in Conns /\ client' = "take"
    BY <1>1, <1>3 DEF Completed, Operation, Null, Conns
  <2>2. nc'[conn].recvmbox = nc[conn].recvmbox /\ nc'[conn].pcb = nc[conn].pcb
    BY <1>3, <2>1 DEF Completed, TypeOK, Netconns
  <2>3. QED
    BY <1>3, <2>1, <2>2 DEF Completed, poolVars, recvVars, hostVars, outVars
<1>4. CASE Write
  <2>1. conn \in Conns /\ client' \in {"take", "writing"}
    BY <1>1, <1>4 DEF Write
  <2>2. nc'[conn].recvmbox = nc[conn].recvmbox /\ nc'[conn].pcb = nc[conn].pcb
    BY <1>4, <2>1 DEF Write, TypeOK, Netconns
  <2>3. QED
    BY <1>4, <2>1, <2>2 DEF Write, poolVars, recvVars, hostVars, outVars
<1>5. QED
  BY <1>2, <1>3, <1>4

LEMMA OthersStill ==
  ASSUME Inv,
         \/ ErrSignal \/ RecvCall \/ RecvEmpty \/ StartRecv
         \/ Ring \/ TaskExit \/ Spin \/ UNCHANGED vars
         \/ \E c \in Conns : WriteMore(c)
  PROVE  Still
<1> USE DEF Inv, Here, Still
<1>1. ASSUME NEW c \in Conns, WriteMore(c)
      PROVE  Still
  <2>1. \A d \in Conns : nc'[d].recvmbox = nc[d].recvmbox /\ nc'[d].pcb = nc[d].pcb
    BY <1>1 DEF WriteMore, TypeOK, Netconns
  <2>2. QED
    BY <1>1, <2>1, ConnInPool DEF WriteMore, poolVars, recvVars, hostVars, outVars
<1>2. CASE ErrSignal
  <2>1. conn \in Conns /\ stack.conn = conn
    BY <1>2, ConnInPool DEF ErrSignal, InErr
  <2>2. nc'[conn].recvmbox = nc[conn].recvmbox /\ nc'[conn].pcb = nc[conn].pcb
    <3>1. CASE stack.wake
      <4>1. nc' = [nc EXCEPT ![conn].sem = @ + 1]
        BY <1>2, <2>1, <3>1 DEF ErrSignal
      <4>2. QED
        BY <2>1, <4>1 DEF TypeOK, Netconns
    <3>2. CASE ~stack.wake
      BY <1>2, <3>2 DEF ErrSignal
    <3>3. QED
      BY <3>1, <3>2
  <2>3. QED
    BY <1>2, <2>2 DEF ErrSignal, poolVars, recvVars, hostVars, outVars
<1>3. CASE RecvEmpty
  <2>1. \A d \in Conns : nc'[d].recvmbox = nc[d].recvmbox /\ nc'[d].pcb = nc[d].pcb
    BY <1>3 DEF RecvEmpty, TypeOK, Netconns
  <2>2. QED
    BY <1>3, <2>1, ConnInPool DEF RecvEmpty, poolVars, clientVars, hostVars, outVars
<1>4. CASE RecvCall
  BY <1>4 DEF RecvCall, poolVars, clientVars, hostVars, outVars
<1>5. CASE StartRecv
  BY <1>5 DEF StartRecv, poolVars, clientVars, hostVars, outVars
<1>6. CASE Ring \/ TaskExit \/ Spin \/ UNCHANGED vars
  BY <1>6 DEF Ring, TaskExit, Spin, vars, poolVars, clientVars, recvVars, hostVars, outVars
<1>7. QED
  BY <1>1, <1>2, <1>3, <1>4, <1>5, <1>6

-----------------------------------------------------------------------------
(* Until the connection stands there is nothing to keep in order.          *)
LEMMA NothingYet ==
  ASSUME TypeOK, Line, conn = Null \/ Unopened
  PROVE  /\ sent = <<>> /\ wire = <<>> /\ taken = <<>>
         /\ Len(sent) = 0 /\ Len(taken) = 0 /\ Holding = 0
         /\ conn # Null => Box = <<>>
<1>1. sent = <<>> /\ wire = <<>> /\ (conn # Null => Box = <<>>) /\ Len(sent) = 0
  BY DEF Line, Before
<1>2. Len(taken) = 0 /\ Holding = 0
  BY <1>1, PlaceTypes DEF Line, InHand, Base
<1>3. QED
  BY <1>1, <1>2, PlaceTypes

LEMMA OpeningKeeps ==
  ASSUME Inv, Inv', Line,
         NetconnNew \/ Connect \/ Close \/ \E c \in Conns : Connected(c)
  PROVE  Line'
<1> USE DEF Inv, Here
<1>1. conn = Null \/ Unopened
  BY BusyIsInUse DEF NetconnNew, Connect, Close, Connected, Unopened, Trying
<1>2. /\ sent = <<>> /\ wire = <<>> /\ taken = <<>> /\ Len(sent) = 0 /\ Len(taken) = 0
      /\ conn # Null => Box = <<>>
  BY <1>1, NothingYet
<1>3. UNCHANGED <<sent, wire, taken, recv, item>>
  BY DEF NetconnNew, Connect, Close, Connected, recvVars, hostVars, outVars
<1>4. recv # "got" /\ recv' # "got"
  BY <1>1, <1>3 DEF Line, Before
<1>5. conn' # Null => nc'[conn'].recvmbox = <<>>
  <2>1. CASE NetconnNew
    BY <1>2, <2>1, ConnInPool, LinkAssumption
    DEF NetconnNew, Elsewhere, Fresh, TypeOK, Conns, Null
  <2>2. ASSUME NEW c \in Conns, Connected(c)
        PROVE  conn' # Null => nc'[conn'].recvmbox = <<>>
    <3>1. c = conn /\ conn # Null /\ conn' = conn
      BY <2>2, BusyIsInUse DEF Connected, poolVars
    <3>2. nc'[conn].recvmbox = nc[conn].recvmbox
      <4>1. nc' = [nc EXCEPT ![conn].pcb = "established", ![conn].state = "none",
                             ![conn].sem = @ + 1]
        BY <2>2, <3>1 DEF Connected
      <4>2. QED
        BY <3>1, <4>1 DEF TypeOK, Netconns
    <3>3. QED
      BY <1>2, <3>1, <3>2 DEF Box
  <2>3. CASE Connect
    <3>1. conn # Null /\ conn' = conn /\ conn \in Conns
      BY <2>3, ConnInPool DEF Connect, poolVars, InUse
    <3>2. \/ nc' = nc
          \/ nc' = [nc EXCEPT ![conn].pcb = "synsent", ![conn].state = "connect"]
      BY <2>3 DEF Connect
    <3>3. nc'[conn].recvmbox = nc[conn].recvmbox
      BY <3>1, <3>2 DEF TypeOK, Netconns
    <3>4. QED
      BY <1>2, <3>1, <3>3 DEF Box
  <2>4. CASE Close
    <3>1. conn # Null /\ conn' = conn /\ conn \in Conns
      BY <2>4, ConnInPool DEF Close, poolVars, InUse
    <3>2. nc'[conn].recvmbox = <<>>
      BY <2>4, <3>1 DEF Close, TypeOK, Netconns
    <3>3. QED
      BY <3>1, <3>2
  <2>5. QED
    BY <2>1, <2>2, <2>3, <2>4
<1>6. Holding' = 0 /\ Base' = 0 /\ (conn' # Null => Box' = <<>>)
  BY <1>2, <1>3, <1>4, <1>5 DEF Holding, Base, Box
<1>7. InHand' /\ Posted'
  BY <1>2, <1>3, <1>4, <1>6 DEF InHand, Posted
<1>8. Coming' /\ Before'
  BY <1>2, <1>3, <1>4, <1>6 DEF Coming, Before
<1>9. QED
  BY <1>7, <1>8 DEF Line

-----------------------------------------------------------------------------
(* What a step of the TCP/IP thread does to the netconn in use.            *)
LEMMA InUseOnly ==
  ASSUME Inv, NEW c \in Conns, RecvTcp(c) \/ RecvFin(c) \/ ErrTcp(c) \/ HostSend(c)
  PROVE  /\ c = conn /\ conn # Null /\ conn' = conn /\ client \in Open /\ client' = client
         /\ UNCHANGED <<recv, item, taken>>
<1>1. c = conn /\ conn # Null /\ client \in Open
  BY BusyIsInUse DEF RecvTcp, RecvFin, ErrTcp, HostSend, Live
<1>2. QED
  BY <1>1 DEF RecvTcp, RecvFin, ErrTcp, HostSend, poolVars, clientVars, recvVars, outVars

(* recv_tcp posts the first of the segments on their way.                  *)
LEMMA RecvTcpInLine ==
  ASSUME Inv, Line, NEW c \in Conns, RecvTcp(c)
  PROVE  Line'
<1>1. /\ conn \in Conns /\ conn # Null /\ conn' = conn /\ client' \in Open
      /\ c = conn /\ UNCHANGED <<recv, item, taken, sent>>
      /\ nc[conn].pcb = "established" /\ wire # <<>> /\ wire' = Tail(wire)
  BY InUseOnly DEF RecvTcp
<1>2. nc'[conn].pcb = "established" /\ nc'[conn].recvmbox = Append(Box, Data(Head(wire)))
  BY <1>1 DEF Inv, TypeOK, Netconns, RecvTcp, Box
<1>3. Box' = Append(Box, Data(Head(wire))) /\ Holding' = Holding /\ Base' = Base
  BY <1>1, <1>2 DEF Box, Holding, Base
<1>4. /\ sent \in Seq(Segments) /\ wire \in Seq(Segments) /\ Box \in Seq(Items)
      /\ Len(sent) \in Nat /\ Len(wire) \in Nat /\ Len(Box) \in Nat /\ Base \in Nat
  BY <1>1, PlaceTypes DEF Inv
<1>5. /\ \A i \in DOMAIN Box : Box[i].kind = "data"
      /\ \A i \in DOMAIN Box : Base + i <= Len(sent) /\ Box[i].cmds = sent[Base + i]
      /\ Base + Len(Box) + Len(wire) = Len(sent)
      /\ \A k \in DOMAIN wire : wire[k] = sent[Base + Len(Box) + k]
  BY <1>1 DEF Line, Coming, Posted
<1>6. /\ Len(Box') = Len(Box) + 1 /\ DOMAIN Box' = 1 .. Len(Box) + 1
      /\ \A i \in DOMAIN Box : Box'[i] = Box[i]
      /\ Box'[Len(Box) + 1] = Data(Head(wire))
      /\ DOMAIN Box = 1 .. Len(Box)
  BY <1>3, <1>4
<1>7. /\ Len(wire) > 0 /\ Head(wire) = wire[1] /\ DOMAIN wire = 1 .. Len(wire)
      /\ Len(wire') = Len(wire) - 1 /\ DOMAIN wire' = 1 .. Len(wire) - 1
      /\ \A k \in DOMAIN wire' : wire'[k] = wire[k + 1]
  BY <1>1, <1>4
<1>8. \A i \in DOMAIN Box' :
        Box'[i].kind = "data" /\ Base + i <= Len(sent) /\ Box'[i].cmds = sent[Base + i]
  <2> SUFFICES ASSUME NEW i \in DOMAIN Box'
               PROVE  Box'[i].kind = "data" /\ Base + i <= Len(sent)
                      /\ Box'[i].cmds = sent[Base + i]
    OBVIOUS
  <2>1. CASE i \in DOMAIN Box
    BY <1>5, <1>6, <2>1
  <2>2. CASE i = Len(Box) + 1
    <3>1. Box'[i].kind = "data" /\ Box'[i].cmds = wire[1]
      BY <1>6, <1>7, <2>2 DEF Data
    <3>2. 1 \in DOMAIN wire /\ Base + Len(Box) + 1 = Base + i /\ Base + i <= Len(sent)
      BY <1>4, <1>5, <1>7, <2>2
    <3>3. QED
      BY <1>5, <3>1, <3>2
  <2>3. QED
    BY <1>4, <1>6, <2>1, <2>2
<1>9. InHand'
  BY <1>1, <1>3 DEF Line, InHand
<1>10. Posted'
  BY <1>1, <1>3, <1>8 DEF Posted
<1>11. Coming'
  <2>1. \A k \in DOMAIN wire' : wire'[k] = sent[Base + Len(Box) + 1 + k]
    <3> SUFFICES ASSUME NEW k \in DOMAIN wire'
                 PROVE  wire'[k] = sent[Base + Len(Box) + 1 + k]
      OBVIOUS
    <3>1. /\ k + 1 \in DOMAIN wire /\ wire'[k] = wire[k + 1]
          /\ Base + Len(Box) + (k + 1) = Base + Len(Box) + 1 + k
      BY <1>4, <1>7
    <3>2. wire[k + 1] = sent[Base + Len(Box) + (k + 1)]
      BY <1>5, <3>1
    <3>3. QED
      BY <3>1, <3>2
  <2>2. Base + (Len(Box) + 1) + (Len(wire) - 1) = Len(sent)
    BY <1>4, <1>5
  <2>3. QED
    BY <1>1, <1>3, <1>4, <1>6, <1>7, <1>8, <2>1, <2>2 DEF Coming
<1>12. Before'
  BY <1>1, <1>2 DEF Before, Unopened, Open, Trying
<1>13. QED
  BY <1>9, <1>10, <1>11, <1>12 DEF Line

(* A notice comes after all data, or not at all.                           *)
LEMMA NoticeInLine ==
  ASSUME Inv, Line, NEW x \in {Closed, Error}, conn # Null, client' \in Open,
         UNCHANGED <<conn, recv, item, taken, sent>>,
         nc'[conn].pcb \in {"none", "closewait"},
         \/ nc'[conn].recvmbox = nc[conn].recvmbox
         \/ nc'[conn].recvmbox = Append(nc[conn].recvmbox, x)
  PROVE  Line'
<1>1. Holding' = Holding /\ Base' = Base /\ (Box' = Box \/ Box' = Append(Box, x))
  BY DEF Holding, Base, Box
<1>2. Box \in Seq(Items) /\ Len(Box) \in Nat /\ x \in Items /\ x.kind # "data"
  BY PlaceTypes, ItemTypes DEF Inv, Closed, Error
<1>3. \A i \in DOMAIN Box' :
        \/ i \in DOMAIN Box /\ Box'[i] = Box[i]
        \/ Box'[i].kind # "data" /\ \A j \in DOMAIN Box' : j <= i
  BY <1>1, <1>2
<1>4. DOMAIN Box \subseteq DOMAIN Box' /\ DOMAIN Box' \subseteq Nat
  BY <1>1, <1>2
<1>5. InHand'
  BY <1>1, <1>3 DEF Line, InHand
<1>6. Posted'
  <2>1. \A i \in DOMAIN Box' : Box'[i].kind = "data" =>
          Base + i <= Len(sent) /\ Box'[i].cmds = sent[Base + i]
    BY <1>3 DEF Line, Posted
  <2>2. ASSUME NEW i \in DOMAIN Box', NEW j \in DOMAIN Box', i < j, Box'[j].kind = "data"
        PROVE  Box'[i].kind = "data"
    <3>1. j \in DOMAIN Box /\ Box'[j] = Box[j]
      BY <1>3, <2>2
    <3>2. i \in DOMAIN Box /\ Box'[i] = Box[i]
      BY <1>3, <1>4, <2>2
    <3>3. QED
      BY <2>2, <3>1, <3>2 DEF Line, Posted
  <2>3. QED
    BY <1>1, <2>1, <2>2 DEF Posted
<1>7. Coming' /\ Before'
  BY DEF Coming, Before, Unopened, Open, Trying
<1>8. QED
  BY <1>5, <1>6, <1>7 DEF Line

LEMMA EndInLine ==
  ASSUME Inv, Line, ErrPost \/ \E c \in Conns : RecvFin(c) \/ ErrTcp(c)
  PROVE  Line'
<1>1. ASSUME NEW c \in Conns, RecvFin(c)
      PROVE  Line'
  <2>1. /\ c = conn /\ conn # Null /\ client' \in Open
        /\ UNCHANGED <<conn, recv, item, taken, sent>>
    BY <1>1, InUseOnly DEF RecvFin, hostVars
  <2>2. /\ nc'[conn].pcb = "closewait"
        /\ \/ nc'[conn].recvmbox = nc[conn].recvmbox
           \/ nc'[conn].recvmbox = Append(nc[conn].recvmbox, Closed)
    BY <1>1, <2>1 DEF RecvFin, Inv, TypeOK, Netconns
  <2>3. QED
    BY <2>1, <2>2, NoticeInLine
<1>2. ASSUME NEW c \in Conns, ErrTcp(c)
      PROVE  Line'
  <2>1. /\ c = conn /\ conn # Null /\ client' \in Open
        /\ UNCHANGED <<conn, recv, item, taken, sent>>
    BY <1>2, InUseOnly DEF ErrTcp
  <2>2. nc' = [nc EXCEPT ![conn].pcb = "none", ![conn].pending = TRUE,
                         ![conn].mboxclosed = TRUE, ![conn].state = "none"]
    BY <1>2, <2>1 DEF ErrTcp
  <2>3. nc'[conn].pcb = "none" /\ nc'[conn].recvmbox = nc[conn].recvmbox
    BY <2>1, <2>2 DEF Inv, TypeOK, Netconns
  <2>4. QED
    BY <2>1, <2>3, NoticeInLine
<1>3. CASE ErrPost
  <2>1. /\ stack.conn = conn /\ conn \in Conns /\ conn # Null /\ client' \in Open
        /\ nc[conn].pcb = "none" /\ UNCHANGED <<conn, recv, item, taken, sent>>
    BY <1>3, ConnInPool
    DEF ErrPost, Inv, Here, InErr, poolVars, clientVars, recvVars, hostVars, outVars
  <2>2. /\ nc'[conn].pcb = "none"
        /\ \/ nc'[conn].recvmbox = nc[conn].recvmbox
           \/ nc'[conn].recvmbox = Append(nc[conn].recvmbox, Error)
    BY <1>3, <2>1 DEF ErrPost, Inv, TypeOK, Netconns
  <2>3. QED
    BY <2>1, <2>2, NoticeInLine
<1>4. QED
  BY <1>1, <1>2, <1>3

-----------------------------------------------------------------------------
(* clientrecv takes the first item: a segment, or a notice after which     *)
(* there are no more segments.                                             *)
LEMMA FetchInLine ==
  ASSUME Inv, Line, RecvFetch
  PROVE  Line'
<1>1. /\ conn \in Conns /\ conn # Null /\ conn' = conn /\ rconn = conn
      /\ recv # "got" /\ recv' = "got" /\ Box # <<>> /\ item' = Head(Box)
      /\ client' \in Open /\ UNCHANGED <<sent, wire, taken>>
  BY ConnInPool
  DEF RecvFetch, Inv, Here, InUse, Reader, Reading, Open, Box,
      poolVars, clientVars, hostVars, outVars
<1>2. nc'[conn].recvmbox = Tail(Box) /\ nc'[conn].pcb = nc[conn].pcb
  BY <1>1 DEF RecvFetch, Inv, TypeOK, Netconns, Box
<1>3. /\ Box \in Seq(Items) /\ Len(Box) \in Nat /\ DOMAIN Box = 1 .. Len(Box)
      /\ Len(sent) \in Nat /\ Len(taken) \in Nat /\ Len(wire) \in Nat
      /\ Holding = 0 /\ Base = Len(taken)
  BY <1>1, PlaceTypes DEF Inv, Holding, Base
<1>4. /\ Box' = Tail(Box) /\ Len(Box') = Len(Box) - 1 /\ DOMAIN Box' = 1 .. Len(Box) - 1
      /\ \A i \in DOMAIN Box' : Box'[i] = Box[i + 1] /\ i + 1 \in DOMAIN Box
      /\ 1 \in DOMAIN Box /\ item' = Box[1]
  BY <1>1, <1>2, <1>3 DEF Box
<1>5. Before'
  BY <1>1, <1>2, <1>3 DEF Line, Before, Unopened, Open, Trying
<1>6. CASE Box[1].kind = "data"
  <2>1. Holding' = 1 /\ Base' = Base + 1
    BY <1>1, <1>3, <1>4, <1>6 DEF Holding, Base
  <2>2. InHand'
    <3>1. Base + 1 <= Len(sent) /\ Box[1].cmds = sent[Base + 1]
      BY <1>1, <1>4, <1>6 DEF Line, Posted
    <3>2. QED
      BY <1>1, <1>3, <1>4, <1>6, <2>1, <3>1 DEF InHand
  <2>3. Posted'
    <3>1. ASSUME NEW i \in DOMAIN Box', Box'[i].kind = "data"
          PROVE  Base' + i <= Len(sent) /\ Box'[i].cmds = sent[Base' + i]
      <4>1. Base + (i + 1) <= Len(sent) /\ Box[i + 1].cmds = sent[Base + (i + 1)]
        BY <1>1, <1>4, <3>1 DEF Line, Posted
      <4>2. Base' + i = Base + (i + 1)
        BY <1>3, <1>4, <2>1
      <4>3. QED
        BY <1>4, <4>1, <4>2
    <3>2. ASSUME NEW i \in DOMAIN Box', NEW j \in DOMAIN Box', i < j, Box'[j].kind = "data"
          PROVE  Box'[i].kind = "data"
      <4>1. i + 1 < j + 1
        BY <1>3, <1>4, <3>2
      <4>2. QED
        BY <1>1, <1>4, <3>2, <4>1 DEF Line, Posted
    <3>3. QED
      BY <1>1, <3>1, <3>2 DEF Posted
  <2>4. Coming'
    <3> SUFFICES ASSUME nc[conn].pcb = "established"
                 PROVE  /\ \A i \in DOMAIN Box' : Box'[i].kind = "data"
                        /\ Base' + Len(Box') + Len(wire) = Len(sent)
                        /\ \A k \in DOMAIN wire : wire[k] = sent[Base' + Len(Box') + k]
      BY <1>1, <1>2 DEF Coming
    <3>1. Base' + Len(Box') = (Base + 1) + (Len(Box) - 1)
      BY <1>4, <2>1
    <3>2. Base' + Len(Box') = Base + Len(Box)
      <4>1. Base \in Nat /\ Len(Box) \in Nat
        BY <1>3
      <4>2. QED
        BY <3>1, <4>1
    <3>3. QED
      BY <1>1, <1>4, <3>2 DEF Line, Coming
  <2>5. QED
    BY <1>5, <2>2, <2>3, <2>4 DEF Line
<1>7. CASE Box[1].kind # "data"
  <2>1. Holding' = 0 /\ Base' = Base
    BY <1>1, <1>3, <1>4, <1>7 DEF Holding, Base
  <2>2. \A i \in DOMAIN Box : Box[i].kind # "data"
    <3> SUFFICES ASSUME NEW i \in DOMAIN Box, Box[i].kind = "data"
                 PROVE  FALSE
      OBVIOUS
    <3>1. i # 1 /\ 1 < i
      BY <1>3, <1>7
    <3>2. QED
      BY <1>1, <1>4, <1>7, <3>1 DEF Line, Posted
  <2>3. \A i \in DOMAIN Box' : Box'[i].kind # "data"
    BY <1>4, <2>2
  <2>4. nc'[conn].pcb # "established"
    BY <1>1, <1>2, <1>4, <1>7 DEF Line, Coming
  <2>5. InHand'
    BY <1>1, <1>3, <2>1, <2>3, <2>4 DEF Line, InHand
  <2>6. Posted' /\ Coming'
    BY <1>1, <2>3, <2>4 DEF Posted, Coming
  <2>7. QED
    BY <1>5, <2>5, <2>6 DEF Line
<1>8. QED
  BY <1>6, <1>7

(* The segment in hand is the next one, and is acted upon.                 *)
LEMMA HandleInLine ==
  ASSUME Inv, Line, Handle
  PROVE  /\ Line'
         /\ Len(taken) < Len(sent) /\ taken' = Append(taken, sent[Len(taken) + 1])
         /\ sent' = sent
<1>1. /\ conn # Null /\ conn' = conn /\ nc' = nc /\ client' = client
      /\ recv = "got" /\ item.kind = "data" /\ recv' = "call"
      /\ taken' = Append(taken, item.cmds) /\ UNCHANGED <<sent, wire>>
  BY DEF Handle, Inv, Here, InUse, Reader, Reading, Open, poolVars, clientVars, hostVars
<1>2. item.cmds \in Segments
  BY <1>1 DEF Inv, TypeOK, Items, Data, Closed, Error
<1>3. /\ taken \in Seq(Segments) /\ Len(taken) \in Nat /\ Len(sent) \in Nat
      /\ Holding = 1 /\ Base = Len(taken) + 1
  BY <1>1, PlaceTypes DEF Inv, Holding, Base
<1>4. /\ Len(taken') = Len(taken) + 1 /\ Holding' = 0 /\ Base' = Base /\ Box' = Box
  BY <1>1, <1>2, <1>3 DEF Holding, Base, Box
<1>5. InHand'
  BY <1>1, <1>3, <1>4 DEF Line, InHand
<1>6. Posted' /\ Coming'
  BY <1>1, <1>4 DEF Line, Posted, Coming
<1>7. Before'
  BY <1>1, <1>4 DEF Line, Before, Unopened
<1>8. Len(taken) < Len(sent) /\ item.cmds = sent[Len(taken) + 1]
  BY <1>3 DEF Line, InHand
<1>9. QED
  BY <1>1, <1>5, <1>6, <1>7, <1>8 DEF Line

(* A notice ends the loop: nothing was left behind it.                     *)
LEMMA LeaveInLine ==
  ASSUME Inv, Line, RecvClosed \/ RecvError
  PROVE  Line' /\ UNCHANGED <<sent, taken>>
<1>1. /\ conn \in Conns /\ conn # Null /\ conn' = conn /\ rconn = conn /\ client' = client
      /\ recv = "got" /\ item.kind # "data" /\ recv' = "returned"
      /\ UNCHANGED <<sent, wire, taken>>
  BY ConnInPool
  DEF RecvClosed, RecvError, Inv, Here, InUse, Reader, Reading, Open,
      poolVars, clientVars, hostVars, outVars
<1>2. nc'[conn].pcb = nc[conn].pcb /\ nc'[conn].recvmbox \in {nc[conn].recvmbox, <<>>}
  <2>1. CASE RecvError
    BY <2>1 DEF RecvError
  <2>2. CASE RecvClosed
    BY <1>1, <2>2 DEF RecvClosed, Inv, TypeOK, Netconns
  <2>3. QED
    BY <2>1, <2>2
<1>3. Holding = 0 /\ Holding' = 0 /\ Base' = Base /\ Box' \in {Box, <<>>}
  BY <1>1, <1>2 DEF Holding, Base, Box
<1>4. nc'[conn].pcb # "established" /\ \A i \in DOMAIN Box' : Box'[i].kind # "data"
  BY <1>1, <1>2, <1>3 DEF Line, InHand
<1>5. InHand'
  BY <1>1, <1>3 DEF Line, InHand
<1>6. Posted' /\ Coming'
  BY <1>1, <1>4 DEF Posted, Coming
<1>7. Before'
  BY <1>1, <1>2, <1>3 DEF Line, Before, Unopened
<1>8. QED
  BY <1>1, <1>5, <1>6, <1>7 DEF Line

(* The host adds a segment at the end.                                     *)
LEMMA SendInLine ==
  ASSUME Inv, Line, NEW c \in Conns, HostSend(c)
  PROVE  /\ Line'
         /\ \E s \in Segments : sent' = Append(sent, s)
         /\ taken' = taken
<1>1. /\ c = conn /\ conn # Null /\ conn' = conn /\ client' \in Open
      /\ UNCHANGED <<recv, item, taken, nc>> /\ nc[conn].pcb = "established"
  BY InUseOnly DEF HostSend
<1>2. PICK s \in Segments : sent' = Append(sent, s) /\ wire' = Append(wire, s)
  BY DEF HostSend
<1>3. /\ sent \in Seq(Segments) /\ wire \in Seq(Segments) /\ Box \in Seq(Items)
      /\ Len(sent) \in Nat /\ Len(wire) \in Nat /\ Len(taken) \in Nat /\ Len(Box) \in Nat
      /\ Holding \in {0, 1} /\ Base \in Nat
  BY <1>1, PlaceTypes DEF Inv
<1>4. Holding' = Holding /\ Base' = Base /\ Box' = Box
  BY <1>1 DEF Holding, Base, Box
<1>5. /\ Len(sent') = Len(sent) + 1 /\ Len(wire') = Len(wire) + 1
      /\ DOMAIN wire' = 1 .. Len(wire) + 1 /\ DOMAIN wire = 1 .. Len(wire)
      /\ sent'[Len(sent) + 1] = s /\ wire'[Len(wire) + 1] = s
      /\ \A k \in DOMAIN wire : wire'[k] = wire[k]
      /\ \A n \in 1 .. Len(sent) : sent'[n] = sent[n]
  BY <1>2, <1>3
<1>6. InHand'
  <2>1. Holding = 1 => Len(taken) + 1 \in 1 .. Len(sent)
    BY <1>3 DEF Line, InHand, Base
  <2>2. QED
    BY <1>1, <1>3, <1>4, <1>5, <2>1 DEF Line, InHand
<1>7. Posted'
  <2>1. ASSUME NEW i \in DOMAIN Box, Box[i].kind = "data"
        PROVE  Base + i <= Len(sent') /\ Box[i].cmds = sent'[Base + i]
    <3>1. Base + i <= Len(sent) /\ Box[i].cmds = sent[Base + i]
      BY <1>1, <2>1 DEF Line, Posted
    <3>2. Base + i \in 1 .. Len(sent)
      BY <1>3, <3>1
    <3>3. QED
      BY <1>3, <1>5, <3>1, <3>2
  <2>2. QED
    BY <1>1, <1>4, <2>1 DEF Line, Posted
<1>8. Coming'
  <2>1. /\ \A i \in DOMAIN Box : Box[i].kind = "data"
        /\ Base + Len(Box) + Len(wire) = Len(sent)
        /\ \A k \in DOMAIN wire : wire[k] = sent[Base + Len(Box) + k]
    BY <1>1 DEF Line, Coming
  <2>2. ASSUME NEW k \in DOMAIN wire'
        PROVE  wire'[k] = sent'[Base + Len(Box) + k]
    <3>1. CASE k \in DOMAIN wire
      <4>1. Base + Len(Box) + k \in 1 .. Len(sent)
        BY <1>3, <1>5, <2>1, <3>1
      <4>2. QED
        BY <1>5, <2>1, <3>1, <4>1
    <3>2. CASE k = Len(wire) + 1
      <4>1. Base + Len(Box) + k = Len(sent) + 1
        <5>1. Base + Len(Box) + Len(wire) = Len(sent)
          BY <2>1
        <5>2. QED
          BY <1>3, <3>2, <5>1
      <4>2. QED
        BY <1>5, <3>2, <4>1
    <3>3. k \in DOMAIN wire \/ k = Len(wire) + 1
      BY <1>3, <1>5
    <3>4. QED
      BY <3>1, <3>2, <3>3
  <2>3. Base + Len(Box) + (Len(wire) + 1) = Len(sent) + 1
    <3>1. Base + Len(Box) + Len(wire) = Len(sent)
      BY <2>1
    <3>2. /\ Base \in Nat /\ Len(Box) \in Nat /\ Len(wire) \in Nat
          /\ Len(sent) \in Nat
      BY <1>3
    <3>3. QED
      BY <3>1, <3>2
  <2>4. Base' + Len(Box') + Len(wire') = Len(sent')
    BY <1>4, <1>5, <2>3
  <2>5. \A k \in DOMAIN wire' : wire'[k] = sent'[Base' + Len(Box') + k]
    BY <1>4, <2>2
  <2>6. QED
    BY <1>1, <1>4, <2>1, <2>4, <2>5 DEF Coming
<1>9. Before'
  BY <1>1 DEF Before, Unopened, Open, Trying
<1>10. QED
  BY <1>1, <1>2, <1>6, <1>7, <1>8, <1>9 DEF Line

-----------------------------------------------------------------------------
(* Every step keeps the line, and is a step of the pipe or none.           *)
LEMMA StepInLine ==
  ASSUME Inv, Inv', Line, [Next]_vars
  PROVE  Line' /\ [Pipe!Send \/ Pipe!Take]_<<sent, taken>>
<1> USE DEF Pipe!Send, Pipe!Take
<1>1. CASE NetconnNew \/ Connect \/ Close \/ \E c \in Conns : Connected(c)
  BY <1>1, OpeningKeeps DEF NetconnNew, Connect, Close, Connected, hostVars, outVars
<1>2. CASE Delayed \/ Completed \/ Take \/ Write
  BY <1>2, ClientStill, StillKeeps DEF Still
<1>3. CASE \/ ErrSignal \/ RecvCall \/ RecvEmpty \/ StartRecv
           \/ Ring \/ TaskExit \/ Spin \/ UNCHANGED vars
           \/ \E c \in Conns : WriteMore(c)
  BY <1>3, OthersStill, StillKeeps DEF Still
<1>4. ASSUME NEW c \in Conns, RecvTcp(c)
      PROVE  Line' /\ UNCHANGED <<sent, taken>>
  BY <1>4, RecvTcpInLine DEF RecvTcp, outVars
<1>5. CASE ErrPost \/ \E c \in Conns : RecvFin(c) \/ ErrTcp(c)
  BY <1>5, EndInLine DEF ErrPost, RecvFin, ErrTcp, hostVars, outVars
<1>6. CASE RecvFetch
  BY <1>6, FetchInLine DEF RecvFetch, hostVars, outVars
<1>7. CASE Handle
  BY <1>7, HandleInLine
<1>8. CASE RecvClosed \/ RecvError
  BY <1>8, LeaveInLine
<1>9. ASSUME NEW c \in Conns, HostSend(c)
      PROVE  Line' /\ Pipe!Send
  BY <1>9, SendInLine
<1>10. QED
  BY <1>1, <1>2, <1>3, <1>4, <1>5, <1>6, <1>7, <1>8, <1>9
  DEF Next, Client, Recv, ErrRest, Stack

(* The line holds in every reachable state.                                *)
LEMMA InLine == Spec => []Line
<1>1. Inv /\ Inv' /\ Line /\ [Next]_vars => Line'
  BY StepInLine
<1>2. QED
  BY <1>1, InitLine, Invariance, PTL DEF Spec

(* The command path implements the pipe (clientrecv, recv_tcp, err_tcp):   *)
(* for any sizes, and whether the connection is refused, reset or closed,  *)
(* the segments are acted upon one by one in the order sent.               *)
THEOREM PathImplementsPipe == Spec => ImplementsPipe
<1>1. Init => Pipe!Init
  BY DEF Init, Pipe!Init
<1>2. Inv /\ Inv' /\ Line /\ [Next]_vars
        => Line' /\ [Pipe!Send \/ Pipe!Take]_<<sent, taken>>
  BY StepInLine
<1>3. QED
  BY <1>1, <1>2, InitLine, Invariance, PTL DEF Spec, ImplementsPipe, Pipe!Spec

-----------------------------------------------------------------------------
(* What has been acted upon is the beginning of what was sent: a promise   *)
(* of the pipe.                                                            *)
Begins(u, z) == Len(u) <= Len(z) /\ \A i \in 1 .. Len(u) : u[i] = z[i]
InOrder ==
  sent \in Seq(Segments) /\ taken \in Seq(Segments) /\ Begins(taken, sent)

(* The pipe keeps the order.                                               *)
LEMMA PipeInOrder == Pipe!Spec => []InOrder
<1>1. Pipe!Init => InOrder
  BY DEF Pipe!Init, InOrder, Begins
<1>2. InOrder /\ [Pipe!Send \/ Pipe!Take]_<<sent, taken>> => InOrder'
  <2> SUFFICES ASSUME InOrder, Pipe!Send \/ Pipe!Take
               PROVE  InOrder'
    BY DEF InOrder, Begins
  <2>1. CASE Pipe!Send
    <3>1. PICK s \in Segments : sent' = Append(sent, s) /\ taken' = taken
      BY <2>1 DEF Pipe!Send
    <3>2. /\ sent' \in Seq(Segments) /\ Len(sent') = Len(sent) + 1
          /\ \A i \in 1 .. Len(sent) : sent'[i] = sent[i]
          /\ Len(sent) \in Nat /\ Len(taken) \in Nat
      BY <3>1 DEF InOrder
    <3>3. QED
      BY <3>1, <3>2 DEF InOrder, Begins
  <2>2. CASE Pipe!Take
    <3>1. /\ Len(taken) < Len(sent) /\ sent' = sent
          /\ taken' = Append(taken, sent[Len(taken) + 1])
      BY <2>2 DEF Pipe!Take
    <3>2. Len(sent) \in Nat /\ Len(taken) \in Nat /\ sent[Len(taken) + 1] \in Segments
      BY <3>1 DEF InOrder
    <3>3. /\ taken' \in Seq(Segments) /\ Len(taken') = Len(taken) + 1
          /\ \A i \in 1 .. Len(taken) : taken'[i] = taken[i]
          /\ taken'[Len(taken) + 1] = sent[Len(taken) + 1]
      BY <3>1, <3>2 DEF InOrder
    <3>4. QED
      BY <3>1, <3>2, <3>3 DEF InOrder, Begins
  <2>3. QED
    BY <2>1, <2>2
<1>3. QED
  BY <1>1, <1>2, PTL DEF Pipe!Spec

(* Each segment in its place: the places follow one another.               *)
LEMMA Longer ==
  ASSUME NEW S, NEW u \in Seq(S), NEW v \in Seq(S), NEW z \in Seq(S),
         Begins(u, z), Len(u) + Len(v) <= Len(z),
         \A i \in 1 .. Len(v) : v[i] = z[Len(u) + i]
  PROVE  u \o v \in Seq(S) /\ Len(u \o v) = Len(u) + Len(v) /\ Begins(u \o v, z)
<1>1. /\ u \o v \in Seq(S) /\ Len(u \o v) = Len(u) + Len(v)
      /\ Len(u) \in Nat /\ Len(v) \in Nat /\ Len(z) \in Nat
      /\ \A i \in 1 .. Len(u) + Len(v) :
           (u \o v)[i] = IF i <= Len(u) THEN u[i] ELSE v[i - Len(u)]
  OBVIOUS
<1>2. ASSUME NEW i \in 1 .. Len(u) + Len(v)
      PROVE  (u \o v)[i] = z[i]
  <2>1. CASE i <= Len(u)
    BY <1>1, <2>1 DEF Begins
  <2>2. CASE ~(i <= Len(u))
    <3>1. i - Len(u) \in 1 .. Len(v) /\ Len(u) + (i - Len(u)) = i
      BY <1>1, <2>2
    <3>2. v[i - Len(u)] = z[Len(u) + (i - Len(u))]
      BY <3>1
    <3>3. QED
      BY <1>1, <2>2, <3>1, <3>2
  <2>3. QED
    BY <2>1, <2>2
<1>3. QED
  BY <1>1, <1>2 DEF Begins

(* A beginning that is as long as the whole is the whole.                  *)
LEMMA Whole ==
  ASSUME NEW S, NEW u \in Seq(S), NEW z \in Seq(S), Begins(u, z), Len(u) = Len(z)
  PROVE  u = z
  BY DEF Begins

(* While the connection stands, what is acted upon, held, in the mailbox   *)
(* and on the wire is what the host has sent, for every size of mailbox    *)
(* and however many segments come (recv_tcp, clientrecv).                  *)
THEOREM NothingIsLost == Spec => []NothingLost
<1> DEFINE box == CmdsOf(nc[conn].recvmbox)
<1>1. Inv /\ Line /\ InOrder => NothingLost
  <2> SUFFICES ASSUME Inv, Line, InOrder, conn # Null, nc[conn].pcb = "established"
               PROVE  taken \o Held \o box \o wire = sent
    BY DEF NothingLost
  <2>1. /\ Box \in Seq(Items) /\ wire \in Seq(Segments)
        /\ Len(Box) \in Nat /\ Len(wire) \in Nat /\ Len(taken) \in Nat /\ Len(sent) \in Nat
        /\ Holding \in {0, 1} /\ item \in Items
        /\ sent \in Seq(Segments) /\ taken \in Seq(Segments) /\ Begins(taken, sent)
    BY PlaceTypes DEF Inv, TypeOK, InOrder
  <2>2. \A i \in Items : i.kind = "data" => i.cmds \in Segments
    BY DEF Items, Data, Closed, Error
  <2>3. /\ Held \in Seq(Segments) /\ Len(Held) = Holding
        /\ Holding = 1 => Held[1] = item.cmds
    BY <2>1, <2>2 DEF Held, Holding
  <2>4. /\ \A i \in DOMAIN Box : Box[i].kind = "data"
        /\ Base + Len(Box) + Len(wire) = Len(sent)
        /\ \A k \in DOMAIN wire : wire[k] = sent[Base + Len(Box) + k]
    BY DEF Line, Coming
  <2>5. \A i \in 1 .. Len(Box) : Box[i].cmds \in Segments /\ Box[i].cmds = sent[Base + i]
    BY <2>1, <2>2, <2>4 DEF Line, Posted
  <2>6. /\ box \in Seq(Segments) /\ Len(box) = Len(Box)
        /\ \A i \in 1 .. Len(box) : box[i] = sent[Base + i]
    <3>1. box = [i \in 1 .. Len(Box) |-> Box[i].cmds]
      BY <2>1 DEF CmdsOf, Box
    <3>2. QED
      BY <2>1, <2>5, <3>1
  <2>7. /\ \A i \in 1 .. Len(Held) : Held[i] = sent[Len(taken) + i]
        /\ Len(taken) + Len(Held) <= Len(sent)
    BY <2>1, <2>3 DEF Line, InHand, Base
  <2> HIDE DEF box
  <2>8. /\ taken \o Held \in Seq(Segments) /\ Len(taken \o Held) = Base
        /\ Begins(taken \o Held, sent)
    BY <2>1, <2>3, <2>7, Longer DEF Base
  <2>9. Base + Len(box) <= Len(sent)
    BY <2>1, <2>4, <2>6 DEF Base
  <2>10. /\ taken \o Held \o box \in Seq(Segments)
         /\ Len(taken \o Held \o box) = Base + Len(box)
         /\ Begins(taken \o Held \o box, sent)
    BY <2>1, <2>6, <2>8, <2>9, Longer
  <2>11. /\ \A k \in 1 .. Len(wire) : wire[k] = sent[Base + Len(box) + k]
         /\ Base + Len(box) + Len(wire) = Len(sent)
    BY <2>1, <2>4, <2>6
  <2> DEFINE front == taken \o Held \o box
  <2> HIDE DEF front
  <2>12. /\ front \o wire \in Seq(Segments) /\ Len(front \o wire) = Len(sent)
         /\ Begins(front \o wire, sent)
    <3>1. /\ front \in Seq(Segments) /\ Len(front) = Base + Len(box)
          /\ Begins(front, sent)
      BY <2>10 DEF front
    <3>2. Len(front) + Len(wire) <= Len(sent)
      BY <2>1, <2>11, <3>1
    <3>3. \A k \in 1 .. Len(wire) : wire[k] = sent[Len(front) + k]
      BY <2>11, <3>1
    <3>4. /\ front \o wire \in Seq(Segments) /\ Len(front \o wire) = Len(front) + Len(wire)
          /\ Begins(front \o wire, sent)
      BY <2>1, <3>1, <3>2, <3>3, Longer
    <3>5. QED
      BY <2>11, <3>1, <3>4
  <2>13. front \o wire = sent
    BY <2>1, <2>12, Whole
  <2>14. QED
    BY <2>13 DEF front
<1>2. QED
  BY <1>1, InLine, Invariance, PathImplementsPipe, PipeInOrder, PTL DEF ImplementsPipe

-----------------------------------------------------------------------------
(* The output is the parity of the segments acted upon that begin with the *)
(* command "LED".                                                          *)
Toggles == {k \in 1 .. Len(taken) : taken[k][1] = "LED"}
LedToggled == IsFiniteSet(Toggles) /\ led = (Cardinality(Toggles) % 2 = 1)

(* Nothing has been acted upon and the output is off.                      *)
LEMMA InitToggled == Init => LedToggled
<1> SUFFICES ASSUME Init
             PROVE  LedToggled
  OBVIOUS
<1>1. Toggles = {}
  BY DEF Init, Toggles
<1>2. IsFiniteSet(Toggles) /\ Cardinality(Toggles) = 0
  BY <1>1, FS_EmptySet
<1>3. ~(0 % 2 = 1) /\ led = FALSE
  BY DEF Init
<1>4. QED
  BY <1>2, <1>3 DEF LedToggled

(* A segment acted upon toggles the output if it begins with "LED".        *)
LEMMA HandleToggles ==
  ASSUME TypeOK, LedToggled, Handle
  PROVE  LedToggled'
<1>1. /\ taken \in Seq(Segments) /\ item.cmds \in Segments /\ led \in BOOLEAN
      /\ taken' = Append(taken, item.cmds)
      /\ led' = IF item.cmds[1] = "LED" THEN ~led ELSE led
  BY DEF Handle, TypeOK, Items, Data, Closed, Error
<1>2. /\ Len(taken) \in Nat /\ Len(taken') = Len(taken) + 1
      /\ \A k \in 1 .. Len(taken) : taken'[k] = taken[k]
      /\ taken'[Len(taken) + 1] = item.cmds
  BY <1>1
<1>3. Toggles' = IF item.cmds[1] = "LED" THEN Toggles \cup {Len(taken) + 1} ELSE Toggles
  BY <1>2 DEF Toggles
<1>4. Len(taken) + 1 \notin Toggles /\ Cardinality(Toggles) \in Nat
  BY <1>2, FS_CardinalityType DEF Toggles, LedToggled
<1>5. CASE item.cmds[1] = "LED"
  <2>1. IsFiniteSet(Toggles') /\ Cardinality(Toggles') = Cardinality(Toggles) + 1
    BY <1>3, <1>4, <1>5, FS_AddElement DEF LedToggled
  <2>2. led' = ~led
    BY <1>1, <1>5
  <2>3. \A n \in Nat : ((n + 1) % 2 = 1) = ~(n % 2 = 1)
    OBVIOUS
  <2>4. QED
    BY <1>4, <2>1, <2>2, <2>3 DEF LedToggled
<1>6. CASE item.cmds[1] # "LED"
  BY <1>1, <1>3, <1>6 DEF LedToggled
<1>7. QED
  BY <1>5, <1>6

(* Whatever is sent together, the output is toggled once for each segment  *)
(* acted upon that begins with "LED", and by nothing else (clientrecv).    *)
THEOREM LedIsToggled == Spec => []LedToggled
<1>1. TypeOK /\ LedToggled /\ [Next]_vars => LedToggled'
  <2> SUFFICES ASSUME TypeOK, LedToggled, [Next]_vars
               PROVE  LedToggled'
    OBVIOUS
  <2>1. CASE Handle
    BY <2>1, HandleToggles
  <2>2. ~Handle => UNCHANGED <<led, taken>>
    <3> USE DEF outVars
    <3> SUFFICES ASSUME ~Handle
                 PROVE  UNCHANGED <<led, taken>>
      OBVIOUS
    <3>1. CASE NetconnNew \/ Delayed \/ Connect \/ Completed \/ Close \/ Take \/ Write
      BY <3>1 DEF NetconnNew, Delayed, Connect, Completed, Close, Take, Write
    <3>2. CASE StartRecv \/ ErrPost \/ ErrSignal \/ Ring \/ TaskExit \/ Spin
               \/ UNCHANGED vars
      BY <3>2 DEF StartRecv, ErrPost, ErrSignal, Ring, TaskExit, Spin, vars
    <3>3. CASE RecvCall \/ RecvFetch \/ RecvEmpty \/ RecvClosed \/ RecvError
      BY <3>3 DEF RecvCall, RecvFetch, RecvEmpty, RecvClosed, RecvError
    <3>4. ASSUME NEW c \in Conns, Stack(c) \/ HostSend(c)
          PROVE  UNCHANGED <<led, taken>>
      BY <3>4 DEF Stack, Connected, RecvTcp, RecvFin, WriteMore, ErrTcp, HostSend
    <3>5. QED
      BY <3>1, <3>2, <3>3, <3>4 DEF Next, Client, Recv, ErrRest
  <2>3. UNCHANGED <<led, taken>> => LedToggled'
    BY DEF LedToggled, Toggles
  <2>4. QED
    BY <2>1, <2>2, <2>3
<1>2. Inv => TypeOK
  BY DEF Inv
<1>3. QED
  BY <1>1, <1>2, InitToggled, Invariance, PTL DEF Spec

(* If TCP puts no two commands into one segment, the host's commands are   *)
(* obeyed: when all have been acted upon, the output has been toggled once *)
(* for each "LED" (clientrecv).                                            *)
THEOREM CommandsAreObeyed ==
  ASSUME MaxBatch = 1
  PROVE  Spec => []CommandsObeyed
<1>1. InOrder /\ LedToggled => CommandsObeyed
  <2> SUFFICES ASSUME InOrder, LedToggled, Len(taken) = Len(sent)
               PROVE  led = (Cardinality(LedCommands) % 2 = 1)
    BY DEF CommandsObeyed
  <2>1. taken = sent /\ sent \in Seq(Segments)
    BY Whole DEF InOrder
  <2>2. \A s \in Segments : Len(s) = 1
    <3>1. Segments = [1 .. 1 -> Commands]
      BY DEF Segments
    <3>2. QED
      BY <3>1
  <2>3. LedCommands = Toggles \X {1}
    <3>1. \A k \in 1 .. Len(sent) : Len(sent[k]) = 1
      BY <2>1, <2>2
    <3>2. 1 .. MaxBatch = {1}
      OBVIOUS
    <3>3. QED
      BY <2>1, <3>1, <3>2 DEF LedCommands, Toggles
  <2>4. IsFiniteSet({1}) /\ Cardinality({1}) = 1
    BY FS_AddElement, FS_EmptySet
  <2>5. Cardinality(LedCommands) = Cardinality(Toggles) * 1 /\ Cardinality(Toggles) \in Nat
    BY <2>3, <2>4, FS_Product, FS_CardinalityType DEF LedToggled
  <2>6. QED
    BY <2>5 DEF LedToggled
<1>2. QED
  BY <1>1, LedIsToggled, PathImplementsPipe, PipeInOrder, PTL DEF ImplementsPipe
=============================================================================
