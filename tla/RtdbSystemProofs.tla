-------------------------- MODULE RtdbSystemProofs --------------------------
(***************************************************************************)
(* Theorems about RtdbSystem for any number of clients and handlers, any   *)
(* sizes of the packets, any bounds on pieces and descriptors, and any     *)
(* choice of the flaky clients.                                            *)
(***************************************************************************)
EXTENDS RtdbSystem, TLAPS

-----------------------------------------------------------------------------
(***************************************************************************)
(* Packets, streams and buffers                                            *)
(***************************************************************************)
\* A buffer has room for a header and for every body.
LEMMA CapBounds ==
  /\ Cap \in Nat /\ HLen \in 0..Cap
  /\ \A m \in Messages : BLen[m] \in 0..Cap
BY FramesAssumption DEF Cap, Messages

\* The two parts of a packet, and the packet.
LEMMA PartTypes ==
  ASSUME NEW m \in Messages
  PROVE  /\ HeadCells(m) \in Seq(Cells) /\ Len(HeadCells(m)) = HLen
         /\ BodyCells(m) \in Seq(Cells) /\ Len(BodyCells(m)) = BLen[m]
<1>1. HLen \in Nat /\ BLen[m] \in Nat
  BY FramesAssumption
<1>2. HeadCells(m) \in [1..HLen -> Cells]
  <2>1. \A i \in 1..HLen : <<m, "head", i>> \in Cells /\ HMark \in Cells
    BY DEF Cells
  <2> QED
    BY <2>1 DEF HeadCells
<1>3. BodyCells(m) \in [1..BLen[m] -> Cells]
  <2>1. \A i \in 1..BLen[m] : <<m, "body", i>> \in Cells /\ BMark \in Cells
    BY DEF Cells
  <2> QED
    BY <2>1 DEF BodyCells
<1> QED
  BY <1>1, <1>2, <1>3

\* A packet is a sequence of cells.
LEMMA FrameType ==
  ASSUME NEW m \in Messages
  PROVE  Frame(m) \in Seq(Cells)
BY PartTypes DEF Frame

LEMMA FrameLength ==
  ASSUME NEW m \in Messages
  PROVE  /\ Len(Frame(m)) = HLen + BLen[m]
         /\ \A i \in 1..HLen : Frame(m)[i] = HeadCells(m)[i]
         /\ \A i \in 1..BLen[m] : Frame(m)[HLen + i] = BodyCells(m)[i]
<1>1. HLen \in Nat /\ BLen[m] \in Nat
  BY FramesAssumption
<1> QED
  BY <1>1, PartTypes DEF Frame

\* The first k cells of a stream and the rest of it are streams.
LEMMA SplitType ==
  ASSUME NEW s \in Seq(Cells), NEW k \in Nat, k <= Len(s)
  PROVE  /\ Taken(s, k) \in Seq(Cells) /\ Len(Taken(s, k)) = k
         /\ Rest(s, k) \in Seq(Cells)
BY DEF Taken, Rest

\* Reading and resizing leave a buffer a buffer.
LEMMA StoredType ==
  ASSUME NEW buf \in [1..Cap -> Cells], NEW off \in Nat, NEW s \in Seq(Cells)
  PROVE  Stored(buf, off, s) \in [1..Cap -> Cells]
<1>1. ASSUME NEW i \in 1..Cap, i - off \in 1..Len(s)
      PROVE  s[i - off] \in Cells
  BY <1>1
<1> QED BY <1>1 DEF Stored

LEMMA ResizedType ==
  ASSUME NEW buf \in [1..Cap -> Cells], NEW n \in Nat
  PROVE  Resized(buf, n) \in [1..Cap -> Cells]
BY DEF Resized, Cells

USE DEF Live

-----------------------------------------------------------------------------
(***************************************************************************)
(* Types                                                                   *)
(***************************************************************************)
LEMMA OpTypes ==
  ASSUME NEW h \in Handlers
  PROVE  /\ AcceptOp(h) \in Ops /\ HeadRead(h) \in Ops
         /\ \A ok \in BOOLEAN : WriteOp(h, ok) \in Ops
         /\ \A m \in Messages : BodyRead(h, m) \in Ops
BY CapBounds DEF AcceptOp, HeadRead, WriteOp, BodyRead, Op, Ops

\* What a completed operation leaves in progress is a set of operations.
LEMMA CompletedType ==
  ASSUME pending \subseteq Ops, NEW p, NEW new \in SUBSET Ops, Completed(p, new)
  PROVE  pending' \subseteq Ops
BY DEF Completed

LEMMA InitType == Init => TypeOK
<1> SUFFICES ASSUME Init PROVE TypeOK
  OBVIOUS
<1>1. EmptyBuffer \in [1..Cap -> Cells]
  BY DEF EmptyBuffer, Cells
<1>2. 0 \in 0..Cap /\ <<>> \in Seq(Cells)
  BY CapBounds
<1>3. TcpTypeOK
  BY <1>2 DEF Init, TcpInit, TcpTypeOK
<1>4. ServerTypeOK
  BY <1>1, <1>2 DEF Init, ServerInit, ServerTypeOK
<1>5. ClientTypeOK
  BY <1>1, <1>2 DEF Init, ClientInit, ClientTypeOK
<1> QED BY <1>3, <1>4, <1>5 DEF TypeOK

\* session_handler::close keeps the types, whether it throws or not.
LEMMA CloseType ==
  ASSUME TypeOK, NEW p \in pending, peer[p.h] \in Clients, Close(p)
  PROVE  /\ run' \in {"init", "running", "returned", "failed", "exited", "aborted"}
         /\ m_set_handlers' \subseteq Handlers
         /\ hstate' \in [Handlers -> {"none", "accepting", "live", "freed"}]
         /\ pending' \subseteq Ops
         /\ sclosed' \in [Clients -> BOOLEAN]
BY DEF TypeOK, TcpTypeOK, ServerTypeOK, Close, Thrown, Completed, Unregistered

\* What the whole part read by p leaves behind is a buffer and a stream.
LEMMA ReadType ==
  ASSUME TypeOK, NEW p \in pending, peer[p.h] \in Clients,
         NEW k \in Nat, k <= Len(c2s[peer[p.h]]), Consumed(p, k)
  PROVE  /\ Received(p, k) \in [1..Cap -> Cells]
         /\ c2s' \in [Clients -> Seq(Cells)]
<1> DEFINE c == peer[p.h]
<1>1. p \in Ops /\ p.h \in Handlers /\ p.off \in Nat
  BY CapBounds DEF TypeOK, ServerTypeOK, Ops
<1>2. c2s[c] \in Seq(Cells) /\ m_recv_buffer[p.h] \in [1..Cap -> Cells]
  BY <1>1 DEF TypeOK, ServerTypeOK, TcpTypeOK
<1>3. Taken(c2s[c], k) \in Seq(Cells) /\ Rest(c2s[c], k) \in Seq(Cells)
  BY <1>2, SplitType
<1>4. Received(p, k) \in [1..Cap -> Cells]
  BY <1>1, <1>2, <1>3, StoredType DEF Received
<1>5. c2s' \in [Clients -> Seq(Cells)]
  BY <1>3 DEF Consumed, TypeOK, TcpTypeOK
<1> QED BY <1>4, <1>5

-----------------------------------------------------------------------------
(***************************************************************************)
(* The inductive invariant.  The type of a step on a session needs that    *)
(* the session has a peer; that a handler has one operation needs that no  *)
(* operation is in progress on a handler nobody has allocated; and that an *)
(* accept is armed needs that a handler waiting in an accept has no peer.  *)
(***************************************************************************)
PeerInv ==
  /\ \A h \in Handlers : hstate[h] \in {"none", "accepting"} => peer[h] = NoClient
  /\ \A h \in Handlers : Live(h) => peer[h] \in Clients
  /\ run = "init" => pending = {} /\ \A h \in Handlers : hstate[h] = "none"

IInv == TypeOK /\ OneOperation /\ Registry /\ PeerInv /\ AcceptArmed

LEMMA InitIInv == Init => IInv
<1> SUFFICES ASSUME Init PROVE IInv
  OBVIOUS
<1>1. TypeOK
  BY InitType
<1>2. OneOperation /\ Registry /\ PeerInv /\ AcceptArmed
  BY DEF Init, ServerInit, OneOperation, Registry, PeerInv, AcceptArmed
<1> QED BY <1>1, <1>2 DEF IInv

\* The handler of an operation that is not an accept is a session with a peer.
LEMMA SessionPeer ==
  ASSUME IInv, NEW p \in pending
  PROVE  /\ p \in Ops /\ p.h \in Handlers
         /\ p.kind # "accept" => hstate[p.h] = "live" /\ peer[p.h] \in Clients
BY DEF IInv, TypeOK, ServerTypeOK, OneOperation, PeerInv, Ops

-----------------------------------------------------------------------------
(***************************************************************************)
(* Every step keeps the types.                                             *)
(***************************************************************************)
\* A completion keeps the types.
LEMMA OpStepType ==
  ASSUME IInv, NEW p \in pending, OpStep(p), UNCHANGED clientVars
  PROVE  TypeOK'
<1>t. TypeOK /\ p \in Ops /\ p.h \in Handlers /\ ClientTypeOK'
  BY SessionPeer DEF IInv, TypeOK, ClientTypeOK, clientVars
<1>s. p.kind # "accept" => peer[p.h] \in Clients
  BY SessionPeer
<1>1. ASSUME NEW n \in Handlers, NEW c \in Clients, HandleAccept(p, n, c)
      PROVE  TypeOK'
  <2>1. Resized(m_recv_buffer[p.h], HLen) \in [1..Cap -> Cells]
    <3>1. m_recv_buffer[p.h] \in [1..Cap -> Cells] /\ HLen \in Nat
      BY <1>t, FramesAssumption DEF TypeOK, ServerTypeOK
    <3> QED BY <3>1, ResizedType
  <2>2. pending' \subseteq Ops
    BY <1>1, <1>t, OpTypes, CompletedType DEF HandleAccept, NextAccept, TypeOK, ServerTypeOK
  <2>3. ServerTypeOK'
    BY <1>1, <1>t, <2>1, <2>2, CapBounds DEF HandleAccept, TypeOK, ServerTypeOK
  <2> QED BY <1>1, <1>t, <2>3 DEF HandleAccept, TypeOK, TcpTypeOK, tcpVars
<1>2. ASSUME NEW c \in Clients, HandleAcceptThrows(p, c)
      PROVE  TypeOK'
  BY <1>2, <1>t DEF HandleAcceptThrows, Thrown, Completed, TypeOK, TcpTypeOK, ServerTypeOK, tcpVars
<1>3. CASE HandleAcceptError(p)
  BY <1>3, <1>t DEF HandleAcceptError, Unregistered, Completed, TypeOK, TcpTypeOK, ServerTypeOK, tcpVars
<1>4. ASSUME NEW k \in 1..Cap, HandleReadPartial(p, k)
      PROVE  TypeOK'
  <2>1. p.kind = "read" /\ peer[p.h] \in Clients
    BY <1>4, <1>s DEF HandleReadPartial
  <2>2. /\ Received(p, k) \in [1..Cap -> Cells]
        /\ c2s' \in [Clients -> Seq(Cells)]
    BY <1>4, <1>t, <2>1, ReadType DEF HandleReadPartial
  <2>3. Op(p.h, "read", NextOffset(p, k), Remaining(p, k), p.piece + 1, p.part) \in Ops
    BY <1>4, <1>t, CapBounds DEF HandleReadPartial, Op, Ops, NextOffset, Remaining
  <2>4. pending' \subseteq Ops
    BY <1>4, <1>t, <2>3, CompletedType DEF HandleReadPartial, TypeOK, ServerTypeOK
  <2>5. ServerTypeOK'
    BY <1>4, <1>t, <2>2, <2>4 DEF HandleReadPartial, TypeOK, ServerTypeOK
  <2> QED BY <1>4, <1>t, <2>2, <2>5 DEF HandleReadPartial, TypeOK, TcpTypeOK
<1>r. ASSUME FullRead(p), Consumed(p, p.want)
      PROVE  /\ Received(p, p.want) \in [1..Cap -> Cells]
             /\ c2s' \in [Clients -> Seq(Cells)]
             /\ peer[p.h] \in Clients
  <2>1. p.want \in Nat /\ peer[p.h] \in Clients
    BY <1>r, <1>t, <1>s, CapBounds DEF FullRead, Ops
  <2> QED BY <1>r, <1>t, <2>1, ReadType DEF FullRead
<1>5. ASSUME NEW m \in Messages, HandlePacketHeader(p, m)
      PROVE  TypeOK'
  <2>1. /\ Received(p, p.want) \in [1..Cap -> Cells]
        /\ c2s' \in [Clients -> Seq(Cells)]
    BY <1>5, <1>r DEF HandlePacketHeader
  <2>2. Resized(Received(p, p.want), BLen[m]) \in [1..Cap -> Cells]
    BY <2>1, CapBounds, ResizedType
  <2>3. pending' \subseteq Ops
    BY <1>5, <1>t, OpTypes, CompletedType DEF HandlePacketHeader, TypeOK, ServerTypeOK
  <2>4. ServerTypeOK'
    BY <1>5, <1>t, <2>2, <2>3, CapBounds DEF HandlePacketHeader, TypeOK, ServerTypeOK
  <2> QED BY <1>5, <1>t, <2>1, <2>4 DEF HandlePacketHeader, TypeOK, TcpTypeOK
<1>6. CASE MsgConnect(p)
  <2>1. /\ Received(p, p.want) \in [1..Cap -> Cells]
        /\ c2s' \in [Clients -> Seq(Cells)]
        /\ peer[p.h] \in Clients
    BY <1>6, <1>r DEF MsgConnect
  <2>2. pending' \subseteq Ops
    <3>1. PICK ok \in BOOLEAN : Completed(p, Answering(p.h, ok))
      BY <1>6, Zenon DEF MsgConnect
    <3>2. Answering(p.h, ok) \subseteq Ops
      BY <1>t, OpTypes DEF Answering
    <3> QED BY <1>t, <3>1, <3>2, CompletedType DEF TypeOK, ServerTypeOK
  <2>3. s2c' \in [Clients -> Seq(Cells)]
    <3>1. Frame("CONNECT_RESP") \in Seq(Cells)
      BY FrameType DEF Messages
    <3> QED BY <1>6, <1>t, <2>1, <3>1 DEF MsgConnect, TypeOK, TcpTypeOK
  <2>4. ServerTypeOK'
    BY <1>6, <1>t, <2>1, <2>2 DEF MsgConnect, TypeOK, ServerTypeOK
  <2> QED BY <1>6, <1>t, <2>1, <2>3, <2>4 DEF MsgConnect, TypeOK, TcpTypeOK
<1>7. CASE MsgDisconnect(p)
  <2>1. /\ Received(p, p.want) \in [1..Cap -> Cells]
        /\ c2s' \in [Clients -> Seq(Cells)]
        /\ peer[p.h] \in Clients
    BY <1>7, <1>r DEF MsgDisconnect
  <2>2. Close(p)
    BY <1>7 DEF MsgDisconnect
  <2>3. ServerTypeOK'
    BY <1>7, <1>t, <2>1, <2>2, CloseType DEF MsgDisconnect, TypeOK, ServerTypeOK
  <2> QED BY <1>7, <1>t, <2>1, <2>2, <2>3, CloseType DEF MsgDisconnect, TypeOK, TcpTypeOK
<1>8. ASSUME FullRead(p), Abandoned(p, Received(p, p.want)),
             m_packet_header' \in [Handlers -> Messages \cup {"none", "garbage"}]
      PROVE  TypeOK'
  <2>1. /\ Received(p, p.want) \in [1..Cap -> Cells]
        /\ c2s' \in [Clients -> Seq(Cells)]
    BY <1>8, <1>r DEF Abandoned
  <2>2. ServerTypeOK'
    BY <1>8, <1>t, <2>1 DEF Abandoned, Completed, TypeOK, ServerTypeOK
  <2> QED BY <1>8, <1>t, <2>1, <2>2 DEF Abandoned, TypeOK, TcpTypeOK
<1>9. CASE UnknownMark(p)
  BY <1>8, <1>9, <1>t DEF UnknownMark, TypeOK, ServerTypeOK
<1>10. CASE BadHeader(p)
  BY <1>8, <1>10, <1>t DEF BadHeader, TypeOK, ServerTypeOK
<1>11. CASE BadBody(p)
  BY <1>8, <1>11, <1>t DEF BadBody, TypeOK, ServerTypeOK
<1>12. CASE BodyUnderflow(p)
  <2>1. c2s' \in [Clients -> Seq(Cells)]
    BY <1>12, <1>r DEF BodyUnderflow
  <2>2. ServerTypeOK'
    BY <1>12, <1>t DEF BodyUnderflow, SocketsClosed, sessionVars, TypeOK, ServerTypeOK
  <2> QED BY <1>12, <1>t, <2>1, <2>2 DEF BodyUnderflow, SocketsClosed, TypeOK, TcpTypeOK
<1>13. CASE HandleReadError(p)
  <2>1. Close(p) /\ peer[p.h] \in Clients
    BY <1>13, <1>s DEF HandleReadError
  <2> QED BY <1>13, <1>t, <2>1, CloseType DEF HandleReadError, TypeOK, TcpTypeOK, ServerTypeOK
<1>14. CASE HandleWrite(p)
  <2>1. pending' \subseteq Ops
    BY <1>14, <1>t, OpTypes, CompletedType DEF HandleWrite, TypeOK, ServerTypeOK
  <2> QED BY <1>14, <1>t, <2>1
        DEF HandleWrite, sessionVars, tcpVars, TypeOK, TcpTypeOK, ServerTypeOK
<1>15. CASE HandleWriteError(p)
  <2>1. Close(p) /\ peer[p.h] \in Clients
    BY <1>15, <1>s DEF HandleWriteError
  <2> QED BY <1>15, <1>t, <2>1, CloseType DEF HandleWriteError, TypeOK, TcpTypeOK, ServerTypeOK
<1> QED BY <1>1, <1>2, <1>3, <1>4, <1>5, <1>6, <1>7, <1>9, <1>10, <1>11, <1>12,
           <1>13, <1>14, <1>15 DEF OpStep

\* The thread's own steps and the stop keep the types.
LEMMA ThreadStepType ==
  ASSUME TypeOK, ThreadStep \/ Stop, UNCHANGED clientVars
  PROVE  TypeOK'
<1>c. ClientTypeOK'
  BY DEF TypeOK, ClientTypeOK, clientVars
<1>1. ASSUME NEW n \in Handlers, AcceptorStart(n)
      PROVE  TypeOK'
  <2>1. NextAccept(n) \subseteq Ops
    BY OpTypes DEF NextAccept
  <2> QED BY <1>1, <1>c, <2>1
        DEF AcceptorStart, TypeOK, TcpTypeOK, ServerTypeOK, tcpVars
<1>2. CASE RunReturns
  BY <1>2, <1>c DEF RunReturns, TypeOK, TcpTypeOK, ServerTypeOK, tcpVars, sessionVars
<1>3. CASE ServerExit
  BY <1>3, <1>c DEF ServerExit, SocketsClosed, TypeOK, TcpTypeOK, ServerTypeOK, sessionVars
<1>4. CASE Stop
  BY <1>4, <1>c DEF Stop, TypeOK, TcpTypeOK, ServerTypeOK, tcpVars, sessionVars
<1> QED BY <1>1, <1>2, <1>3, <1>4 DEF ThreadStep

\* Writing a packet, or the first k bytes of one, keeps the types of the streams.
LEMMA WrittenType ==
  ASSUME TypeOK, NEW c \in Clients, NEW m \in Messages,
         NEW k \in Nat, k <= HLen + BLen[m], Written(c, m, k)
  PROVE  /\ link' \in [Clients -> {"none", "up", "fin", "reset"}]
         /\ c2s' \in [Clients -> Seq(Cells)]
<1>1. Frame(m) \in Seq(Cells) /\ Len(Frame(m)) = HLen + BLen[m]
  BY FrameType, FramesAssumption DEF Frame, HeadCells, BodyCells
<1>2. Taken(Frame(m), k) \in Seq(Cells)
  BY <1>1, SplitType
<1>3. c2s[c] \o Taken(Frame(m), k) \in Seq(Cells)
  BY <1>2 DEF TypeOK, TcpTypeOK
<1> QED BY <1>3 DEF Written, TypeOK, TcpTypeOK

\* Reading k bytes of the answer keeps the types of the buffer and the stream.
LEMMA ReadSomeType ==
  ASSUME TypeOK, NEW c \in Clients, NEW k \in Nat, ReadSome(c, k)
  PROVE  /\ ReadInto(c, k) \in [1..Cap -> Cells]
         /\ TcpTypeOK'
<1>1. s2c[c] \in Seq(Cells) /\ cbuf[c] \in [1..Cap -> Cells] /\ k <= Len(s2c[c])
  BY DEF TypeOK, TcpTypeOK, ClientTypeOK, ReadSome
<1>2. Taken(s2c[c], k) \in Seq(Cells) /\ Rest(s2c[c], k) \in Seq(Cells)
  BY <1>1, SplitType
<1>3. ReadInto(c, k) \in [1..Cap -> Cells]
  BY <1>1, <1>2, StoredType DEF ReadInto
<1> QED BY <1>2, <1>3 DEF ReadSome, TypeOK, TcpTypeOK

\* The steps of a client keep the types.
LEMMA ClientStepType ==
  ASSUME TypeOK, NEW c \in Clients, ClientStep(c, Listening) \/ Killed(c),
         UNCHANGED serverVars
  PROVE  TypeOK'
<1>s. ServerTypeOK'
  BY DEF TypeOK, ServerTypeOK, serverVars
<1>e. EmptyBuffer \in [1..Cap -> Cells]
  BY DEF EmptyBuffer, Cells
<1>m. /\ "CONNECT" \in Messages /\ "CONNECT_RESP" \in Messages /\ "DISCONNECT" \in Messages
      /\ HLen \in Nat /\ \A m \in Messages : BLen[m] \in Nat
  BY FramesAssumption DEF Messages
<1>1. CASE Connect(c, Listening)
  BY <1>1, <1>s DEF Connect, Returned, TypeOK, TcpTypeOK, ClientTypeOK
<1>2. CASE SendConnect(c)
  <2>1. TcpTypeOK'
    BY <1>2, <1>m, WrittenType DEF SendConnect, TypeOK, TcpTypeOK
  <2>2. ClientTypeOK'
    BY <1>2, <1>e, CapBounds DEF SendConnect, Awaits, TypeOK, ClientTypeOK
  <2> QED BY <1>s, <2>1, <2>2 DEF TypeOK
<1>3. CASE SendConnectFails(c)
  <2>1. link' \in [Clients -> {"none", "up", "fin", "reset"}] /\ c2s' \in [Clients -> Seq(Cells)]
    <3>1. CASE UNCHANGED <<link, c2s>>
      BY <3>1 DEF TypeOK, TcpTypeOK
    <3>2. ASSUME NEW k \in 0..(HLen + BLen["CONNECT"] - 1), Written(c, "CONNECT", k)
          PROVE  link' \in [Clients -> {"none", "up", "fin", "reset"}]
                   /\ c2s' \in [Clients -> Seq(Cells)]
      BY <3>2, <1>m, WrittenType
    <3> QED BY <1>3, <3>1, <3>2 DEF SendConnectFails
  <2> QED BY <1>3, <1>s, <2>1 DEF SendConnectFails, Returned, TypeOK, TcpTypeOK, ClientTypeOK
<1>4. ASSUME NEW k \in 1..Cap, RecvPiece(c, k)
      PROVE  TypeOK'
  <2>1. ReadInto(c, k) \in [1..Cap -> Cells] /\ TcpTypeOK'
    BY <1>4, CapBounds, ReadSomeType DEF RecvPiece
  <2>2. next[c] - k \in 0..Cap /\ cpiece[c] + 1 \in Nat
    BY <1>4, CapBounds DEF RecvPiece, TypeOK, ClientTypeOK
  <2>3. ClientTypeOK'
    BY <1>4, <2>1, <2>2 DEF RecvPiece, TypeOK, ClientTypeOK
  <2> QED BY <1>s, <2>1, <2>3 DEF TypeOK
<1>5. ASSUME ReadSome(c, next[c])
      PROVE  TcpTypeOK'
  BY <1>5, CapBounds, ReadSomeType DEF TypeOK, ClientTypeOK
<1>6. CASE RecvHeader(c)
  <2>1. ClientTypeOK'
    <3>1. BLen["CONNECT_RESP"] \in 0..Cap
      BY <1>m, CapBounds
    <3>2. CASE Awaits(c, "body", BLen["CONNECT_RESP"]) /\ UNCHANGED ret
      BY <1>e, <3>1, <3>2 DEF Awaits, TypeOK, ClientTypeOK
    <3>3. CASE Returned(c, "decode", "exit") /\ UNCHANGED <<cbuf, next, cpiece>>
      BY <3>3 DEF Returned, TypeOK, ClientTypeOK
    <3> QED BY <1>6, <3>2, <3>3 DEF RecvHeader
  <2> QED BY <1>5, <1>6, <1>s, <2>1 DEF RecvHeader, TypeOK
<1>7. CASE RecvBody(c)
  <2>1. ClientTypeOK'
    BY <1>7 DEF RecvBody, Returned, TypeOK, ClientTypeOK
  <2> QED BY <1>5, <1>7, <1>s, <2>1 DEF RecvBody, TypeOK
<1>8. CASE RecvThrows(c)
  BY <1>8, <1>s DEF RecvThrows, Returned, ClosedLink, TypeOK, TcpTypeOK, ClientTypeOK
<1>9. CASE Disconnect(c)
  <2>1. link' \in [Clients -> {"none", "up", "fin", "reset"}] /\ c2s' \in [Clients -> Seq(Cells)]
    BY <1>9, <1>m, WrittenType, SMTT(30) DEF Disconnect, TypeOK, TcpTypeOK
  <2> QED BY <1>9, <1>s, <2>1 DEF Disconnect, TypeOK, TcpTypeOK, ClientTypeOK
<1>10. CASE Exit(c)
  BY <1>10, <1>s DEF Exit, ClosedLink, TypeOK, TcpTypeOK, ClientTypeOK
<1>11. CASE Killed(c)
  BY <1>11, <1>s DEF Killed, Returned, ClosedLink, TypeOK, TcpTypeOK, ClientTypeOK
<1> QED BY <1>1, <1>2, <1>3, <1>4, <1>6, <1>7, <1>8, <1>9, <1>10, <1>11 DEF ClientStep

\* A reset keeps the types.
LEMMA LinkStepType ==
  ASSUME TypeOK, NEW c \in Clients, PeerReset(c) \/ LinkLost(c),
         UNCHANGED <<serverVars, clientVars>>
  PROVE  TypeOK'
<1>1. <<>> \in Seq(Cells)
  OBVIOUS
<1>2. TcpTypeOK'
  BY <1>1 DEF PeerReset, LinkLost, TypeOK, TcpTypeOK
<1>3. ServerTypeOK' /\ ClientTypeOK'
  BY DEF TypeOK, ServerTypeOK, ClientTypeOK, serverVars, clientVars
<1> QED BY <1>2, <1>3 DEF TypeOK

LEMMA NextType == IInv /\ [Next]_vars => TypeOK'
<1> SUFFICES ASSUME IInv, [Next]_vars PROVE TypeOK'
  OBVIOUS
<1>t. TypeOK
  BY DEF IInv
<1>1. CASE ServerStep /\ UNCHANGED clientVars
  BY <1>1, <1>t, OpStepType, ThreadStepType DEF ServerStep, HandlerStep
<1>2. ASSUME NEW c \in Clients, ClientStep(c, Listening) \/ Killed(c), UNCHANGED serverVars
      PROVE  TypeOK'
  BY <1>2, <1>t, ClientStepType
<1>3. ASSUME NEW c \in Clients, PeerReset(c) \/ LinkLost(c), UNCHANGED <<serverVars, clientVars>>
      PROVE  TypeOK'
  BY <1>3, <1>t, LinkStepType
<1>4. CASE UNCHANGED vars
  BY <1>4, <1>t DEF vars, tcpVars, serverVars, clientVars,
                    TypeOK, TcpTypeOK, ServerTypeOK, ClientTypeOK
<1> QED BY <1>1, <1>2, <1>3, <1>4 DEF Next

-----------------------------------------------------------------------------
(***************************************************************************)
(* Every step keeps the relation between operations, handlers and registry.*)
(***************************************************************************)
StructInv == OneOperation /\ Registry /\ PeerInv /\ AcceptArmed

\* A completion that goes on with at most one operation of the same session.
LEMMA ContinuesStruct ==
  ASSUME IInv, NEW p \in pending, p.kind # "accept",
         NEW new, Completed(p, new),
         \A q \in new : q.h = p.h /\ q.kind # "accept",
         \A q, r \in new : q = r,
         UNCHANGED <<run, m_set_handlers, hstate, peer>>
  PROVE  StructInv'
<1>1. hstate[p.h] = "live" /\ p.h \in Handlers
  BY SessionPeer
<1>2. OneOperation'
  BY <1>1 DEF IInv, OneOperation, Completed
<1>3. Registry' /\ PeerInv'
  BY DEF IInv, Registry, PeerInv, Completed
<1>4. AcceptArmed'
  <2>1. \A q : q.kind = "accept" => (q \in pending' <=> q \in pending)
    BY DEF Completed
  <2> QED BY <2>1 DEF IInv, AcceptArmed
<1> QED BY <1>2, <1>3, <1>4 DEF StructInv

\* session_handler::close.
LEMMA CloseStruct ==
  ASSUME IInv, NEW p \in pending, p.kind # "accept", Serving, Close(p), UNCHANGED peer
  PROVE  StructInv'
<1>1. /\ hstate[p.h] = "live" /\ p.h \in Handlers /\ peer[p.h] \in Clients
      /\ hstate \in [Handlers -> {"none", "accepting", "live", "freed"}]
      /\ run = "running"
  BY SessionPeer DEF IInv, TypeOK, ServerTypeOK, Serving
<1>2. CASE Thrown(p) /\ UNCHANGED <<m_set_handlers, hstate, sclosed>>
  BY <1>1, <1>2 DEF Thrown, Completed, IInv, StructInv, OneOperation, Registry, PeerInv, AcceptArmed
<1>3. CASE /\ m_set_handlers' = Unregistered(p.h)
           /\ hstate' = [hstate EXCEPT ![p.h] = "freed"]
           /\ Completed(p, {})
           /\ UNCHANGED run
  <2>1. OneOperation' /\ Registry' /\ PeerInv'
    BY <1>1, <1>3 DEF Unregistered, Completed, IInv, OneOperation, Registry, PeerInv
  <2>2. \A q : q.kind = "accept" => (q \in pending' <=> q \in pending)
    BY <1>3 DEF Completed
  <2>3. AcceptArmed'
    BY <1>1, <1>3, <2>2 DEF IInv, AcceptArmed
  <2> QED BY <2>1, <2>3 DEF StructInv
<1> QED BY <1>2, <1>3 DEF Close

\* The completions of an accept.
LEMMA AcceptStruct ==
  ASSUME IInv, NEW p \in pending,
         \/ \E n \in Handlers, c \in Clients : HandleAccept(p, n, c)
         \/ \E c \in Clients : HandleAcceptThrows(p, c)
         \/ HandleAcceptError(p)
  PROVE  StructInv'
<1>1. /\ p.kind = "accept" /\ p.h \in Handlers
      /\ hstate[p.h] = "accepting" /\ peer[p.h] = NoClient /\ run = "running"
      /\ hstate \in [Handlers -> {"none", "accepting", "live", "freed"}]
      /\ peer \in [Handlers -> Clients \cup {NoClient}]
  BY SessionPeer DEF HandleAccept, HandleAcceptThrows, HandleAcceptError, Serving,
     IInv, OneOperation, PeerInv, TypeOK, ServerTypeOK
<1>2. ASSUME NEW n \in Handlers, NEW c \in Clients, HandleAccept(p, n, c)
      PROVE  StructInv'
  <2>1. pending' = (pending \ {p}) \cup {HeadRead(p.h), AcceptOp(n)}
    BY <1>2 DEF HandleAccept, Completed, NextAccept
  <2>2. /\ HeadRead(p.h).h = p.h /\ HeadRead(p.h).kind = "read"
        /\ AcceptOp(n).h = n /\ AcceptOp(n).kind = "accept"
    BY DEF HeadRead, AcceptOp, Op
  <2>3. n # p.h /\ hstate[n] = "none" /\ \A q \in pending : q.h # n
    BY <1>1, <1>2 DEF HandleAccept, IInv, OneOperation
  <2>4. /\ hstate' = [hstate EXCEPT ![p.h] = "live", ![n] = "accepting"]
        /\ peer' = [peer EXCEPT ![p.h] = c]
        /\ m_set_handlers' = m_set_handlers \cup {n} /\ run' = run
    BY <1>2 DEF HandleAccept
  <2>5. OneOperation'
    <3>1. \A q \in pending \ {p} : q.h # p.h /\ q.h # n /\ q.h \in Handlers
      BY <2>3, SessionPeer DEF IInv, OneOperation
    <3>2. \A q, r \in pending' : q.h = r.h => q = r
      BY <2>1, <2>2, <2>3, <3>1 DEF IInv, OneOperation
    <3>3. \A q \in pending \ {p} : hstate'[q.h] = hstate[q.h]
      BY <1>1, <2>4, <3>1
    <3>4. hstate'[p.h] = "live" /\ hstate'[n] = "accepting"
      BY <1>1, <2>3, <2>4
    <3>5. \A q \in pending' : hstate'[q.h] = IF q.kind = "accept" THEN "accepting" ELSE "live"
      BY <2>1, <2>2, <3>3, <3>4 DEF IInv, OneOperation
    <3> QED BY <3>2, <3>5 DEF OneOperation
  <2>6. Registry'
    BY <1>1, <2>3, <2>4 DEF IInv, Registry
  <2>7. PeerInv'
    BY <1>1, <2>3, <2>4 DEF IInv, PeerInv
  <2>8. AcceptArmed'
    BY <1>1, <2>1, <2>2, <2>3, <2>4 DEF IInv, AcceptArmed
  <2> QED BY <2>5, <2>6, <2>7, <2>8 DEF StructInv
<1>3. ASSUME NEW c \in Clients, HandleAcceptThrows(p, c)
      PROVE  StructInv'
  BY <1>1, <1>3 DEF HandleAcceptThrows, Thrown, Completed, IInv, StructInv,
                    OneOperation, Registry, PeerInv, AcceptArmed
<1>4. CASE HandleAcceptError(p)
  BY <1>1, <1>4 DEF HandleAcceptError, Unregistered, Completed, IInv, StructInv,
                    OneOperation, Registry, PeerInv, AcceptArmed
<1> QED BY <1>2, <1>3, <1>4

\* The completions of the operations of the sessions.
LEMMA OpStepStruct ==
  ASSUME IInv, NEW p \in pending, OpStep(p)
  PROVE  StructInv'
<1>1. CASE \/ \E n \in Handlers, c \in Clients : HandleAccept(p, n, c)
           \/ \E c \in Clients : HandleAcceptThrows(p, c)
           \/ HandleAcceptError(p)
  BY <1>1, AcceptStruct
<1>2. ASSUME NEW k \in 1..Cap, HandleReadPartial(p, k)
      PROVE  StructInv'
  <2> DEFINE q == Op(p.h, "read", NextOffset(p, k), Remaining(p, k), p.piece + 1, p.part)
  <2>1. q.h = p.h /\ q.kind = "read"
    BY DEF Op
  <2> HIDE DEF q
  <2>2. /\ p.kind = "read" /\ Completed(p, {q})
        /\ UNCHANGED <<run, m_set_handlers, hstate, peer>>
    BY <1>2 DEF HandleReadPartial, q
  <2> QED BY <2>1, <2>2, ContinuesStruct
<1>3. ASSUME NEW m \in Messages, HandlePacketHeader(p, m)
      PROVE  StructInv'
  <2>1. BodyRead(p.h, m).h = p.h /\ BodyRead(p.h, m).kind = "read"
    BY DEF BodyRead, Op
  <2>2. /\ p.kind = "read" /\ Completed(p, {BodyRead(p.h, m)})
        /\ UNCHANGED <<run, m_set_handlers, hstate, peer>>
    BY <1>3 DEF HandlePacketHeader, FullRead
  <2> QED BY <2>1, <2>2, ContinuesStruct
<1>4. CASE MsgConnect(p)
  <2>1. PICK ok : Completed(p, Answering(p.h, ok))
    BY <1>4, Zenon DEF MsgConnect
  <2>2. /\ p.kind = "read"
        /\ UNCHANGED <<run, m_set_handlers, hstate, peer>>
    BY <1>4 DEF MsgConnect, FullRead
  <2>3. \A q \in Answering(p.h, ok) : q.h = p.h /\ q.kind # "accept"
    BY DEF Answering, WriteOp, Op
  <2>4. \A q, r \in Answering(p.h, ok) : q = r
    BY DEF Answering
  <2> QED BY <2>1, <2>2, <2>3, <2>4, ContinuesStruct
<1>5. CASE MsgDisconnect(p)
  BY <1>5, CloseStruct DEF MsgDisconnect, FullRead
<1>6. ASSUME FullRead(p), NEW buf, Abandoned(p, buf)
      PROVE  StructInv'
  BY <1>6, ContinuesStruct DEF FullRead, Abandoned
<1>7. CASE UnknownMark(p) \/ BadHeader(p) \/ BadBody(p)
  BY <1>6, <1>7 DEF UnknownMark, BadHeader, BadBody
<1>8. CASE BodyUnderflow(p)
  <2>1. /\ pending' = {} /\ run' = "aborted"
        /\ UNCHANGED <<m_set_handlers, hstate, peer>>
    BY <1>8 DEF BodyUnderflow, SocketsClosed, sessionVars
  <2> QED BY <2>1 DEF IInv, StructInv, OneOperation, Registry, PeerInv, AcceptArmed
<1>9. CASE HandleReadError(p) \/ HandleWriteError(p)
  BY <1>9, CloseStruct DEF HandleReadError, HandleWriteError
<1>10. CASE HandleWrite(p)
  <2>1. HeadRead(p.h).h = p.h /\ HeadRead(p.h).kind = "read"
    BY DEF HeadRead, Op
  <2> QED BY <1>10, <2>1, ContinuesStruct DEF HandleWrite, sessionVars
<1> QED BY <1>1, <1>2, <1>3, <1>4, <1>5, <1>7, <1>8, <1>9, <1>10 DEF OpStep

\* The steps of the thread, and the stop.
LEMMA ThreadStepStruct ==
  ASSUME IInv, ThreadStep \/ Stop
  PROVE  StructInv'
<1>1. ASSUME NEW n \in Handlers, AcceptorStart(n)
      PROVE  StructInv'
  <2>1. /\ pending' = {AcceptOp(n)} /\ AcceptOp(n).h = n /\ AcceptOp(n).kind = "accept"
        /\ hstate' = [hstate EXCEPT ![n] = "accepting"]
        /\ m_set_handlers' = m_set_handlers \cup {n} /\ UNCHANGED peer
        /\ run' = "running" /\ run = "init"
    BY <1>1 DEF AcceptorStart, NextAccept, AcceptOp, Op
  <2>2. /\ hstate \in [Handlers -> {"none", "accepting", "live", "freed"}]
        /\ \A h \in Handlers : hstate[h] = "none" /\ peer[h] = NoClient
    BY <2>1 DEF IInv, TypeOK, ServerTypeOK, PeerInv
  <2> QED BY <2>1, <2>2 DEF IInv, StructInv, OneOperation, Registry, PeerInv, AcceptArmed
<1>2. CASE RunReturns \/ Stop
  BY <1>2 DEF RunReturns, Stop, sessionVars, IInv, StructInv, OneOperation, Registry,
              PeerInv, AcceptArmed
<1>3. CASE ServerExit
  <2>1. /\ pending' = {} /\ run' = "exited"
        /\ UNCHANGED <<m_set_handlers, hstate, peer>>
    BY <1>3 DEF ServerExit, SocketsClosed, sessionVars
  <2> QED BY <2>1 DEF IInv, StructInv, OneOperation, Registry, PeerInv, AcceptArmed
<1> QED BY <1>1, <1>2, <1>3 DEF ThreadStep

LEMMA NextStruct == IInv /\ [Next]_vars => StructInv'
<1> SUFFICES ASSUME IInv, [Next]_vars PROVE StructInv'
  OBVIOUS
<1>1. CASE ServerStep
  BY <1>1, OpStepStruct, ThreadStepStruct DEF ServerStep, HandlerStep
<1>2. CASE UNCHANGED serverVars
  BY <1>2 DEF serverVars, IInv, StructInv, OneOperation, Registry, PeerInv, AcceptArmed
<1> QED BY <1>1, <1>2 DEF Next, vars

-----------------------------------------------------------------------------
(***************************************************************************)
(* The theorems.                                                           *)
(***************************************************************************)
LEMMA Invariance == Spec => []IInv
<1>1. IInv /\ [Next]_vars => IInv'
  BY NextType, NextStruct DEF IInv, StructInv
<1> QED BY <1>1, InitIInv, PTL DEF Spec

\* Every reachable state is of the types the variables were declared with: in
\* particular no read of handle_read ever wants a negative count or lies outside
\* the range of the buffers.
THEOREM TypeCorrect == Spec => []TypeOK
<1>1. IInv => TypeOK
  BY DEF IInv
<1> QED BY <1>1, Invariance, PTL

\* However sessions, faults and stops interleave, a session_handler has one
\* operation in progress at most and a deleted one has none.
THEOREM OneOperationPerHandler == Spec => []OneOperation
<1>1. IInv => OneOperation
  BY DEF IInv
<1> QED BY <1>1, Invariance, PTL

\* m_set_handlers and the allocated handlers are the same set, whichever path
\* (start, handle_accept, its error, close) a handler took.
THEOREM RegistryExact == Spec => []Registry
<1>1. IInv => Registry
  BY DEF IInv
<1> QED BY <1>1, Invariance, PTL

\* A running server either has its one accept in progress or has failed to
\* accept before, after which no client is ever accepted.
THEOREM AcceptStaysArmed == Spec => []AcceptArmed
<1>1. IInv => AcceptArmed
  BY DEF IInv
<1> QED BY <1>1, Invariance, PTL

-----------------------------------------------------------------------------
(***************************************************************************)
(* Reads stay inside the vector.  start() and handle_packet_header resize  *)
(* it to the part they read.  A header after an answer is read into what   *)
(* the body of the CONNECT left: its size must be carried from the header  *)
(* to the end of the write, and HeaderFitsAssumption makes it enough.      *)
(***************************************************************************)
FitsPart(q) ==
  /\ q.kind = "read" => q.off + q.want <= m_recv_size[q.h]
  /\ q.kind = "read" /\ q.part # "head" =>
       /\ m_packet_header[q.h] \in Messages
       /\ m_recv_size[q.h] = BLen[m_packet_header[q.h]]
  /\ q.kind = "written" \/ q.part = "head" => HLen <= m_recv_size[q.h]

ReadInv == \A q \in pending : FitsPart(q)

\* A step that leaves the operations in progress, or drops some of them, and the
\* headers and sizes as they are.
LEMMA FitsUnchanged ==
  ASSUME ReadInv, pending' \subseteq pending, UNCHANGED <<m_packet_header, m_recv_size>>
  PROVE  ReadInv'
BY DEF ReadInv, FitsPart

\* A completion of p that changes no header and no size but its own, and starts
\* operations that fit.
LEMMA FitsCompleted ==
  ASSUME IInv, ReadInv, NEW p \in pending, NEW new, Completed(p, new),
         m_packet_header' = m_packet_header
           \/ \E v : m_packet_header' = [m_packet_header EXCEPT ![p.h] = v],
         m_recv_size' = m_recv_size
           \/ \E v : m_recv_size' = [m_recv_size EXCEPT ![p.h] = v],
         \A q \in new : FitsPart(q)'
  PROVE  ReadInv'
<1>1. \A q \in pending \ {p} : q.h # p.h /\ q.h \in Handlers
  BY SessionPeer DEF IInv, OneOperation
<1>2. \A q \in pending \ {p} : m_packet_header'[q.h] = m_packet_header[q.h]
  BY <1>1 DEF IInv, TypeOK, ServerTypeOK
<1>3. \A q \in pending \ {p} : m_recv_size'[q.h] = m_recv_size[q.h]
  BY <1>1 DEF IInv, TypeOK, ServerTypeOK
<1>4. \A q \in pending \ {p} : FitsPart(q)'
  BY <1>2, <1>3 DEF ReadInv, FitsPart
<1> QED BY <1>4 DEF Completed, ReadInv

\* A new read of a header fits into a vector that has room for one; an accept and
\* a write that failed read nothing.
LEMMA HeadFits ==
  ASSUME NEW h \in Handlers, m_recv_size' \in [Handlers -> 0..Cap]
  PROVE  /\ FitsPart(AcceptOp(h))'
         /\ FitsPart(WriteOp(h, FALSE))'
         /\ HLen <= m_recv_size'[h] =>
              FitsPart(HeadRead(h))' /\ FitsPart(WriteOp(h, TRUE))'
<1>1. /\ HeadRead(h).part = "head" /\ HeadRead(h).off = 0 /\ HeadRead(h).want = HLen
      /\ HeadRead(h).h = h
  BY DEF HeadRead, Op
<1>2. AcceptOp(h).kind = "accept" /\ AcceptOp(h).part = "none"
  BY DEF AcceptOp, Op
<1>3. /\ WriteOp(h, FALSE).kind = "writefail" /\ WriteOp(h, FALSE).part = "none"
      /\ WriteOp(h, TRUE).kind = "written" /\ WriteOp(h, TRUE).h = h
  BY DEF WriteOp, Op
<1>4. HLen \in Nat /\ m_recv_size'[h] \in Int
  BY FramesAssumption, CapBounds
<1>5. FitsPart(AcceptOp(h))'
  BY <1>2 DEF FitsPart
<1>6. FitsPart(WriteOp(h, FALSE))'
  BY <1>3 DEF FitsPart
<1>7. HLen <= m_recv_size'[h] => FitsPart(WriteOp(h, TRUE))'
  BY <1>3, <1>4 DEF FitsPart
<1>8. HLen <= m_recv_size'[h] => FitsPart(HeadRead(h))'
  BY <1>1, <1>4 DEF FitsPart
<1> QED BY <1>5, <1>6, <1>7, <1>8

\* A vector that has just been read into in full has room for a header, unless it
\* held the body of another message than CONNECT.
LEMMA RoomAfterConnect ==
  ASSUME IInv, ReadInv, NEW p \in pending, p.kind = "read", m_packet_header[p.h] = "CONNECT"
  PROVE  HLen <= m_recv_size[p.h]
BY HeaderFitsAssumption DEF ReadInv, FitsPart

LEMMA OpStepFits ==
  ASSUME IInv, ReadInv, NEW p \in pending, OpStep(p)
  PROVE  ReadInv'
<1>t. /\ p \in Ops /\ p.h \in Handlers
      /\ m_packet_header \in [Handlers -> Messages \cup {"none", "garbage"}]
      /\ m_recv_size \in [Handlers -> 0..Cap]
  BY SessionPeer DEF IInv, TypeOK, ServerTypeOK
<1>k. UNCHANGED m_recv_size => m_recv_size' \in [Handlers -> 0..Cap]
  BY <1>t
<1>1. ASSUME NEW n \in Handlers, NEW c \in Clients, HandleAccept(p, n, c)
      PROVE  ReadInv'
  <2>1. /\ Completed(p, {HeadRead(p.h), AcceptOp(n)}) /\ UNCHANGED m_packet_header
        /\ m_recv_size' = [m_recv_size EXCEPT ![p.h] = HLen]
    BY <1>1 DEF HandleAccept, NextAccept
  <2>2. m_recv_size' \in [Handlers -> 0..Cap] /\ HLen <= m_recv_size'[p.h]
    BY <1>t, <2>1, CapBounds
  <2>3. FitsPart(HeadRead(p.h))' /\ FitsPart(AcceptOp(n))'
    BY <1>t, <2>2, HeadFits
  <2> QED BY <2>1, <2>3, FitsCompleted
<1>2. ASSUME NEW k \in 1..Cap, HandleReadPartial(p, k)
      PROVE  ReadInv'
  <2> DEFINE q == Op(p.h, "read", NextOffset(p, k), Remaining(p, k), p.piece + 1, p.part)
  <2>1. q.h = p.h /\ q.part = p.part /\ q.off = k /\ q.want = p.want - k
    BY DEF Op, NextOffset, Remaining
  <2> HIDE DEF q
  <2>2. /\ p.kind = "read" /\ q.kind = "read"
        /\ Completed(p, {q}) /\ UNCHANGED <<m_packet_header, m_recv_size>>
    BY <1>2 DEF HandleReadPartial, q, Op
  <2>3. /\ q.off + q.want = p.want /\ p.off >= 0 /\ p.off \in Int /\ p.want \in Int
        /\ m_recv_size[p.h] \in Int
    BY <1>t, <2>1, CapBounds DEF Ops
  <2>4. FitsPart(q)'
    BY <2>1, <2>2, <2>3 DEF ReadInv, FitsPart
  <2> QED BY <2>2, <2>4, FitsCompleted
<1>3. ASSUME NEW m \in Messages, HandlePacketHeader(p, m)
      PROVE  ReadInv'
  <2>1. /\ Completed(p, {BodyRead(p.h, m)})
        /\ m_packet_header' = [m_packet_header EXCEPT ![p.h] = m]
        /\ m_recv_size' = [m_recv_size EXCEPT ![p.h] = BLen[m]]
    BY <1>3 DEF HandlePacketHeader
  <2>2. /\ BodyRead(p.h, m).part = "body" /\ BodyRead(p.h, m).h = p.h
        /\ BodyRead(p.h, m).off = 0 /\ BodyRead(p.h, m).want = BLen[m]
    BY DEF BodyRead, Op
  <2>3. m_packet_header'[p.h] = m /\ m_recv_size'[p.h] = BLen[m] /\ BLen[m] \in Nat
    BY <1>t, <2>1, FramesAssumption
  <2>4. BodyRead(p.h, m).kind = "read"
    BY DEF BodyRead, Op
  <2>5. FitsPart(BodyRead(p.h, m))'
    BY <2>2, <2>3, <2>4 DEF FitsPart
  <2> QED BY <2>1, <2>5, FitsCompleted
<1>4. CASE MsgConnect(p)
  <2>1. PICK ok \in BOOLEAN : Completed(p, Answering(p.h, ok))
    BY <1>4, Zenon DEF MsgConnect
  <2>2. /\ UNCHANGED <<m_packet_header, m_recv_size>>
        /\ p.kind = "read" /\ m_packet_header[p.h] = "CONNECT"
    BY <1>4 DEF MsgConnect, FullRead
  <2>3. HLen <= m_recv_size'[p.h]
    BY <2>2, RoomAfterConnect
  <2>4. FitsPart(WriteOp(p.h, ok))'
    BY <1>k, <1>t, <2>2, <2>3, HeadFits
  <2>5. \A q \in Answering(p.h, ok) : FitsPart(q)'
    BY <2>4 DEF Answering
  <2> QED BY <2>1, <2>2, <2>5, FitsCompleted
<1>5. CASE Close(p) /\ UNCHANGED <<m_packet_header, m_recv_size>>
  <2>1. pending' = pending \ {p}
    BY <1>5 DEF Close, Thrown, Completed
  <2> QED BY <1>5, <2>1, FitsUnchanged
<1>6. CASE MsgDisconnect(p) \/ HandleReadError(p) \/ HandleWriteError(p)
  BY <1>5, <1>6 DEF MsgDisconnect, HandleReadError, HandleWriteError
<1>7. CASE UnknownMark(p) \/ BadHeader(p) \/ BadBody(p)
  <2>1. /\ Completed(p, {}) /\ UNCHANGED m_recv_size
        /\ \/ m_packet_header' = m_packet_header
           \/ m_packet_header' = [m_packet_header EXCEPT ![p.h] = "garbage"]
    BY <1>7 DEF UnknownMark, BadHeader, BadBody, Abandoned
  <2> QED BY <2>1, FitsCompleted
<1>8. CASE BodyUnderflow(p)
  <2>1. pending' = {}
    BY <1>8 DEF BodyUnderflow, SocketsClosed
  <2> QED BY <2>1 DEF ReadInv
<1>9. CASE HandleWrite(p)
  <2>1. /\ Completed(p, {HeadRead(p.h)}) /\ UNCHANGED <<m_packet_header, m_recv_size>>
        /\ p.kind = "written"
    BY <1>9 DEF HandleWrite, sessionVars
  <2>2. HLen <= m_recv_size'[p.h]
    BY <2>1 DEF ReadInv, FitsPart
  <2>3. FitsPart(HeadRead(p.h))'
    BY <1>k, <1>t, <2>1, <2>2, HeadFits
  <2> QED BY <2>1, <2>3, FitsCompleted
<1>10. CASE (\E c \in Clients : HandleAcceptThrows(p, c)) \/ HandleAcceptError(p)
  BY <1>10, FitsUnchanged DEF HandleAcceptThrows, HandleAcceptError, Thrown, Completed
<1> QED BY <1>1, <1>2, <1>3, <1>4, <1>6, <1>7, <1>8, <1>9, <1>10 DEF OpStep

LEMMA NextFits == IInv /\ ReadInv /\ [Next]_vars => ReadInv'
<1> SUFFICES ASSUME IInv, ReadInv, [Next]_vars PROVE ReadInv'
  OBVIOUS
<1>1. ASSUME NEW h \in Handlers, HandlerStep(h)
      PROVE  ReadInv'
  BY <1>1, OpStepFits DEF HandlerStep
<1>2. ASSUME NEW n \in Handlers, AcceptorStart(n)
      PROVE  ReadInv'
  <2>1. pending' = {AcceptOp(n)} /\ UNCHANGED m_recv_size
    BY <1>2 DEF AcceptorStart, NextAccept
  <2>2. m_recv_size' \in [Handlers -> 0..Cap]
    BY <2>1 DEF IInv, TypeOK, ServerTypeOK
  <2> QED BY <2>1, <2>2, HeadFits DEF ReadInv
<1>3. CASE RunReturns \/ ServerExit \/ Stop
  BY <1>3, FitsUnchanged DEF RunReturns, ServerExit, Stop, SocketsClosed, sessionVars
<1>4. CASE UNCHANGED serverVars
  BY <1>4, FitsUnchanged DEF serverVars
<1> QED BY <1>1, <1>2, <1>3, <1>4 DEF Next, ServerStep, ThreadStep, vars

\* However the packets are cut into pieces, no read can store beyond the end of
\* m_recv_buffer: neither the rest of a part, whose offset a third piece makes
\* wrong, nor the header after an answer, for which the vector is not resized.
THEOREM ReadsStayInside == Spec => []ReadFits
<1>1. Init => ReadInv
  BY DEF Init, ServerInit, ReadInv
<1>2. IInv /\ ReadInv /\ [Next]_vars => ReadInv'
  BY NextFits
<1>3. ReadInv => ReadFits
  BY DEF ReadInv, FitsPart, ReadFits
<1> QED BY <1>1, <1>2, <1>3, Invariance, PTL DEF Spec

-----------------------------------------------------------------------------
(***************************************************************************)
(* A client that has not called connect() has no connection: only its      *)
(* connect() makes one, and the server touches only those that were made.  *)
(***************************************************************************)
Uncalled == \A c \in Clients : pc[c] = "start" => link[c] = "none"

\* A completion resets the connections of a process that aborts, and no others.
LEMMA OpStepUncalled ==
  ASSUME Uncalled, NEW p \in pending, OpStep(p), UNCHANGED clientVars
  PROVE  Uncalled'
<1>1. ASSUME UNCHANGED link
      PROVE  Uncalled'
  BY <1>1 DEF Uncalled, clientVars
<1>2. ASSUME NEW n \in Handlers, NEW c \in Clients, HandleAccept(p, n, c)
      PROVE  Uncalled'
  BY <1>1, <1>2 DEF HandleAccept, tcpVars
<1>3. ASSUME NEW c \in Clients, HandleAcceptThrows(p, c)
      PROVE  Uncalled'
  BY <1>1, <1>3 DEF HandleAcceptThrows, tcpVars
<1>4. CASE HandleAcceptError(p) \/ HandleWrite(p)
  BY <1>1, <1>4 DEF HandleAcceptError, HandleWrite, tcpVars
<1>5. CASE \/ \E k \in 1..Cap : HandleReadPartial(p, k)
           \/ \E m \in Messages : HandlePacketHeader(p, m)
           \/ MsgConnect(p) \/ MsgDisconnect(p) \/ HandleReadError(p) \/ HandleWriteError(p)
           \/ UnknownMark(p) \/ BadHeader(p) \/ BadBody(p)
  BY <1>1, <1>5 DEF HandleReadPartial, HandlePacketHeader, MsgConnect, MsgDisconnect,
     HandleReadError, HandleWriteError, UnknownMark, BadHeader, BadBody, Abandoned
<1>6. CASE BodyUnderflow(p)
  BY <1>6 DEF BodyUnderflow, SocketsClosed, Uncalled, clientVars
<1> QED BY <1>2, <1>3, <1>4, <1>5, <1>6 DEF OpStep

LEMMA ClientStepUncalled ==
  ASSUME IInv, Uncalled, NEW c \in Clients, ClientStep(c, Listening) \/ Killed(c)
  PROVE  Uncalled'
<1>t. /\ link \in [Clients -> {"none", "up", "fin", "reset"}]
      /\ pc \in [Clients -> {"start", "send", "head", "body", "disconnect", "exit", "gone"}]
  BY DEF IInv, TypeOK, TcpTypeOK, ClientTypeOK
<1>1. ASSUME NEW at, at # "start", pc' = [pc EXCEPT ![c] = at],
             \A d \in Clients \ {c} : link'[d] = link[d]
      PROVE  Uncalled'
  BY <1>1, <1>t DEF Uncalled
<1>2. ASSUME UNCHANGED <<link, pc>>
      PROVE  Uncalled'
  BY <1>2 DEF Uncalled
<1>3. ASSUME NEW m, NEW k, Written(c, m, k)
      PROVE  \A d \in Clients \ {c} : link'[d] = link[d]
  BY <1>3, <1>t DEF Written
<1>4. CASE Connect(c, Listening)
  BY <1>1, <1>4, <1>t DEF Connect, Returned
<1>5. CASE SendConnect(c) \/ Disconnect(c)
  BY <1>1, <1>3, <1>5 DEF SendConnect, Disconnect, Awaits
<1>6. CASE SendConnectFails(c)
  <2>1. pc' = [pc EXCEPT ![c] = "exit"]
    BY <1>6 DEF SendConnectFails, Returned
  <2>2. \A d \in Clients \ {c} : link'[d] = link[d]
    BY <1>3, <1>6 DEF SendConnectFails
  <2> QED BY <1>1, <2>1, <2>2
<1>7. CASE \E k \in 1..Cap : RecvPiece(c, k)
  BY <1>2, <1>7 DEF RecvPiece, ReadSome
<1>8. CASE RecvHeader(c) \/ RecvBody(c)
  BY <1>1, <1>8 DEF RecvHeader, RecvBody, ReadSome, Awaits, Returned
<1>9. CASE RecvThrows(c) \/ Exit(c) \/ Killed(c)
  BY <1>1, <1>9, <1>t DEF RecvThrows, Exit, Killed, Returned
<1> QED BY <1>4, <1>5, <1>6, <1>7, <1>8, <1>9 DEF ClientStep

LEMMA NextUncalled == IInv /\ Uncalled /\ [Next]_vars => Uncalled'
<1> SUFFICES ASSUME IInv, Uncalled, [Next]_vars PROVE Uncalled'
  OBVIOUS
<1>1. CASE ServerStep /\ UNCHANGED clientVars
  <2>1. ASSUME NEW h \in Handlers, HandlerStep(h)
        PROVE  Uncalled'
    BY <1>1, <2>1, OpStepUncalled DEF HandlerStep
  <2>2. CASE ThreadStep \/ Stop
    BY <1>1, <2>2 DEF ThreadStep, AcceptorStart, RunReturns, ServerExit, Stop,
       SocketsClosed, tcpVars, clientVars, Uncalled
  <2> QED BY <1>1, <2>1, <2>2 DEF ServerStep
<1>2. ASSUME NEW c \in Clients, ClientStep(c, Listening) \/ Killed(c)
      PROVE  Uncalled'
  BY <1>2, ClientStepUncalled
<1>3. ASSUME NEW c \in Clients, PeerReset(c) \/ LinkLost(c), UNCHANGED clientVars
      PROVE  Uncalled'
  BY <1>3 DEF PeerReset, LinkLost, Uncalled, clientVars, IInv, TypeOK, TcpTypeOK
<1>4. CASE UNCHANGED vars
  BY <1>4 DEF vars, tcpVars, clientVars, Uncalled
<1> QED BY <1>1, <1>2, <1>3, <1>4 DEF Next
=============================================================================
