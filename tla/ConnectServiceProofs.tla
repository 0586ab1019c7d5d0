------------------------ MODULE ConnectServiceProofs ------------------------
(***************************************************************************)
(* RtdbSystem implements ConnectService: every step of the server, of a    *)
(* client or of the network is a step of the service or leaves it as it    *)
(* is, for any number of clients, sizes of packets, pieces and faults.     *)
(***************************************************************************)
EXTENDS RtdbSystemProofs

USE DEF Live

-----------------------------------------------------------------------------
(***************************************************************************)
(* The inductive invariant: what a step needs to know to be one of the     *)
(* service.                                                                *)
(***************************************************************************)
\* Before a client has sent its request nothing is on its way in either direction.
Unasked == \A c \in Clients : pc[c] \in {"start", "send"} => c2s[c] = <<>> /\ s2c[c] = <<>>

\* A client that waits still lacks a byte, of the header no more than a header.
Reading ==
  \A c \in Clients :
    /\ pc[c] \in {"head", "body"} => next[c] > 0
    /\ pc[c] = "head" => next[c] <= HLen

\* Only a client that is gone has closed its end.
Ended == \A c \in Clients : link[c] = "fin" => pc[c] = "gone"

\* A read still lacks a byte; a write fails only on a connection that was reset.
Underway ==
  \A p \in pending :
    /\ p.kind = "read" => p.want > 0
    /\ p.kind = "writefail" => link[peer[p.h]] = "reset"

\* Two handlers never serve the same client.
OwnPeer == \A g, h \in Handlers : peer[g] = peer[h] /\ peer[g] # NoClient => g = h

\* The last byte of a farewell, with which the packet passes its check, is on its way
\* or in a buffer only for a client that has said farewell.
LastCell == <<"DISCONNECT", "body", BLen["DISCONNECT"]>>
InStream(s)   == \E i \in 1..Len(s) : s[i] = LastCell
InBuffer(buf) == \E i \in 1..Cap : buf[i] = LastCell
Away(c)       == pc[c] \in {"exit", "gone"}

Farewell ==
  /\ \A c \in Clients : ~Away(c) => ~InStream(c2s[c])
  /\ \A h \in Handlers : peer[h] = NoClient \/ ~Away(peer[h]) => ~InBuffer(m_recv_buffer[h])

ServiceInv == Unasked /\ Reading /\ Ended /\ Underway /\ OwnPeer /\ Farewell

-----------------------------------------------------------------------------
(***************************************************************************)
(* Cells of streams and buffers                                            *)
(***************************************************************************)
LEMMA CellFacts ==
  /\ HLen \in Nat \ {0} /\ MarkLen \in Nat \ {0} /\ MarkLen < HLen
  /\ \A m \in Messages : BLen[m] \in Nat \ {0} /\ MarkLen < BLen[m] /\ BLen[m] <= Cap
  /\ "CONNECT" \in Messages /\ "CONNECT_RESP" \in Messages /\ "DISCONNECT" \in Messages
  /\ BodyCells("DISCONNECT")[BLen["DISCONNECT"]] = LastCell
<1>1. /\ "CONNECT" \in Messages /\ "CONNECT_RESP" \in Messages /\ "DISCONNECT" \in Messages
  BY DEF Messages
<1>2. /\ HLen \in Nat \ {0} /\ MarkLen \in Nat \ {0} /\ MarkLen < HLen
      /\ \A m \in Messages : BLen[m] \in Nat \ {0} /\ MarkLen < BLen[m] /\ BLen[m] <= Cap
  BY FramesAssumption, CapBounds
<1>3. BodyCells("DISCONNECT")[BLen["DISCONNECT"]] = LastCell
  BY <1>1, <1>2 DEF BodyCells, LastCell
<1> QED
  BY <1>1, <1>2, <1>3

\* A packet other than the farewell does not have its last byte.
LEMMA OtherFrames ==
  ASSUME NEW m \in Messages \ {"DISCONNECT"}
  PROVE  ~InStream(Frame(m))
<1>1. HLen \in Nat /\ BLen[m] \in Nat
  BY FramesAssumption
<1>2. \A i \in 1..HLen : HeadCells(m)[i] # LastCell
  BY DEF HeadCells, LastCell, HMark
<1>3. \A i \in 1..BLen[m] : BodyCells(m)[i] # LastCell
  BY DEF BodyCells, LastCell, BMark
<1>4. /\ HeadCells(m) \in Seq(Cells \cup {LastCell}) /\ Len(HeadCells(m)) = HLen
      /\ BodyCells(m) \in Seq(Cells \cup {LastCell}) /\ Len(BodyCells(m)) = BLen[m]
  <2>1. \A i \in 1..HLen : HeadCells(m)[i] \in Cells
    BY DEF HeadCells, Cells
  <2>2. \A i \in 1..BLen[m] : BodyCells(m)[i] \in Cells
    BY DEF BodyCells, Cells
  <2>3. HeadCells(m) \in [1..HLen -> Cells] /\ BodyCells(m) \in [1..BLen[m] -> Cells]
    BY <2>1, <2>2 DEF HeadCells, BodyCells
  <2> QED
    BY <1>1, <2>3
<1> QED
  BY <1>1, <1>2, <1>3, <1>4 DEF Frame, InStream

\* Reading a stream brings nothing that was not on it.
LEMMA SplitCells ==
  ASSUME NEW s \in Seq(Cells), NEW k \in Nat, k <= Len(s), ~InStream(s)
  PROVE  ~InStream(Taken(s, k)) /\ ~InStream(Rest(s, k))
BY DEF Taken, Rest, InStream

LEMMA JoinCells ==
  ASSUME NEW s \in Seq(Cells), NEW u \in Seq(Cells), ~InStream(s), ~InStream(u)
  PROVE  ~InStream(s \o u)
BY DEF InStream

\* What the request adds to a stream.
LEMMA SentCells ==
  ASSUME NEW s \in Seq(Cells), ~InStream(s)
  PROVE  ~InStream(s \o Taken(Frame("CONNECT"), HLen + BLen["CONNECT"]))
<1>1. Frame("CONNECT") \in Seq(Cells) /\ ~InStream(Frame("CONNECT"))
  BY FrameType, OtherFrames, CellFacts
<1>2. Len(Frame("CONNECT")) = HLen + BLen["CONNECT"] /\ HLen + BLen["CONNECT"] \in Nat
  BY FrameLength, CellFacts
<1>3. ~InStream(Taken(Frame("CONNECT"), HLen + BLen["CONNECT"]))
  BY <1>1, <1>2, SplitCells
<1>4. Taken(Frame("CONNECT"), HLen + BLen["CONNECT"]) \in Seq(Cells)
  BY <1>1, <1>2, SplitType
<1> QED
  BY <1>3, <1>4, JoinCells

LEMMA StoredCells ==
  ASSUME NEW buf \in [1..Cap -> Cells], NEW off \in Nat, NEW s \in Seq(Cells),
         ~InBuffer(buf), ~InStream(s)
  PROVE  ~InBuffer(Stored(buf, off, s))
BY DEF InBuffer, InStream, Stored

LEMMA ResizedCells ==
  ASSUME NEW buf \in [1..Cap -> Cells], NEW n \in Nat, ~InBuffer(buf)
  PROVE  ~InBuffer(Resized(buf, n))
BY DEF InBuffer, Resized, Zero, LastCell

-----------------------------------------------------------------------------
(***************************************************************************)
(* The invariant holds                                                     *)
(***************************************************************************)
\* What the invariant says of one client alone.
OfClient(c) ==
  /\ pc[c] \in {"start", "send"} => c2s[c] = <<>> /\ s2c[c] = <<>>
  /\ pc[c] \in {"head", "body"} => next[c] > 0
  /\ pc[c] = "head" => next[c] <= HLen
  /\ link[c] = "fin" => pc[c] = "gone"
  /\ ~Away(c) => ~InStream(c2s[c])

LEMMA InvOfClient ==
  ServiceInv <=> /\ \A c \in Clients : OfClient(c)
                 /\ Underway /\ OwnPeer
                 /\ \A h \in Handlers : peer[h] = NoClient \/ ~Away(peer[h]) =>
                                            ~InBuffer(m_recv_buffer[h])
BY DEF ServiceInv, OfClient, Unasked, Reading, Ended, Farewell

LEMMA PrimedInv ==
  ASSUME \A c \in Clients : OfClient(c)', Underway', OwnPeer',
         \A h \in Handlers : peer'[h] = NoClient \/ ~Away(peer[h])' => ~InBuffer(m_recv_buffer[h])'
  PROVE  ServiceInv'
BY DEF ServiceInv, OfClient, Unasked, Reading, Ended, Farewell

LEMMA InitService == Init => ServiceInv
<1> SUFFICES ASSUME Init PROVE ServiceInv
  OBVIOUS
<1>1. \A c \in Clients : OfClient(c)
  BY DEF Init, TcpInit, ClientInit, OfClient, InStream
<1>2. Underway /\ OwnPeer
  BY DEF Init, ServerInit, Underway, OwnPeer
<1>3. ~InBuffer(EmptyBuffer)
  BY DEF InBuffer, EmptyBuffer, Zero, LastCell
<1>4. \A h \in Handlers : ~InBuffer(m_recv_buffer[h])
  BY <1>3 DEF Init, ServerInit
<1> QED
  BY <1>1, <1>2, <1>4, InvOfClient

\* A step that concerns one client alone.
LEMMA OneClient ==
  ASSUME ServiceInv, NEW c \in Clients, UNCHANGED serverVars,
         \A d \in Clients \ {c} : /\ pc'[d] = pc[d] /\ next'[d] = next[d] /\ link'[d] = link[d]
                                   /\ c2s'[d] = c2s[d] /\ s2c'[d] = s2c[d],
         link[c] = "reset" => link'[c] = "reset",
         Away(c) => Away(c)',
         OfClient(c)',
         NoClient \notin Clients, \A h \in Handlers : peer[h] \in Clients \cup {NoClient},
         \A p \in pending : p.kind = "writefail" => peer[p.h] \in Clients
  PROVE  ServiceInv'
<1>1. \A d \in Clients \ {c} : OfClient(d)'
  BY InvOfClient DEF OfClient, Away
<1>2. \A d \in Clients : /\ Away(d) => Away(d)'
                         /\ link[d] = "reset" => link'[d] = "reset"
  BY DEF Away
<1>3. Underway'
  BY <1>2 DEF Underway, serverVars, ServiceInv
<1>4. OwnPeer'
  BY DEF OwnPeer, serverVars, ServiceInv
<1>5. \A h \in Handlers : peer'[h] = NoClient \/ ~Away(peer[h])' => ~InBuffer(m_recv_buffer[h])'
  BY <1>2, InvOfClient DEF serverVars, InBuffer
<1> QED
  BY <1>1, <1>3, <1>4, <1>5, PrimedInv

\* The steps of a client.
LEMMA ClientKeeps ==
  ASSUME IInv, Uncalled, ServiceInv, NEW c \in Clients,
         ClientStep(c, Listening) \/ Killed(c), UNCHANGED serverVars
  PROVE  ServiceInv'
<1>t. /\ link \in [Clients -> {"none", "up", "fin", "reset"}]
      /\ c2s \in [Clients -> Seq(Cells)] /\ s2c \in [Clients -> Seq(Cells)]
      /\ pc \in [Clients -> {"start", "send", "head", "body", "disconnect", "exit", "gone"}]
      /\ next \in [Clients -> 0..Cap] /\ Cap \in Nat
      /\ peer \in [Handlers -> Clients \cup {NoClient}]
  BY CapBounds DEF IInv, TypeOK, TcpTypeOK, ClientTypeOK, ServerTypeOK
<1>o. /\ OfClient(c)
      /\ NoClient \notin Clients /\ \A h \in Handlers : peer[h] \in Clients \cup {NoClient}
      /\ \A p \in pending : p.kind = "writefail" => peer[p.h] \in Clients
  BY <1>t, InvOfClient, ServerAssumption, SessionPeer
<1> DEFINE Alone == /\ \A d \in Clients \ {c} : /\ pc'[d] = pc[d] /\ next'[d] = next[d]
                                                /\ link'[d] = link[d]
                                                /\ c2s'[d] = c2s[d] /\ s2c'[d] = s2c[d]
                    /\ link[c] = "reset" => link'[c] = "reset"
                    /\ Away(c) => Away(c)'
                    /\ OfClient(c)'
<1>q. Alone => ServiceInv'
  BY <1>o, OneClient
<1>1. CASE Connect(c, Listening)
  <2>1. link[c] = "none"
    BY <1>1 DEF Connect, Uncalled
  <2>2. Alone
    BY <1>1, <1>t, <1>o, <2>1 DEF Connect, Returned, OfClient, Away, InStream
  <2> QED
    BY <2>2, <1>q
<1>2. CASE SendConnect(c)
  <2>1. /\ c2s' = c2s \/ c2s' = [c2s EXCEPT ![c] = @ \o Taken(Frame("CONNECT"), HLen + BLen["CONNECT"])]
        /\ link' = link \/ link' = [link EXCEPT ![c] = "reset"]
    BY <1>2 DEF SendConnect, Written
  <2>2. ~InStream(c2s'[c])
    <3>1. c2s[c] \in Seq(Cells) /\ ~InStream(c2s[c])
      BY <1>2, <1>t, <1>o DEF SendConnect, OfClient, Away
    <3>2. ~InStream(c2s[c] \o Taken(Frame("CONNECT"), HLen + BLen["CONNECT"]))
      BY <3>1, SentCells
    <3> QED
      BY <1>t, <2>1, <3>1, <3>2
  <2>3. /\ pc' = [pc EXCEPT ![c] = "head"] /\ next' = [next EXCEPT ![c] = HLen] /\ s2c' = s2c
        /\ pc[c] = "send"
    BY <1>2 DEF SendConnect, Awaits
  <2>4. Alone
    BY <1>t, <1>o, <2>1, <2>2, <2>3, CellFacts DEF OfClient, Away
  <2> QED
    BY <2>4, <1>q
<1>3. CASE SendConnectFails(c)
  <2>1. /\ \A d \in Clients \ {c} : c2s'[d] = c2s[d]
        /\ link' = link \/ link' = [link EXCEPT ![c] = "reset"]
    BY <1>3, <1>t DEF SendConnectFails, Written
  <2>2. pc' = [pc EXCEPT ![c] = "exit"] /\ next' = next /\ s2c' = s2c /\ pc[c] = "send"
    BY <1>3 DEF SendConnectFails, Returned
  <2>3. Alone
    BY <1>t, <1>o, <2>1, <2>2 DEF OfClient, Away
  <2> QED
    BY <2>3, <1>q
<1>4. ASSUME NEW k \in 1..Cap, RecvPiece(c, k) PROVE ServiceInv'
  <2>1. /\ s2c' = [s2c EXCEPT ![c] = Rest(@, k)] /\ UNCHANGED <<link, c2s, pc>>
        /\ next' = [next EXCEPT ![c] = @ - k] /\ k < next[c] /\ pc[c] \in {"head", "body"}
    BY <1>4 DEF RecvPiece, ReadSome
  <2>2. Alone
    BY <1>t, <1>o, <2>1, CellFacts DEF OfClient, Away
  <2> QED
    BY <2>2, <1>q
<1>5. CASE RecvHeader(c)
  <2>1. /\ s2c' = [s2c EXCEPT ![c] = Rest(@, next[c])] /\ UNCHANGED <<link, c2s>> /\ pc[c] = "head"
        /\ \/ /\ pc' = [pc EXCEPT ![c] = "body"]
              /\ next' = [next EXCEPT ![c] = BLen["CONNECT_RESP"]]
           \/ pc' = [pc EXCEPT ![c] = "exit"] /\ next' = next
    BY <1>5 DEF RecvHeader, ReadSome, Awaits, Returned
  <2>2. Alone
    BY <1>t, <1>o, <2>1, CellFacts DEF OfClient, Away
  <2> QED
    BY <2>2, <1>q
<1>6. CASE RecvBody(c)
  <2>1. /\ s2c' = [s2c EXCEPT ![c] = Rest(@, next[c])] /\ UNCHANGED <<link, c2s, next>>
        /\ pc[c] = "body"
        /\ pc' = [pc EXCEPT ![c] = "disconnect"] \/ pc' = [pc EXCEPT ![c] = "exit"]
    BY <1>6 DEF RecvBody, ReadSome, Returned
  <2>2. Alone
    BY <1>t, <1>o, <2>1, CellFacts DEF OfClient, Away
  <2> QED
    BY <2>2, <1>q
<1>7. CASE RecvThrows(c) \/ Exit(c) \/ Killed(c)
  <2>1. /\ pc' = [pc EXCEPT ![c] = "gone"] /\ UNCHANGED <<next, c2s, s2c>>
        /\ \A d \in Clients \ {c} : link'[d] = link[d]
        /\ link[c] = "reset" => link'[c] = "reset"
    <3>1. pc' = [pc EXCEPT ![c] = "gone"] /\ UNCHANGED <<next, c2s, s2c>>
      BY <1>7 DEF RecvThrows, Exit, Killed, Returned, tcpVars
    <3>2. link' = [link EXCEPT ![c] = ClosedLink(c)]
      BY <1>7 DEF RecvThrows, Exit, Killed
    <3> QED
      BY <1>t, <3>1, <3>2 DEF ClosedLink
  <2>2. Alone
    BY <1>t, <1>o, <2>1 DEF OfClient, Away
  <2> QED
    BY <2>2, <1>q
<1>8. CASE Disconnect(c)
  <2>1. /\ \A d \in Clients \ {c} : c2s'[d] = c2s[d]
        /\ link' = link \/ link' = [link EXCEPT ![c] = "reset"]
    BY <1>8, <1>t DEF Disconnect, Written
  <2>2. pc' = [pc EXCEPT ![c] = "exit"] /\ UNCHANGED <<next, s2c>> /\ pc[c] = "disconnect"
    BY <1>8 DEF Disconnect
  <2>3. Alone
    BY <1>t, <1>o, <2>1, <2>2 DEF OfClient, Away
  <2> QED
    BY <2>3, <1>q
<1> QED
  BY <1>1, <1>2, <1>3, <1>4, <1>5, <1>6, <1>7, <1>8 DEF ClientStep

\* A step of the server that leaves the streams alone.
LEMMA OtherClients ==
  ASSUME ServiceInv, UNCHANGED <<clientVars, c2s, s2c>>,
         \A c \in Clients : link'[c] = "fin" => link[c] = "fin"
  PROVE  \A c \in Clients : OfClient(c)'
BY InvOfClient DEF OfClient, Away, clientVars

\* A read of a session takes k bytes from the stream of its client.
LEMMA SessionReads ==
  ASSUME IInv, ServiceInv, NEW p \in pending, p.kind = "read",
         NEW k \in Nat \ {0}, k <= Len(c2s[peer[p.h]]), Consumed(p, k),
         UNCHANGED <<clientVars, link>>,
         \A c \in Clients \ {peer[p.h]} : s2c'[c] = s2c[c]
  PROVE  /\ \A c \in Clients : OfClient(c)'
         /\ Received(p, k) \in [1..Cap -> Cells]
         /\ ~Away(peer[p.h]) => ~InBuffer(Received(p, k))
<1> DEFINE c == peer[p.h]
<1>1. /\ c \in Clients /\ p.h \in Handlers /\ p.off \in Nat /\ c # NoClient
      /\ c2s \in [Clients -> Seq(Cells)] /\ m_recv_buffer[p.h] \in [1..Cap -> Cells]
      /\ c2s[c] \in Seq(Cells)
  BY SessionPeer, ServerAssumption, CapBounds DEF Ops, IInv, TypeOK, TcpTypeOK, ServerTypeOK
<1>2. /\ c2s' = [c2s EXCEPT ![c] = Rest(c2s[c], k)]
      /\ c2s[c] # <<>> /\ pc[c] \notin {"start", "send"}
  BY <1>1 DEF Consumed, ServiceInv, Unasked
<1>3. ~Away(c) => ~InStream(Taken(c2s[c], k)) /\ ~InStream(Rest(c2s[c], k))
  BY <1>1, SplitCells DEF ServiceInv, Farewell
<1>4. \A d \in Clients : OfClient(d)'
  BY <1>1, <1>2, <1>3, InvOfClient DEF OfClient, Away, clientVars
<1>5. Taken(c2s[c], k) \in Seq(Cells)
  BY <1>1, SplitType
<1>6. Received(p, k) \in [1..Cap -> Cells]
  BY <1>1, <1>5, StoredType DEF Received
<1>7. ASSUME ~Away(c) PROVE ~InBuffer(Received(p, k))
  <2>1. ~InBuffer(m_recv_buffer[p.h]) /\ ~InStream(Taken(c2s[c], k))
    BY <1>1, <1>3, <1>7 DEF ServiceInv, Farewell
  <2> QED
    BY <1>1, <1>5, <2>1, StoredCells DEF Received
<1> QED
  BY <1>4, <1>6, <1>7

\* What a step of a session on its own buffer and with its own operation leaves of the
\* invariant.
LEMMA OwnSession ==
  ASSUME IInv, ServiceInv, NEW p \in pending, p.kind # "accept",
         \A c \in Clients : OfClient(c)',
         UNCHANGED <<clientVars, peer, link>>,
         NEW new, Completed(p, new),
         \A q \in new : /\ q.kind = "read" => q.want > 0
                        /\ q.kind = "writefail" => q.h = p.h /\ link[peer[p.h]] = "reset",
         \/ UNCHANGED m_recv_buffer
         \/ \E buf : /\ m_recv_buffer' = [m_recv_buffer EXCEPT ![p.h] = buf]
                     /\ ~Away(peer[p.h]) => ~InBuffer(buf)
  PROVE  ServiceInv'
<1>1. /\ p.h \in Handlers /\ peer[p.h] \in Clients /\ peer[p.h] # NoClient
      /\ m_recv_buffer \in [Handlers -> [1..Cap -> Cells]]
  BY SessionPeer, ServerAssumption DEF IInv, TypeOK, ServerTypeOK
<1>2. Underway'
  BY DEF Completed, Underway, ServiceInv
<1>3. OwnPeer'
  BY DEF OwnPeer, ServiceInv
<1>4. \A h \in Handlers : peer'[h] = NoClient \/ ~Away(peer[h])' => ~InBuffer(m_recv_buffer[h])'
  <2> SUFFICES ASSUME NEW h \in Handlers, peer[h] = NoClient \/ ~Away(peer[h])
               PROVE  ~InBuffer(m_recv_buffer'[h])
    BY DEF clientVars, Away, InBuffer
  <2>1. ~InBuffer(m_recv_buffer[h])
    BY DEF ServiceInv, Farewell
  <2> QED
    BY <1>1, <2>1
<1> QED
  BY <1>2, <1>3, <1>4, PrimedInv

LEMMA ReadSession ==
  ASSUME IInv, ServiceInv, NEW p \in pending, p.kind # "accept",
         \A c \in Clients : OfClient(c)',
         UNCHANGED <<clientVars, peer, link>>,
         NEW buf, m_recv_buffer' = [m_recv_buffer EXCEPT ![p.h] = buf],
         ~Away(peer[p.h]) => ~InBuffer(buf),
         NEW q, Completed(p, {q}) \/ Completed(p, {}),
         q.kind = "read" => q.want > 0,
         q.kind = "writefail" => q.h = p.h /\ link[peer[p.h]] = "reset"
  PROVE  ServiceInv'
<1>1. PICK new \in {{q}, {}} : Completed(p, new)
  OBVIOUS
<1>2. \A r \in new : /\ r.kind = "read" => r.want > 0
                     /\ r.kind = "writefail" => r.h = p.h /\ link[peer[p.h]] = "reset"
  OBVIOUS
<1> QED
  BY <1>1, <1>2, OwnSession

\* session_handler::close starts nothing.
LEMMA ClosedSession ==
  ASSUME IInv, ServiceInv, NEW p \in pending, p.kind # "accept", Close(p),
         \A c \in Clients : OfClient(c)',
         UNCHANGED <<clientVars, peer, link>>,
         \/ UNCHANGED m_recv_buffer
         \/ \E buf : /\ m_recv_buffer' = [m_recv_buffer EXCEPT ![p.h] = buf]
                     /\ ~Away(peer[p.h]) => ~InBuffer(buf)
  PROVE  ServiceInv'
<1>1. Completed(p, {})
  BY DEF Close, Thrown
<1> QED
  BY <1>1, OwnSession

\* A step that moves no byte and starts nothing.
LEMMA Quiet ==
  ASSUME ServiceInv, \A c \in Clients : OfClient(c)', pending' \subseteq pending,
         UNCHANGED <<clientVars, peer, link, m_recv_buffer>>
  PROVE  ServiceInv'
<1>1. Underway' /\ OwnPeer'
  BY DEF Underway, OwnPeer, ServiceInv
<1>2. \A h \in Handlers : peer'[h] = NoClient \/ ~Away(peer[h])' => ~InBuffer(m_recv_buffer[h])'
  BY DEF ServiceInv, Farewell, InBuffer, Away, clientVars
<1> QED
  BY <1>1, <1>2, PrimedInv

\* The completions of the operations.
LEMMA OpKeeps ==
  ASSUME IInv, ServiceInv, NEW p \in pending, OpStep(p), UNCHANGED clientVars
  PROVE  ServiceInv'
<1>t. /\ p \in Ops /\ p.h \in Handlers /\ p.want \in Nat /\ hstate[p.h] # "none"
      /\ m_recv_buffer \in [Handlers -> [1..Cap -> Cells]]
      /\ peer \in [Handlers -> Clients \cup {NoClient}] /\ NoClient \notin Clients
      /\ p.kind = "accept" => peer[p.h] = NoClient
      /\ p.kind = "read" => p.want \in Nat \ {0}
  BY SessionPeer, ServerAssumption, CapBounds
  DEF Ops, IInv, TypeOK, ServerTypeOK, OneOperation, PeerInv, ServiceInv, Underway
<1>1. ASSUME NEW n \in Handlers, NEW c \in Clients, HandleAccept(p, n, c) PROVE ServiceInv'
  <2>1. /\ peer' = [peer EXCEPT ![p.h] = c] /\ \A h \in Handlers : peer[h] # c
        /\ m_recv_buffer' = [m_recv_buffer EXCEPT ![p.h] = Resized(m_recv_buffer[p.h], HLen)]
        /\ Completed(p, {HeadRead(p.h), AcceptOp(n)}) /\ UNCHANGED tcpVars /\ p.kind = "accept"
    BY <1>1 DEF HandleAccept, Backlog, NextAccept
  <2>2. \A d \in Clients : OfClient(d)'
    BY <2>1, OtherClients DEF tcpVars
  <2>3. Underway'
    <3>1. \A q \in pending \ {p} : peer'[q.h] = peer[q.h]
      BY <1>t, <2>1, SessionPeer DEF IInv, OneOperation
    <3>2. /\ HeadRead(p.h).kind = "read" /\ HeadRead(p.h).want = HLen
          /\ AcceptOp(n).kind = "accept"
      BY DEF HeadRead, AcceptOp, Op
    <3> QED
      BY <2>1, <3>1, <3>2, CellFacts DEF Completed, Underway, ServiceInv, tcpVars
  <2>4. OwnPeer'
    BY <1>t, <2>1 DEF OwnPeer, ServiceInv
  <2>5. ~InBuffer(Resized(m_recv_buffer[p.h], HLen))
    BY <1>t, <2>1, ResizedCells, CellFacts DEF ServiceInv, Farewell
  <2>6. \A h \in Handlers : peer'[h] = NoClient \/ ~Away(peer[h])' => ~InBuffer(m_recv_buffer[h])'
    <3> SUFFICES ASSUME NEW h \in Handlers, peer'[h] = NoClient \/ ~Away(peer'[h])
                 PROVE  ~InBuffer(m_recv_buffer'[h])
      BY DEF clientVars, Away, InBuffer
    <3>1. CASE h = p.h
      BY <1>t, <2>1, <2>5, <3>1
    <3>2. CASE h # p.h
      BY <1>t, <2>1, <3>2 DEF ServiceInv, Farewell
    <3> QED
      BY <3>1, <3>2
  <2> QED
    BY <2>2, <2>3, <2>4, <2>6, PrimedInv
<1>2. ASSUME NEW c \in Clients, HandleAcceptThrows(p, c) PROVE ServiceInv'
  <2>1. /\ peer' = [peer EXCEPT ![p.h] = c] /\ \A h \in Handlers : peer[h] # c
        /\ Completed(p, {}) /\ UNCHANGED <<tcpVars, m_recv_buffer>> /\ p.kind = "accept"
    BY <1>2 DEF HandleAcceptThrows, Backlog, Thrown
  <2>2. \A d \in Clients : OfClient(d)'
    BY <2>1, OtherClients DEF tcpVars
  <2>3. Underway'
    <3>1. \A q \in pending \ {p} : peer'[q.h] = peer[q.h]
      BY <1>t, <2>1, SessionPeer DEF IInv, OneOperation
    <3> QED
      BY <2>1, <3>1 DEF Completed, Underway, ServiceInv, tcpVars
  <2>4. OwnPeer'
    BY <1>t, <2>1 DEF OwnPeer, ServiceInv
  <2>5. \A h \in Handlers : peer'[h] = NoClient \/ ~Away(peer[h])' => ~InBuffer(m_recv_buffer[h])'
    <3> SUFFICES ASSUME NEW h \in Handlers, peer'[h] = NoClient \/ ~Away(peer'[h])
                 PROVE  ~InBuffer(m_recv_buffer[h])
      BY <2>1 DEF clientVars, Away, InBuffer
    <3> QED
      BY <1>t, <2>1 DEF ServiceInv, Farewell
  <2> QED
    BY <2>2, <2>3, <2>4, <2>5, PrimedInv
<1>3. CASE HandleAcceptError(p)
  <2>1. Completed(p, {}) /\ UNCHANGED <<tcpVars, m_recv_buffer, peer>>
    BY <1>3 DEF HandleAcceptError
  <2>2. \A d \in Clients : OfClient(d)'
    BY <2>1, OtherClients DEF tcpVars
  <2>3. pending' \subseteq pending
    BY <2>1 DEF Completed
  <2> QED
    BY <2>1, <2>2, <2>3, Quiet DEF tcpVars
<1>4. ASSUME NEW k \in 1..Cap, HandleReadPartial(p, k) PROVE ServiceInv'
  <2>1. /\ p.kind = "read" /\ k \in Nat \ {0} /\ k <= Len(c2s[peer[p.h]]) /\ k < p.want
        /\ Consumed(p, k) /\ UNCHANGED <<peer, link, s2c>>
        /\ m_recv_buffer' = [m_recv_buffer EXCEPT ![p.h] = Received(p, k)]
        /\ Completed(p, {Op(p.h, "read", NextOffset(p, k), Remaining(p, k), p.piece + 1, p.part)})
    BY <1>4, CapBounds DEF HandleReadPartial
  <2>2. (\A c \in Clients : OfClient(c)') /\ (~Away(peer[p.h]) => ~InBuffer(Received(p, k)))
    BY <2>1, SessionReads
  <2> DEFINE q == Op(p.h, "read", NextOffset(p, k), Remaining(p, k), p.piece + 1, p.part)
  <2>3. q.kind = "read" /\ q.want > 0
    BY <1>t, <2>1 DEF Op, Remaining
  <2> HIDE DEF q
  <2> QED
    BY <2>1, <2>2, <2>3, ReadSession DEF q
<1>5. ASSUME FullRead(p), Consumed(p, p.want), UNCHANGED <<link, peer>>,
             \A c \in Clients \ {peer[p.h]} : s2c'[c] = s2c[c]
      PROVE  /\ \A c \in Clients : OfClient(c)'
             /\ Received(p, p.want) \in [1..Cap -> Cells]
             /\ ~Away(peer[p.h]) => ~InBuffer(Received(p, p.want))
             /\ p.kind # "accept"
  <2>1. p.kind = "read" /\ p.want <= Len(c2s[peer[p.h]])
    BY <1>t, <1>5, SessionPeer DEF FullRead, IInv, TypeOK, TcpTypeOK
  <2> QED
    BY <1>t, <1>5, <2>1, SessionReads
<1>6. ASSUME NEW m \in Messages, HandlePacketHeader(p, m) PROVE ServiceInv'
  <2>1. /\ FullRead(p) /\ Consumed(p, p.want) /\ UNCHANGED <<link, peer, s2c>>
        /\ m_recv_buffer' = [m_recv_buffer EXCEPT ![p.h] = Resized(Received(p, p.want), BLen[m])]
        /\ Completed(p, {BodyRead(p.h, m)})
    BY <1>6 DEF HandlePacketHeader
  <2>2. ~Away(peer[p.h]) => ~InBuffer(Resized(Received(p, p.want), BLen[m]))
    BY <1>5, <2>1, ResizedCells, CellFacts
  <2>3. BodyRead(p.h, m).kind = "read" /\ BodyRead(p.h, m).want > 0
    BY CellFacts DEF BodyRead, Op
  <2> QED
    BY <1>5, <2>1, <2>2, <2>3, ReadSession
<1>7. CASE MsgConnect(p)
  <2>1. /\ FullRead(p) /\ Consumed(p, p.want) /\ UNCHANGED <<link, peer>>
        /\ m_recv_buffer' = [m_recv_buffer EXCEPT ![p.h] = Received(p, p.want)]
        /\ s2c' = s2c \/ s2c' = [s2c EXCEPT ![peer[p.h]] = @ \o Frame("CONNECT_RESP")]
        /\ Completed(p, {WriteOp(p.h, link[peer[p.h]] # "reset")})
    BY <1>7 DEF MsgConnect, Answering
  <2>2. \A c \in Clients \ {peer[p.h]} : s2c'[c] = s2c[c]
    BY <2>1 DEF IInv, TypeOK, TcpTypeOK
  <2> DEFINE q == WriteOp(p.h, link[peer[p.h]] # "reset")
  <2>3. /\ q.kind = "read" => q.want > 0
        /\ q.kind = "writefail" => q.h = p.h /\ link[peer[p.h]] = "reset"
    BY DEF WriteOp, Op
  <2> HIDE DEF q
  <2> QED
    BY <1>5, <2>1, <2>2, <2>3, ReadSession DEF q
<1>8. CASE MsgDisconnect(p)
  <2>1. /\ FullRead(p) /\ Consumed(p, p.want) /\ UNCHANGED <<link, peer, s2c>> /\ Close(p)
        /\ m_recv_buffer' = [m_recv_buffer EXCEPT ![p.h] = Received(p, p.want)]
    BY <1>8 DEF MsgDisconnect
  <2> QED
    BY <1>5, <2>1, ClosedSession
<1>9. CASE UnknownMark(p) \/ BadHeader(p) \/ BadBody(p)
  <2>1. /\ FullRead(p) /\ Consumed(p, p.want) /\ UNCHANGED <<link, peer, s2c>> /\ Completed(p, {})
        /\ m_recv_buffer' = [m_recv_buffer EXCEPT ![p.h] = Received(p, p.want)]
    BY <1>9 DEF UnknownMark, BadHeader, BadBody, Abandoned
  <2>2. HeadRead(p.h).kind = "read" /\ HeadRead(p.h).want > 0
    BY CellFacts DEF HeadRead, Op
  <2> QED
    BY <1>5, <2>1, <2>2, ReadSession
<1>10. CASE BodyUnderflow(p)
  <2>1. /\ FullRead(p) /\ Consumed(p, p.want) /\ UNCHANGED <<sessionVars, s2c>> /\ SocketsClosed
    BY <1>10 DEF BodyUnderflow
  <2>2. p.kind = "read" /\ p.want <= Len(c2s[peer[p.h]])
    BY <1>t, <2>1, SessionPeer DEF FullRead, IInv, TypeOK, TcpTypeOK
  <2>3. \A c \in Clients : OfClient(c)'
    <3>1. peer[p.h] \in Clients /\ c2s \in [Clients -> Seq(Cells)] /\ c2s[peer[p.h]] \in Seq(Cells)
      BY <2>2, SessionPeer DEF IInv, TypeOK, TcpTypeOK
    <3>2. ~InStream(c2s[peer[p.h]]) => ~InStream(Rest(c2s[peer[p.h]], p.want))
      BY <1>t, <2>2, <3>1, SplitCells
    <3>3. /\ c2s' = [c2s EXCEPT ![peer[p.h]] = Rest(c2s[peer[p.h]], p.want)]
          /\ pc[peer[p.h]] \notin {"start", "send"}
      BY <1>t, <2>1, <2>2, <3>1 DEF Consumed, ServiceInv, Unasked
    <3>4. \A c \in Clients : link'[c] = "fin" => link[c] = "fin"
      BY <2>1 DEF SocketsClosed
    <3> QED
      BY <2>1, <3>1, <3>2, <3>3, <3>4, InvOfClient DEF OfClient, Away, clientVars
  <2>4. Underway'
    BY <2>1 DEF SocketsClosed, Underway
  <2> QED
    BY <2>1, <2>3, <2>4, PrimedInv DEF sessionVars, ServiceInv, OwnPeer, Farewell, InBuffer, Away, clientVars
<1>11. CASE HandleReadError(p) \/ HandleWriteError(p)
  <2>1. Close(p) /\ UNCHANGED <<peer, m_recv_buffer, link, c2s, s2c>> /\ p.kind # "accept"
    BY <1>11 DEF HandleReadError, HandleWriteError
  <2>2. \A d \in Clients : OfClient(d)'
    BY <2>1, OtherClients
  <2> QED
    BY <2>1, <2>2, ClosedSession
<1>12. CASE HandleWrite(p)
  <2>1. /\ Completed(p, {HeadRead(p.h)}) /\ UNCHANGED <<sessionVars, tcpVars>> /\ p.kind # "accept"
    BY <1>12 DEF HandleWrite
  <2>2. \A d \in Clients : OfClient(d)'
    BY <2>1, OtherClients DEF tcpVars
  <2>3. HeadRead(p.h).kind = "read" /\ HeadRead(p.h).want > 0
    BY CellFacts DEF HeadRead, Op
  <2> QED
    BY <2>1, <2>2, <2>3, OwnSession DEF sessionVars, tcpVars
<1> QED
  BY <1>1, <1>2, <1>3, <1>4, <1>6, <1>7, <1>8, <1>9, <1>10, <1>11, <1>12 DEF OpStep

\* The steps of the threads, and the stop.
LEMMA ThreadKeeps ==
  ASSUME IInv, ServiceInv, ThreadStep \/ Stop, UNCHANGED clientVars
  PROVE  ServiceInv'
<1>1. ASSUME NEW n \in Handlers, AcceptorStart(n) PROVE ServiceInv'
  <2>1. pending' = {AcceptOp(n)} /\ AcceptOp(n).kind = "accept"
    BY <1>1 DEF AcceptorStart, NextAccept, AcceptOp, Op
  <2>2. Underway'
    BY <2>1 DEF Underway
  <2>3. UNCHANGED <<peer, m_recv_buffer, tcpVars>>
    BY <1>1 DEF AcceptorStart
  <2>4. \A d \in Clients : OfClient(d)'
    BY <2>3, OtherClients DEF tcpVars
  <2> QED
    BY <2>2, <2>3, <2>4, PrimedInv
    DEF ServiceInv, OwnPeer, Farewell, InBuffer, Away, clientVars
<1>2. CASE RunReturns \/ Stop
  <2>1. UNCHANGED <<sessionVars, pending, tcpVars>>
    BY <1>2 DEF RunReturns, Stop
  <2>2. \A d \in Clients : OfClient(d)'
    BY <2>1, OtherClients DEF tcpVars
  <2> QED
    BY <2>1, <2>2, Quiet DEF sessionVars, tcpVars
<1>3. CASE ServerExit
  <2>1. SocketsClosed /\ UNCHANGED <<sessionVars, c2s, s2c>>
    BY <1>3 DEF ServerExit
  <2>2. \A d \in Clients : OfClient(d)'
    BY <2>1, OtherClients DEF SocketsClosed
  <2>3. Underway'
    BY <2>1 DEF SocketsClosed, Underway
  <2> QED
    BY <2>1, <2>2, <2>3, PrimedInv
    DEF ServiceInv, OwnPeer, Farewell, InBuffer, Away, clientVars, sessionVars
<1> QED
  BY <1>1, <1>2, <1>3 DEF ThreadStep

LEMMA LinkKeeps ==
  ASSUME IInv, ServiceInv, NEW c \in Clients, PeerReset(c) \/ LinkLost(c),
         UNCHANGED <<serverVars, clientVars>>
  PROVE  ServiceInv'
<1>1. /\ link' = [link EXCEPT ![c] = "reset"] /\ c2s' = c2s
      /\ s2c' = s2c \/ s2c' = [s2c EXCEPT ![c] = <<>>]
  BY DEF PeerReset, LinkLost
<1>2. /\ link \in [Clients -> {"none", "up", "fin", "reset"}] /\ s2c \in [Clients -> Seq(Cells)]
      /\ NoClient \notin Clients /\ \A h \in Handlers : peer[h] \in Clients \cup {NoClient}
      /\ \A p \in pending : p.kind = "writefail" => peer[p.h] \in Clients
  BY SessionPeer, ServerAssumption DEF IInv, TypeOK, TcpTypeOK, ServerTypeOK
<1>3. OfClient(c)'
  BY <1>1, <1>2, InvOfClient DEF OfClient, Away, clientVars
<1> QED
  BY <1>1, <1>2, <1>3, OneClient DEF clientVars, Away

LEMMA NextKeeps == IInv /\ Uncalled /\ ServiceInv /\ [Next]_vars => ServiceInv'
<1> SUFFICES ASSUME IInv, Uncalled, ServiceInv, [Next]_vars PROVE ServiceInv'
  OBVIOUS
<1>1. CASE ServerStep /\ UNCHANGED clientVars
  BY <1>1, OpKeeps, ThreadKeeps DEF ServerStep, HandlerStep
<1>2. ASSUME NEW c \in Clients, ClientStep(c, Listening) \/ Killed(c), UNCHANGED serverVars
      PROVE  ServiceInv'
  BY <1>2, ClientKeeps
<1>3. ASSUME NEW c \in Clients, PeerReset(c) \/ LinkLost(c), UNCHANGED <<serverVars, clientVars>>
      PROVE  ServiceInv'
  BY <1>3, LinkKeeps
<1>4. CASE UNCHANGED vars
  BY <1>4 DEF vars, tcpVars, serverVars, clientVars, ServiceInv, Unasked, Reading, Ended,
              Underway, OwnPeer, Farewell, InStream, InBuffer, Away
<1> QED
  BY <1>1, <1>2, <1>3, <1>4 DEF Next

LEMMA ServiceInvariance == Spec => [](IInv /\ ServiceInv)
<1>1. Init => IInv /\ Uncalled /\ ServiceInv
  <2>1. Init => Uncalled
    BY DEF Init, TcpInit, ClientInit, Uncalled
  <2> QED
    BY <2>1, InitIInv, InitService
<1>2. IInv /\ Uncalled /\ ServiceInv /\ [Next]_vars => Uncalled' /\ ServiceInv'
  BY NextUncalled, NextKeeps
<1>3. Spec => []IInv
  BY Invariance
<1> QED
  BY <1>1, <1>2, <1>3, PTL DEF Spec

-----------------------------------------------------------------------------
(***************************************************************************)
(* Steps of the service                                                    *)
(***************************************************************************)
Maps == [Service!Next]_(Service!vars)

\* A step of one client: it asks, learns that it was granted, leaves, or does what the
\* service does not see.
LEMMA ClientMaps ==
  ASSUME NEW c \in Clients,
         \A d \in Clients \ {c} : PhaseOf(d)' = PhaseOf(d),
         \A d \in Clients : SessionOf(d)' = SessionOf(d),
         Listening' = Listening,
         \/ PhaseOf(c)' = PhaseOf(c)
         \/ PhaseOf(c) = "idle" /\ PhaseOf(c)' = "asked"
         \/ PhaseOf(c) = "granted" /\ PhaseOf(c)' = "ok"
         \/ PhaseOf(c)' = "left"
  PROVE  Maps
<1> DEFINE phase   == [d \in Clients |-> PhaseOf(d)]
           session == [d \in Clients |-> SessionOf(d)]
<1>1. session' = session
  OBVIOUS
<1>2. phase' = [phase EXCEPT ![c] = PhaseOf(c)']
  OBVIOUS
<1>3. phase[c] = PhaseOf(c)
  OBVIOUS
<1>4. CASE PhaseOf(c)' = PhaseOf(c)
  <2>1. phase' = phase
    BY <1>4
  <2> QED
    BY <1>1, <2>1 DEF Maps, Service!vars
<1>5. CASE PhaseOf(c) = "idle" /\ PhaseOf(c)' = "asked"
  <2>1. Service!Ask(c)
    BY <1>1, <1>2, <1>3, <1>5 DEF Service!Ask
  <2> QED
    BY <2>1 DEF Maps, Service!Next
<1>6. CASE PhaseOf(c) = "granted" /\ PhaseOf(c)' = "ok"
  <2>1. Service!Learn(c)
    BY <1>1, <1>2, <1>3, <1>6 DEF Service!Learn
  <2> QED
    BY <2>1 DEF Maps, Service!Next
<1>7. CASE PhaseOf(c)' = "left" /\ PhaseOf(c) # "left"
  <2>1. Service!Leave(c)
    BY <1>1, <1>2, <1>3, <1>7 DEF Service!Leave
  <2> QED
    BY <2>1 DEF Maps, Service!Next
<1> QED
  BY <1>4, <1>5, <1>6, <1>7

\* A step of the server for one client: a session is opened, a request granted, or the
\* session of a client that has left is released.
LEMMA SessionMaps ==
  ASSUME NEW c \in Clients,
         \A d \in Clients : PhaseOf(d)' = PhaseOf(d),
         \A d \in Clients \ {c} : SessionOf(d)' = SessionOf(d),
         Listening, Listening',
         \/ SessionOf(c)' = SessionOf(c)
         \/ SessionOf(c) = "none" /\ SessionOf(c)' = "open"
         \/ SessionOf(c) = "open" /\ SessionOf(c)' = "closed" /\ PhaseOf(c) = "left"
  PROVE  Maps
<1> DEFINE phase   == [d \in Clients |-> PhaseOf(d)]
           session == [d \in Clients |-> SessionOf(d)]
<1>1. phase' = phase
  OBVIOUS
<1>2. session' = [session EXCEPT ![c] = SessionOf(c)']
  OBVIOUS
<1>3. phase[c] = PhaseOf(c) /\ session[c] = SessionOf(c)
  OBVIOUS
<1>4. CASE SessionOf(c)' = SessionOf(c)
  <2>1. session' = session
    BY <1>4
  <2> QED
    BY <1>1, <2>1 DEF Maps, Service!vars
<1>5. CASE SessionOf(c) = "none" /\ SessionOf(c)' = "open"
  <2>1. Service!Open(c)
    BY <1>1, <1>2, <1>3, <1>5 DEF Service!Open
  <2> QED
    BY <2>1 DEF Maps, Service!Next
<1>6. CASE SessionOf(c) = "open" /\ SessionOf(c)' = "closed" /\ PhaseOf(c) = "left"
  <2>1. Service!Release(c)
    BY <1>1, <1>2, <1>3, <1>6 DEF Service!Release
  <2> QED
    BY <2>1 DEF Maps, Service!Next
<1> QED
  BY <1>4, <1>5, <1>6

LEMMA GrantMaps ==
  ASSUME NEW c \in Clients,
         \A d \in Clients \ {c} : PhaseOf(d)' = PhaseOf(d),
         \A d \in Clients : SessionOf(d)' = SessionOf(d),
         Listening, Listening',
         \/ PhaseOf(c)' = PhaseOf(c)
         \/ PhaseOf(c) = "asked" /\ PhaseOf(c)' = "granted" /\ SessionOf(c) = "open"
  PROVE  Maps
<1> DEFINE phase   == [d \in Clients |-> PhaseOf(d)]
           session == [d \in Clients |-> SessionOf(d)]
<1>1. session' = session
  OBVIOUS
<1>2. phase' = [phase EXCEPT ![c] = PhaseOf(c)']
  OBVIOUS
<1>3. phase[c] = PhaseOf(c) /\ session[c] = SessionOf(c)
  OBVIOUS
<1>4. CASE PhaseOf(c)' = PhaseOf(c)
  <2>1. phase' = phase
    BY <1>4
  <2> QED
    BY <1>1, <2>1 DEF Maps, Service!vars
<1>5. CASE PhaseOf(c) = "asked" /\ PhaseOf(c)' = "granted" /\ SessionOf(c) = "open"
  <2>1. Service!Grant(c)
    BY <1>1, <1>2, <1>3, <1>5 DEF Service!Grant
  <2> QED
    BY <2>1 DEF Maps, Service!Next
<1> QED
  BY <1>4, <1>5

\* The server ends, or a step that the service does not see.
LEMMA EndMaps ==
  ASSUME \A d \in Clients : PhaseOf(d)' = PhaseOf(d),
         \A d \in Clients : SessionOf(d)' = SessionOf(d),
         Listening' => Listening
  PROVE  Maps
<1> DEFINE phase   == [d \in Clients |-> PhaseOf(d)]
           session == [d \in Clients |-> SessionOf(d)]
<1>1. phase' = phase /\ session' = session
  OBVIOUS
<1>2. CASE Listening /\ ~Listening'
  <2>1. Service!End
    BY <1>1, <1>2 DEF Service!End
  <2> QED
    BY <2>1 DEF Maps, Service!Next
<1>3. CASE Listening' = Listening
  BY <1>1, <1>3 DEF Maps, Service!vars
<1> QED
  BY <1>2, <1>3 DEF Listening

-----------------------------------------------------------------------------
(***************************************************************************)
(* What a step does to the phase and to the session of a client            *)
(***************************************************************************)
LEMMA SamePhase ==
  ASSUME NEW c, pc'[c] = pc[c], next'[c] = next[c], s2c'[c] = <<>> <=> s2c[c] = <<>>
  PROVE  PhaseOf(c)' = PhaseOf(c)
BY DEF PhaseOf, Answered

LEMMA SameSession ==
  ASSUME NEW c, \A h \in Handlers : /\ peer[h] = c <=> peer'[h] = c
                                    /\ peer[h] = c => (hstate'[h] = "live" <=> hstate[h] = "live")
  PROVE  SessionOf(c)' = SessionOf(c)
<1> DEFINE Known  == \E h \in Handlers : peer[h] = c
           Opened == \E h \in Handlers : peer[h] = c /\ hstate[h] = "live"
<1>1. (Known' <=> Known) /\ (Opened' <=> Opened)
  OBVIOUS
<1>2. SessionOf(c) = IF Opened THEN "open" ELSE IF Known THEN "closed" ELSE "none"
  BY DEF SessionOf
<1>3. SessionOf(c)' = IF Opened' THEN "open" ELSE IF Known' THEN "closed" ELSE "none"
  BY DEF SessionOf
<1> HIDE DEF Known, Opened
<1> QED
  BY <1>1, <1>2, <1>3

LEMMA ClientStepMaps ==
  ASSUME IInv, ServiceInv, NEW c \in Clients,
         ClientStep(c, Listening) \/ Killed(c), UNCHANGED serverVars
  PROVE  Maps
<1>t. /\ s2c \in [Clients -> Seq(Cells)] /\ next \in [Clients -> 0..Cap] /\ Cap \in Nat
      /\ pc \in [Clients -> {"start", "send", "head", "body", "disconnect", "exit", "gone"}]
  BY CapBounds DEF IInv, TypeOK, TcpTypeOK, ClientTypeOK
<1>1. (\A d \in Clients : SessionOf(d)' = SessionOf(d)) /\ Listening' = Listening
  BY SameSession DEF serverVars, Listening
<1> DEFINE Others == /\ \A d \in Clients \ {c} : pc'[d] = pc[d] /\ next'[d] = next[d]
                                                 /\ s2c'[d] = s2c[d]
           Goes == \/ PhaseOf(c)' = PhaseOf(c)
                   \/ PhaseOf(c) = "idle" /\ PhaseOf(c)' = "asked"
                   \/ PhaseOf(c) = "granted" /\ PhaseOf(c)' = "ok"
                   \/ PhaseOf(c)' = "left"
<1>q. Others /\ Goes => Maps
  <2> SUFFICES ASSUME Others, Goes PROVE Maps
    OBVIOUS
  <2>1. \A d \in Clients \ {c} : PhaseOf(d)' = PhaseOf(d)
    BY SamePhase
  <2> HIDE DEF Others
  <2> QED
    BY <1>1, <2>1, ClientMaps
<1>2. CASE Connect(c, Listening)
  <2>1. /\ UNCHANGED <<next, s2c>> /\ pc[c] = "start"
        /\ pc' = [pc EXCEPT ![c] = "send"] \/ pc' = [pc EXCEPT ![c] = "exit"]
    BY <1>2 DEF Connect, Returned
  <2>2. Others /\ Goes
    BY <1>t, <2>1 DEF PhaseOf
  <2> QED
    BY <1>q, <2>2
<1>3. CASE SendConnect(c)
  <2>1. /\ pc' = [pc EXCEPT ![c] = "head"] /\ next' = [next EXCEPT ![c] = HLen] /\ s2c' = s2c
        /\ pc[c] = "send"
    BY <1>3 DEF SendConnect, Awaits
  <2>2. s2c[c] = <<>>
    BY <2>1 DEF ServiceInv, Unasked
  <2>3. Others /\ Goes
    BY <1>t, <2>1, <2>2, CellFacts DEF PhaseOf, Answered
  <2> QED
    BY <1>q, <2>3
<1>4. CASE SendConnectFails(c) \/ Disconnect(c)
  <2>1. pc' = [pc EXCEPT ![c] = "exit"] /\ UNCHANGED <<next, s2c>>
    BY <1>4 DEF SendConnectFails, Disconnect, Returned
  <2>2. Others /\ Goes
    BY <1>t, <2>1 DEF PhaseOf
  <2> QED
    BY <1>q, <2>2
<1>5. ASSUME NEW k \in 1..Cap, RecvPiece(c, k) PROVE Maps
  <2>1. /\ s2c' = [s2c EXCEPT ![c] = Rest(@, k)] /\ pc' = pc /\ k <= Len(s2c[c])
        /\ next' = [next EXCEPT ![c] = @ - k] /\ k < next[c] /\ pc[c] \in {"head", "body"}
    BY <1>5 DEF RecvPiece, ReadSome
  <2>2. s2c[c] # <<>>
    BY <1>t, <2>1
  <2>3. pc[c] = "head" => next[c] <= HLen /\ next'[c] < HLen
    BY <1>t, <2>1, CellFacts DEF ServiceInv, Reading
  <2>4. PhaseOf(c) = "granted" /\ PhaseOf(c)' = "granted"
    BY <1>t, <2>1, <2>2, <2>3 DEF PhaseOf, Answered
  <2>5. Others
    BY <1>t, <2>1
  <2> QED
    BY <1>q, <2>4, <2>5
<1>6. CASE RecvHeader(c)
  <2>1. /\ s2c' = [s2c EXCEPT ![c] = Rest(@, next[c])] /\ pc[c] = "head" /\ next[c] <= Len(s2c[c])
        /\ \/ /\ pc' = [pc EXCEPT ![c] = "body"]
              /\ next' = [next EXCEPT ![c] = BLen["CONNECT_RESP"]]
           \/ pc' = [pc EXCEPT ![c] = "exit"] /\ next' = next
    BY <1>6 DEF RecvHeader, ReadSome, Awaits, Returned
  <2>2. next[c] > 0
    BY <2>1 DEF ServiceInv, Reading
  <2>3. s2c[c] # <<>>
    BY <1>t, <2>1, <2>2
  <2>4. PhaseOf(c) = "granted" /\ PhaseOf(c)' \in {"granted", "left"}
    BY <1>t, <2>1, <2>3 DEF PhaseOf, Answered
  <2>5. Others
    BY <1>t, <2>1
  <2> QED
    BY <1>q, <2>4, <2>5
<1>7. CASE RecvBody(c)
  <2>1. /\ s2c' = [s2c EXCEPT ![c] = Rest(@, next[c])] /\ pc[c] = "body" /\ UNCHANGED next
        /\ pc' = [pc EXCEPT ![c] = "disconnect"] \/ pc' = [pc EXCEPT ![c] = "exit"]
    BY <1>7 DEF RecvBody, ReadSome, Returned
  <2>2. PhaseOf(c) = "granted" /\ PhaseOf(c)' \in {"ok", "left"}
    BY <1>t, <2>1 DEF PhaseOf, Answered
  <2>3. Others
    BY <1>t, <2>1
  <2> QED
    BY <1>q, <2>2, <2>3
<1>8. CASE RecvThrows(c) \/ Exit(c) \/ Killed(c)
  <2>1. pc' = [pc EXCEPT ![c] = "gone"] /\ UNCHANGED <<next, s2c>>
    BY <1>8 DEF RecvThrows, Exit, Killed, Returned, tcpVars
  <2>2. Others /\ Goes
    BY <1>t, <2>1 DEF PhaseOf
  <2> QED
    BY <1>q, <2>2
<1> QED
  BY <1>2, <1>3, <1>4, <1>5, <1>6, <1>7, <1>8 DEF ClientStep

\* A reset is seen by the service only through what the program does with it.
LEMMA LinkStepMaps ==
  ASSUME IInv, ServiceInv, NEW c \in Clients, PeerReset(c) \/ LinkLost(c),
         UNCHANGED <<serverVars, clientVars>>
  PROVE  Maps
<1>1. s2c \in [Clients -> Seq(Cells)]
  BY DEF IInv, TypeOK, TcpTypeOK
<1>2. \A d \in Clients \ {c} : s2c'[d] = s2c[d]
  BY <1>1 DEF PeerReset, LinkLost
<1>3. s2c'[c] = s2c[c] \/ pc[c] = "gone"
  BY <1>1 DEF PeerReset, LinkLost, ServiceInv, Ended
<1>4. \A d \in Clients : PhaseOf(d)' = PhaseOf(d)
  BY <1>2, <1>3 DEF PhaseOf, Answered, clientVars
<1>5. \A d \in Clients : SessionOf(d)' = SessionOf(d)
  BY SameSession DEF serverVars
<1>6. Listening' = Listening
  BY DEF serverVars, Listening
<1> QED
  BY <1>4, <1>5, <1>6, EndMaps

-----------------------------------------------------------------------------
(***************************************************************************)
(* Steps of the sessions                                                   *)
(***************************************************************************)
\* A handler that gets no new peer and neither comes alive nor is deleted.
LEMMA QuietSessions ==
  ASSUME UNCHANGED <<clientVars, peer, hstate>>,
         \A c \in Clients : s2c'[c] = <<>> <=> s2c[c] = <<>>,
         Listening' => Listening
  PROVE  Maps
<1>1. \A c \in Clients : PhaseOf(c)' = PhaseOf(c)
  BY SamePhase DEF clientVars
<1>2. \A c \in Clients : SessionOf(c)' = SessionOf(c)
  BY SameSession
<1> QED
  BY <1>1, <1>2, EndMaps

\* session_handler::close throws, which ends no session, or releases the session of
\* a client that has left.
LEMMA CloseMaps ==
  ASSUME IInv, ServiceInv, NEW p \in pending, p.kind # "accept", run = "running",
         Close(p), UNCHANGED <<clientVars, peer, s2c>>,
         link[peer[p.h]] = "reset" \/ Away(peer[p.h])
  PROVE  Maps
<1> DEFINE c == peer[p.h]
<1>1. /\ p.h \in Handlers /\ c \in Clients /\ c # NoClient /\ hstate[p.h] = "live"
      /\ hstate \in [Handlers -> {"none", "accepting", "live", "freed"}]
  BY SessionPeer, ServerAssumption DEF IInv, TypeOK, ServerTypeOK
<1>2. Listening /\ Listening'
  BY DEF Close, Thrown, Listening
<1>3. CASE UNCHANGED hstate
  BY <1>2, <1>3, QuietSessions
<1>4. CASE hstate' = [hstate EXCEPT ![p.h] = "freed"] /\ Away(c)
  <2>1. \A d \in Clients : PhaseOf(d)' = PhaseOf(d)
    BY SamePhase DEF clientVars
  <2>2. \A d \in Clients \ {c} : SessionOf(d)' = SessionOf(d)
    BY <1>1, <1>4, SameSession
  <2>3. SessionOf(c) = "open"
    <3>1. \E h \in Handlers : peer[h] = c /\ hstate[h] = "live"
      BY <1>1
    <3> QED
      BY <3>1 DEF SessionOf
  <2>4. \A h \in Handlers : peer[h] = c => h = p.h
    BY <1>1 DEF ServiceInv, OwnPeer
  <2>5. SessionOf(c)' = "closed"
    <3>1. ~\E h \in Handlers : peer'[h] = c /\ hstate'[h] = "live"
      BY <1>1, <1>4, <2>4
    <3>2. \E h \in Handlers : peer'[h] = c
      BY <1>1
    <3> QED
      BY <3>1, <3>2 DEF SessionOf
  <2>6. PhaseOf(c) = "left"
    BY <1>4 DEF PhaseOf, Away
  <2> QED
    BY <1>1, <1>2, <2>1, <2>2, <2>3, <2>5, <2>6, SessionMaps
<1>5. UNCHANGED hstate \/ (hstate' = [hstate EXCEPT ![p.h] = "freed"] /\ Away(c))
  BY DEF Close, RemoteEndpointThrows
<1> QED
  BY <1>3, <1>4, <1>5

\* handle_accept opens the session of a client that had none.
LEMMA AcceptMaps ==
  ASSUME IInv, NEW p \in pending, p.kind = "accept", run = "running", Listening',
         NEW c \in Backlog, peer' = [peer EXCEPT ![p.h] = c],
         \A h \in Handlers \ {p.h} : hstate'[h] = "live" <=> hstate[h] = "live",
         hstate'[p.h] = "live", UNCHANGED <<clientVars, s2c>>
  PROVE  Maps
<1>1. /\ p.h \in Handlers /\ peer \in [Handlers -> Clients \cup {NoClient}]
      /\ peer[p.h] = NoClient /\ NoClient \notin Clients
  BY SessionPeer, ServerAssumption DEF IInv, TypeOK, ServerTypeOK, PeerInv, OneOperation
<1>2. c \in Clients /\ \A h \in Handlers : peer[h] # c
  BY DEF Backlog
<1>3. \A d \in Clients : PhaseOf(d)' = PhaseOf(d)
  BY SamePhase DEF clientVars
<1>4. \A d \in Clients \ {c} : SessionOf(d)' = SessionOf(d)
  BY <1>1, SameSession
<1>5. SessionOf(c) = "none"
  BY <1>2 DEF SessionOf
<1>6. SessionOf(c)' = "open"
  <2>1. \E h \in Handlers : peer'[h] = c /\ hstate'[h] = "live"
    BY <1>1
  <2> QED
    BY <2>1 DEF SessionOf
<1> QED
  BY <1>2, <1>3, <1>4, <1>5, <1>6, SessionMaps DEF Listening

\* msg_connect grants the request, at the first answer that reaches the stream.
LEMMA MsgConnectMaps ==
  ASSUME IInv, ServiceInv, NEW p \in pending, MsgConnect(p), UNCHANGED clientVars
  PROVE  Maps
<1>c. PICK c \in Clients : c = peer[p.h]
  BY SessionPeer DEF MsgConnect, FullRead
<1>1. /\ FullRead(p) /\ run = "running" /\ p.kind = "read" /\ UNCHANGED <<run, hstate, peer>>
      /\ s2c' = s2c \/ s2c' = [s2c EXCEPT ![c] = @ \o Frame("CONNECT_RESP")]
  BY <1>c DEF MsgConnect, FullRead, Serving
<1>2. /\ c \in Clients /\ p.h \in Handlers /\ hstate[p.h] = "live"
      /\ c2s[c] \in Seq(Cells) /\ s2c \in [Clients -> Seq(Cells)]
      /\ p.want \in Nat \ {0}
      /\ pc \in [Clients -> {"start", "send", "head", "body", "disconnect", "exit", "gone"}]
  BY <1>c, <1>1, SessionPeer, CapBounds
  DEF Ops, IInv, TypeOK, TcpTypeOK, ClientTypeOK, ServiceInv, Underway
<1>3. pc[c] \notin {"start", "send"}
  <2>1. c2s[c] # <<>>
    BY <1>c, <1>1, <1>2 DEF FullRead
  <2> QED
    BY <1>2, <2>1 DEF ServiceInv, Unasked
<1>4. Listening /\ Listening'
  BY <1>1 DEF Listening
<1>5. \A d \in Clients : SessionOf(d)' = SessionOf(d)
  BY <1>1, SameSession
<1>6. \A d \in Clients \ {c} : PhaseOf(d)' = PhaseOf(d)
  BY <1>1, <1>2, SamePhase DEF clientVars
<1>7. SessionOf(c) = "open"
  <2>1. \E h \in Handlers : peer[h] = c /\ hstate[h] = "live"
    BY <1>c, <1>2
  <2> QED
    BY <2>1 DEF SessionOf
<1>8. \/ PhaseOf(c)' = PhaseOf(c)
      \/ PhaseOf(c) = "asked" /\ PhaseOf(c)' = "granted"
  <2>1. CASE s2c' = s2c
    BY <2>1, SamePhase DEF clientVars
  <2>2. CASE s2c' = [s2c EXCEPT ![c] = @ \o Frame("CONNECT_RESP")]
    <3>1. s2c'[c] # <<>>
      <4>1. Frame("CONNECT_RESP") \in Seq(Cells)
        BY FrameType, CellFacts
      <4>2. Len(Frame("CONNECT_RESP")) > 0
        <5>1. Len(Frame("CONNECT_RESP")) = HLen + BLen["CONNECT_RESP"]
          BY FrameLength, CellFacts
        <5> QED
          BY <5>1, CellFacts
      <4>3. s2c[c] \in Seq(Cells) /\ s2c'[c] = s2c[c] \o Frame("CONNECT_RESP")
        BY <1>2, <2>2
      <4> QED
        BY <4>1, <4>2, <4>3
    <3>2. UNCHANGED <<pc, next>>
      BY DEF clientVars
    <3>3. CASE pc[c] \in {"head", "body"}
      BY <3>1, <3>2, <3>3 DEF PhaseOf, Answered
    <3>4. CASE pc[c] \in {"disconnect", "exit", "gone"}
      BY <3>2, <3>4 DEF PhaseOf
    <3> QED
      BY <1>2, <1>3, <3>3, <3>4
  <2> QED
    BY <1>1, <2>1, <2>2
<1> QED
  BY <1>2, <1>4, <1>5, <1>6, <1>7, <1>8, GrantMaps

LEMMA OpStepMaps ==
  ASSUME IInv, ServiceInv, NEW p \in pending, OpStep(p), UNCHANGED clientVars
  PROVE  Maps
<1>1. ASSUME NEW n \in Handlers, NEW c \in Clients, HandleAccept(p, n, c) PROVE Maps
  <2>1. /\ p.kind = "accept" /\ c \in Backlog /\ peer' = [peer EXCEPT ![p.h] = c]
        /\ hstate' = [hstate EXCEPT ![p.h] = "live", ![n] = "accepting"] /\ hstate[n] = "none"
        /\ run = "running" /\ run' = run /\ UNCHANGED s2c
    BY <1>1 DEF HandleAccept, Serving, tcpVars
  <2>2. hstate[p.h] = "accepting" /\ p.h \in Handlers
        /\ hstate \in [Handlers -> {"none", "accepting", "live", "freed"}]
    BY <2>1, SessionPeer DEF IInv, OneOperation, TypeOK, ServerTypeOK
  <2>3. /\ hstate'[p.h] = "live"
        /\ \A h \in Handlers \ {p.h} : hstate'[h] = "live" <=> hstate[h] = "live"
    BY <2>1, <2>2
  <2> QED
    BY <2>1, <2>3, AcceptMaps DEF Listening
<1>2. ASSUME NEW c \in Clients, HandleAcceptThrows(p, c) PROVE Maps
  <2>1. /\ p.kind = "accept" /\ c \in Backlog /\ peer' = [peer EXCEPT ![p.h] = c]
        /\ hstate' = [hstate EXCEPT ![p.h] = "live"] /\ UNCHANGED s2c
        /\ run = "running" /\ run' = "failed"
    BY <1>2 DEF HandleAcceptThrows, Thrown, Serving, tcpVars
  <2>2. /\ hstate'[p.h] = "live"
        /\ \A h \in Handlers \ {p.h} : hstate'[h] = "live" <=> hstate[h] = "live"
    BY <2>1, SessionPeer DEF IInv, TypeOK, ServerTypeOK
  <2> QED
    BY <2>1, <2>2, AcceptMaps DEF Listening
<1>3. CASE HandleAcceptError(p)
  <2>1. /\ p.kind = "accept" /\ hstate' = [hstate EXCEPT ![p.h] = "freed"]
        /\ UNCHANGED <<run, peer, s2c>>
    BY <1>3 DEF HandleAcceptError, tcpVars
  <2>2. /\ hstate[p.h] = "accepting" /\ p.h \in Handlers
        /\ hstate \in [Handlers -> {"none", "accepting", "live", "freed"}]
    BY <2>1, SessionPeer DEF IInv, OneOperation, TypeOK, ServerTypeOK
  <2>3. \A h \in Handlers : hstate'[h] = "live" <=> hstate[h] = "live"
    BY <2>1, <2>2
  <2>4. \A c \in Clients : SessionOf(c)' = SessionOf(c)
    BY <2>1, <2>3, SameSession
  <2>5. \A c \in Clients : PhaseOf(c)' = PhaseOf(c)
    BY <2>1, SamePhase DEF clientVars
  <2> QED
    BY <2>1, <2>4, <2>5, EndMaps DEF Listening
<1>4. CASE \/ \E k \in 1..Cap : HandleReadPartial(p, k)
           \/ \E m \in Messages : HandlePacketHeader(p, m)
           \/ UnknownMark(p) \/ BadHeader(p) \/ BadBody(p) \/ BodyUnderflow(p) \/ HandleWrite(p)
  <2>1. UNCHANGED <<peer, hstate, s2c>> /\ run = "running"
    BY <1>4 DEF HandleReadPartial, HandlePacketHeader, UnknownMark, BadHeader, BadBody, Abandoned,
                BodyUnderflow, HandleWrite, FullRead, Serving, sessionVars, tcpVars
  <2> QED
    BY <2>1, QuietSessions DEF Listening
<1>5. CASE MsgDisconnect(p)
  <2>1. /\ FullRead(p) /\ run = "running" /\ p.kind = "read" /\ Close(p)
        /\ Consumed(p, p.want) /\ UNCHANGED <<peer, link, s2c>>
        /\ HoldsBody(Received(p, p.want), "DISCONNECT")
    BY <1>5 DEF MsgDisconnect, FullRead, Serving
  <2>2. p.want \in Nat \ {0} /\ p.want <= Len(c2s[peer[p.h]])
    BY <2>1, SessionPeer, CapBounds
    DEF Ops, FullRead, IInv, TypeOK, TcpTypeOK, ServiceInv, Underway
  <2>3. InBuffer(Received(p, p.want))
    <3>1. BLen["DISCONNECT"] \in 1..BLen["DISCONNECT"] /\ BLen["DISCONNECT"] \in 1..Cap
      BY CellFacts, CapBounds
    <3>2. Received(p, p.want)[BLen["DISCONNECT"]] = LastCell
      BY <2>1, <3>1, CellFacts DEF HoldsBody
    <3> QED
      BY <3>1, <3>2 DEF InBuffer
  <2>4. Away(peer[p.h])
    BY <2>1, <2>2, <2>3, SessionReads
  <2> QED
    BY <2>1, <2>4, CloseMaps
<1>6. CASE HandleReadError(p)
  <2>1. /\ run = "running" /\ p.kind = "read" /\ Close(p) /\ UNCHANGED <<peer, s2c>>
        /\ link[peer[p.h]] \in {"reset", "fin"}
    BY <1>6 DEF HandleReadError, Serving
  <2>2. link[peer[p.h]] = "fin" => Away(peer[p.h])
    BY <2>1, SessionPeer DEF ServiceInv, Ended, Away
  <2> QED
    BY <2>1, <2>2, CloseMaps
<1>7. CASE HandleWriteError(p)
  <2>1. /\ run = "running" /\ p.kind = "writefail" /\ Close(p) /\ UNCHANGED <<peer, s2c>>
    BY <1>7 DEF HandleWriteError, Serving
  <2>2. link[peer[p.h]] = "reset"
    BY <2>1 DEF ServiceInv, Underway
  <2> QED
    BY <2>1, <2>2, CloseMaps
<1> QED
  BY <1>1, <1>2, <1>3, <1>4, <1>5, <1>6, <1>7, MsgConnectMaps DEF OpStep

LEMMA ThreadStepMaps ==
  ASSUME IInv, ThreadStep \/ Stop, UNCHANGED clientVars
  PROVE  Maps
<1>1. ASSUME NEW n \in Handlers, AcceptorStart(n) PROVE Maps
  <2>1. /\ hstate[n] = "none" /\ hstate' = [hstate EXCEPT ![n] = "accepting"]
        /\ run = "init" /\ run' = "running" /\ UNCHANGED <<peer, s2c>>
        /\ hstate \in [Handlers -> {"none", "accepting", "live", "freed"}]
    BY <1>1 DEF AcceptorStart, tcpVars, IInv, TypeOK, ServerTypeOK
  <2>2. \A h \in Handlers : hstate'[h] = "live" <=> hstate[h] = "live"
    BY <2>1
  <2>3. \A c \in Clients : SessionOf(c)' = SessionOf(c)
    BY <2>1, <2>2, SameSession
  <2>4. \A c \in Clients : PhaseOf(c)' = PhaseOf(c)
    BY <2>1, SamePhase DEF clientVars
  <2> QED
    BY <2>1, <2>3, <2>4, EndMaps DEF Listening
<1>2. CASE RunReturns \/ ServerExit \/ Stop
  <2>1. UNCHANGED <<peer, hstate, s2c>> /\ (Listening' => Listening)
    BY <1>2 DEF RunReturns, ServerExit, Stop, sessionVars, tcpVars, Listening
  <2> QED
    BY <2>1, QuietSessions
<1> QED
  BY <1>1, <1>2 DEF ThreadStep

-----------------------------------------------------------------------------
(***************************************************************************)
(* The refinement                                                          *)
(***************************************************************************)
LEMMA InitMaps == Init => Service!Init
<1> SUFFICES ASSUME Init PROVE Service!Init
  OBVIOUS
<1>1. \A c \in Clients : PhaseOf(c) = "idle"
  BY DEF Init, ClientInit, PhaseOf
<1>2. \A c \in Clients : SessionOf(c) = "none"
  <2> SUFFICES ASSUME NEW c \in Clients PROVE SessionOf(c) = "none"
    OBVIOUS
  <2>1. \A h \in Handlers : peer[h] # c
    BY ServerAssumption DEF Init, ServerInit
  <2> QED
    BY <2>1 DEF SessionOf
<1>3. Listening = TRUE
  BY DEF Init, ServerInit, Listening
<1> QED
  BY <1>1, <1>2, <1>3 DEF Service!Init

LEMMA NextMaps == IInv /\ ServiceInv /\ [Next]_vars => Maps
<1> SUFFICES ASSUME IInv, ServiceInv, [Next]_vars PROVE Maps
  OBVIOUS
<1>1. CASE ServerStep /\ UNCHANGED clientVars
  BY <1>1, OpStepMaps, ThreadStepMaps DEF ServerStep, HandlerStep
<1>2. ASSUME NEW c \in Clients, ClientStep(c, Listening) \/ Killed(c), UNCHANGED serverVars
      PROVE  Maps
  BY <1>2, ClientStepMaps
<1>3. ASSUME NEW c \in Clients, PeerReset(c) \/ LinkLost(c), UNCHANGED <<serverVars, clientVars>>
      PROVE  Maps
  BY <1>3, LinkStepMaps
<1>4. CASE UNCHANGED vars
  <2>1. UNCHANGED <<clientVars, peer, hstate, s2c, run>>
    BY <1>4 DEF vars, tcpVars, serverVars
  <2> QED
    BY <2>1, QuietSessions DEF Listening
<1> QED
  BY <1>1, <1>2, <1>3, <1>4 DEF Next

\* The server and its clients keep the promise of connect() and disconnect(), whatever
\* the sizes of the packets, however they are cut into pieces, and whichever clients are
\* killed or cut off: a client is granted at most once and only inside its session, it
\* learns only of a grant, and session_handler::close ends its session only when the
\* client has left.
THEOREM ServiceImplemented == Spec => ImplementsConnectService
<1>1. IInv /\ ServiceInv /\ [Next]_vars => [Service!Next]_(Service!vars)
  BY NextMaps DEF Maps
<1>2. Spec => Service!Init /\ [][Service!Next]_(Service!vars)
  BY <1>1, InitMaps, ServiceInvariance, PTL DEF Spec
<1> QED
  BY <1>2 DEF ImplementsConnectService, Service!Spec
=============================================================================
