----------------------------- MODULE RtdbServer -----------------------------
(***************************************************************************)
(* The network side of rtdb-server: network_server, async_acceptor and     *)
(* session_handler (src/core/network), with MyApp::run of main.cpp, which  *)
(* starts the network thread and stops it.                                 *)
(*                                                                         *)
(* One thread runs io_service::run, so a completion handler is one atomic  *)
(* step; what interleaves is the order of the completions of different     *)
(* sessions, of the bytes arriving, and of the main thread's stop.         *)
(* An asynchronous operation in progress is a record of the set pending;   *)
(* a session_handler is an address of the set Handlers, used once.         *)
(***************************************************************************)
EXTENDS Tcp

CONSTANTS
  Handlers,       \* addresses operator new may return
  NoClient,       \* the peer of a handler that has accepted nobody
  FdLimit,        \* sockets the process may hold for sessions
  ServerPieces,   \* bound: pieces one part of a packet arrives in
  AllowStop       \* whether the program may be told to quit

ASSUME ServerAssumption ==
  /\ NoClient \notin Clients
  /\ FdLimit \in Nat /\ ServerPieces \in Nat
  /\ AllowStop \in BOOLEAN

VARIABLES
  run,               \* the network thread and its process
  stopped,           \* io_service::stop was called
  m_set_handlers,    \* async_acceptor::m_set_handlers
  hstate,            \* hstate[h]: allocation state of the handler at h
  peer,              \* peer[h]: the client its m_socket is connected to
  pending,           \* the asynchronous operations in progress
  m_recv_buffer,     \* session_handler::m_recv_buffer: the bytes of the vector
  m_recv_size,       \* its size()
  m_packet_header    \* session_handler::m_packet_header: its method and bsize

serverVars == <<run, stopped, m_set_handlers, hstate, peer, pending,
                m_recv_buffer, m_recv_size, m_packet_header>>
sessionVars == <<hstate, peer, m_recv_buffer, m_recv_size, m_packet_header>>

(***************************************************************************)
(* An operation records its handler, where the next bytes go in the        *)
(* buffer (off) and how many are wanted.  piece and part are not state of  *)
(* the code: which piece of which part the read was started for.           *)
(***************************************************************************)
Op(h, kind, off, want, piece, part) ==
  [h |-> h, kind |-> kind, off |-> off, want |-> want, piece |-> piece, part |-> part]

AcceptOp(h)    == Op(h, "accept", 0, 0, 0, "none")
WriteOp(h, ok) == Op(h, IF ok THEN "written" ELSE "writefail", 0, 0, 0, "none")
HeadRead(h)    == Op(h, "read", 0, HLen, 1, "head")
BodyRead(h, m) == Op(h, "read", 0, BLen[m], 1, "body")

Ops == [h : Handlers, kind : {"accept", "read", "written", "writefail"},
        off : 0..Cap, want : 0..Cap, piece : Nat, part : {"none", "head", "body"}]

ServerTypeOK ==
  /\ run \in {"init", "running", "returned", "failed", "exited", "aborted"}
  /\ stopped \in BOOLEAN
  /\ m_set_handlers \subseteq Handlers
  /\ hstate \in [Handlers -> {"none", "accepting", "live", "freed"}]
  /\ peer \in [Handlers -> Clients \cup {NoClient}]
  /\ pending \subseteq Ops
  /\ m_recv_buffer \in [Handlers -> [1..Cap -> Cells]]
  /\ m_recv_size \in [Handlers -> 0..Cap]
  /\ m_packet_header \in [Handlers -> Messages \cup {"none", "garbage"}]

\* network_server is constructed, which binds and listens; run() is not called.
ServerInit ==
  /\ run = "init"
  /\ stopped = FALSE
  /\ m_set_handlers = {}
  /\ hstate = [h \in Handlers |-> "none"]
  /\ peer = [h \in Handlers |-> NoClient]
  /\ pending = {}
  /\ m_recv_buffer = [h \in Handlers |-> EmptyBuffer]
  /\ m_recv_size = [h \in Handlers |-> 0]
  /\ m_packet_header = [h \in Handlers |-> "none"]

-----------------------------------------------------------------------------
Listening == run \notin {"exited", "aborted"}       \* the listening socket is open
Serving   == run = "running" /\ ~stopped            \* handlers are dispatched

Live(h)   == hstate[h] = "live"
Backlog   == {c \in Clients : link[c] # "none" /\ \A h \in Handlers : peer[h] # c}
FdsFree   == Cardinality({h \in Handlers : Live(h)}) < FdLimit

\* The completion of p is dispatched; it starts the operations in new.
Completed(p, new) == pending' = (pending \ {p}) \cup new

\* remove_session_handler.  (Mutant: the handler is deleted but not erased.)
Unregistered_Kept(h) == m_set_handlers
Unregistered(h)      == m_set_handlers \ {h}

\* What handle_accept and send_packet start.  (Mutants: the next accept is
\* forgotten; the next packet is read without waiting for the answer's end.)
NextAccept_Forgotten(n) == {}
NextAccept(n)           == {AcceptOp(n)}

Answering_ReadsOn(h, ok) == {WriteOp(h, ok), HeadRead(h)}
Answering(h, ok)         == {WriteOp(h, ok)}

-----------------------------------------------------------------------------
(***************************************************************************)
(* Ending a session.                                                       *)
(***************************************************************************)
\* An exception leaves the handler of p and io_service::run: network_server::run
\* catches it and the thread ends.  What the handler did not reach is not done.
Thrown(p) ==
  /\ run' = "failed"
  /\ Completed(p, {})

\* remote_endpoint() throws on a connection that was reset.
RemoteEndpointThrows(c) == link[c] = "reset"

\* session_handler::close() in the handler of p: it asks for the remote endpoint,
\* then leaves the registry and deletes itself, which closes the socket.
Close(p) ==
  \/ /\ RemoteEndpointThrows(peer[p.h])
     /\ Thrown(p)
     /\ UNCHANGED <<m_set_handlers, hstate, sclosed>>
  \/ /\ ~RemoteEndpointThrows(peer[p.h])
     /\ m_set_handlers' = Unregistered(p.h)
     /\ hstate' = [hstate EXCEPT ![p.h] = "freed"]
     /\ sclosed' = [sclosed EXCEPT ![peer[p.h]] = TRUE]
     /\ Completed(p, {})
     /\ UNCHANGED run

\* The process ends and the kernel closes its sockets: an orderly end where
\* nothing was left unread, an RST elsewhere and for the backlog.
SocketsClosed ==
  /\ sclosed' = [c \in Clients |-> link[c] # "none"]
  /\ link' = [c \in Clients |->
                IF link[c] = "up" /\ ~sclosed[c] /\ (c \in Backlog \/ c2s[c] # <<>>)
                THEN "reset" ELSE link[c]]
  /\ pending' = {}

-----------------------------------------------------------------------------
(***************************************************************************)
(* async_acceptor                                                          *)
(***************************************************************************)
\* network_server::run calls async_acceptor::start, then io_service::run.
AcceptorStart(n) ==
  /\ run = "init" /\ hstate[n] = "none"
  /\ run' = "running"
  /\ hstate' = [hstate EXCEPT ![n] = "accepting"]
  /\ m_set_handlers' = m_set_handlers \cup {n}
  /\ pending' = NextAccept(n)
  /\ UNCHANGED <<stopped, peer, m_recv_buffer, m_recv_size, m_packet_header, tcpVars>>

\* handle_accept without error: start() the session, then wait for the next
\* client with a new handler n.
HandleAccept(p, n, c) ==
  /\ Serving /\ p.kind = "accept"
  /\ c \in Backlog /\ FdsFree
  /\ ~RemoteEndpointThrows(c)
  /\ hstate[n] = "none"
  /\ peer' = [peer EXCEPT ![p.h] = c]
  /\ hstate' = [hstate EXCEPT ![p.h] = "live", ![n] = "accepting"]
  /\ m_set_handlers' = m_set_handlers \cup {n}
  /\ m_recv_buffer' = [m_recv_buffer EXCEPT ![p.h] = Resized(@, HLen)]
  /\ m_recv_size' = [m_recv_size EXCEPT ![p.h] = HLen]
  /\ Completed(p, {HeadRead(p.h)} \cup NextAccept(n))
  /\ UNCHANGED <<run, stopped, m_packet_header, tcpVars>>

\* start() of a connection that was reset in the backlog: remote_endpoint()
\* throws before the next accept is started.
HandleAcceptThrows(p, c) ==
  /\ Serving /\ p.kind = "accept"
  /\ c \in Backlog /\ FdsFree
  /\ RemoteEndpointThrows(c)
  /\ peer' = [peer EXCEPT ![p.h] = c]
  /\ hstate' = [hstate EXCEPT ![p.h] = "live"]
  /\ Thrown(p)
  /\ UNCHANGED <<stopped, m_set_handlers, m_recv_buffer, m_recv_size, m_packet_header,
                 tcpVars>>

\* handle_accept with an error (no descriptor left): the handler is deleted and
\* no accept is started again.
HandleAcceptError(p) ==
  /\ Serving /\ p.kind = "accept"
  /\ Backlog # {} /\ ~FdsFree
  /\ m_set_handlers' = Unregistered(p.h)
  /\ hstate' = [hstate EXCEPT ![p.h] = "freed"]
  /\ Completed(p, {})
  /\ UNCHANGED <<run, stopped, peer, m_recv_buffer, m_recv_size, m_packet_header, tcpVars>>

-----------------------------------------------------------------------------
(***************************************************************************)
(* session_handler: reading                                                *)
(***************************************************************************)
\* What k bytes arriving for p leave in its buffer.
Received(p, k) == Stored(m_recv_buffer[p.h], p.off, Taken(c2s[peer[p.h]], k))
Consumed(p, k) == c2s' = [c2s EXCEPT ![peer[p.h]] = Rest(@, k)]

\* Where the rest of a part is read to after k bytes of it: handle_read uses the
\* count of the last read alone.  (Mutants: one byte is skipped; the rest is read
\* over the first piece.)
NextOffset_Skips(p, k)   == k + 1
NextOffset_Restart(p, k) == 0
NextOffset(p, k)         == k

\* How much of the part is still wanted.  (Mutants: the whole part again; the
\* operands swapped.)
Remaining_Whole(p, k)   == p.want
Remaining_Swapped(p, k) == k - p.want
Remaining(p, k)         == p.want - k

\* handle_read with fewer bytes than wanted: read the rest of the part.
\* A part arrives in at most ServerPieces pieces, unless its sender cut it short.
HandleReadPartial(p, k) ==
  /\ Serving /\ p.kind = "read"
  /\ k <= Len(c2s[peer[p.h]]) /\ k < p.want
  /\ p.piece < ServerPieces \/ Len(c2s[peer[p.h]]) < p.want
  /\ m_recv_buffer' = [m_recv_buffer EXCEPT ![p.h] = Received(p, k)]
  /\ Consumed(p, k)
  /\ Completed(p, {Op(p.h, "read", NextOffset(p, k), Remaining(p, k), p.piece + 1, p.part)})
  /\ UNCHANGED <<run, stopped, m_set_handlers, hstate, peer, m_recv_size,
                 m_packet_header, link, sclosed, s2c>>

\* handle_read with all the bytes wanted.
FullRead(p) ==
  /\ Serving /\ p.kind = "read"
  /\ Len(c2s[peer[p.h]]) >= p.want

\* handle_packet_header: the header is decoded and its body is read into a
\* buffer of the announced size.
HandlePacketHeader(p, m) ==
  FullRead(p) /\ \E buf \in {Received(p, p.want)} :
    /\ Consumed(p, p.want)
    /\ MarkIs(buf, HMark) /\ HoldsHead(buf, m)
    /\ m_packet_header' = [m_packet_header EXCEPT ![p.h] = m]
    /\ m_recv_buffer' = [m_recv_buffer EXCEPT ![p.h] = Resized(buf, BLen[m])]
    /\ m_recv_size' = [m_recv_size EXCEPT ![p.h] = BLen[m]]
    /\ Completed(p, {BodyRead(p.h, m)})
    /\ UNCHANGED <<run, stopped, m_set_handlers, hstate, peer, link, sclosed, s2c>>

\* handle_packet_body of an intact CONNECT: msg_connect sends the answer.  The
\* write is handed to the kernel at once; handle_write learns of it later.
MsgConnect(p) ==
  FullRead(p) /\ \E buf \in {Received(p, p.want)}, ok \in {link[peer[p.h]] # "reset"} :
    /\ Consumed(p, p.want)
    /\ MarkIs(buf, BMark)
    /\ m_packet_header[p.h] = "CONNECT" /\ HoldsBody(buf, "CONNECT")
    /\ m_recv_buffer' = [m_recv_buffer EXCEPT ![p.h] = buf]
    /\ s2c' = IF ok THEN [s2c EXCEPT ![peer[p.h]] = @ \o Frame("CONNECT_RESP")] ELSE s2c
    /\ Completed(p, Answering(p.h, ok))
    /\ UNCHANGED <<run, stopped, m_set_handlers, hstate, peer, m_recv_size,
                   m_packet_header, link, sclosed>>

\* handle_packet_body of an intact DISCONNECT: msg_disconnect closes the session.
MsgDisconnect(p) ==
  FullRead(p) /\ \E buf \in {Received(p, p.want)} :
    /\ Consumed(p, p.want)
    /\ MarkIs(buf, BMark)
    /\ m_packet_header[p.h] = "DISCONNECT" /\ HoldsBody(buf, "DISCONNECT")
    /\ m_recv_buffer' = [m_recv_buffer EXCEPT ![p.h] = buf]
    /\ Close(p)
    /\ UNCHANGED <<stopped, peer, m_recv_size, m_packet_header, link, s2c>>

-----------------------------------------------------------------------------
(***************************************************************************)
(* session_handler: a packet it cannot use.  The error is logged or        *)
(* dropped; the session is not closed and nothing is read any more.        *)
(***************************************************************************)
Abandoned(p, buf) ==
  /\ Consumed(p, p.want)
  /\ m_recv_buffer' = [m_recv_buffer EXCEPT ![p.h] = buf]
  /\ Completed(p, {})
  /\ UNCHANGED <<run, stopped, m_set_handlers, hstate, peer, m_recv_size, link, sclosed, s2c>>

\* Neither mark is at the head of the buffer.
UnknownMark(p) ==
  FullRead(p) /\ \E buf \in {Received(p, p.want)} :
    /\ ~MarkIs(buf, HMark) /\ ~MarkIs(buf, BMark)
    /\ Abandoned(p, buf)
    /\ UNCHANGED m_packet_header

\* A header that fails its check has been decoded into m_packet_header.
BadHeader(p) ==
  FullRead(p) /\ \E buf \in {Received(p, p.want)} :
    /\ MarkIs(buf, HMark) /\ \A m \in Messages : ~HoldsHead(buf, m)
    /\ Abandoned(p, buf)
    /\ m_packet_header' = [m_packet_header EXCEPT ![p.h] = "garbage"]

\* A body that fails its check.
BadBody(p) ==
  FullRead(p) /\ \E buf \in {Received(p, p.want)}, m \in {m_packet_header[p.h]} :
    /\ MarkIs(buf, BMark)
    /\ m \in {"CONNECT", "DISCONNECT"} => ~HoldsBody(buf, m)
    /\ Abandoned(p, buf)
    /\ UNCHANGED m_packet_header

\* The wrong bytes are taken for the length of a name: decoding runs off the end
\* of the buffer and istreambuf::underflow asserts.  The process aborts.
BodyUnderflow(p) ==
  FullRead(p) /\ \E buf \in {Received(p, p.want)} :
    /\ Consumed(p, p.want)
    /\ MarkIs(buf, BMark)
    /\ m_packet_header[p.h] = "CONNECT" /\ ~HoldsBody(buf, "CONNECT")
    /\ run' = "aborted"
    /\ SocketsClosed
    /\ UNCHANGED <<stopped, m_set_handlers, sessionVars, s2c>>

-----------------------------------------------------------------------------
(***************************************************************************)
(* session_handler: errors and the end of a write                          *)
(***************************************************************************)
\* handle_read with an error: the end of the stream, or a reset.
HandleReadError(p) ==
  /\ Serving /\ p.kind = "read"
  /\ \/ link[peer[p.h]] = "reset"
     \/ link[peer[p.h]] = "fin" /\ c2s[peer[p.h]] = <<>>
  /\ Close(p)
  /\ UNCHANGED <<stopped, peer, m_recv_buffer, m_recv_size, m_packet_header, link, c2s, s2c>>

\* handle_write without error: wait for the next header, in the buffer as it is,
\* with the bytes and the size of the body it held.  (Mutants: the session is closed after
\* its answer; the next packet is not read.)
HandleWrite_Closes(p) ==
  /\ Serving /\ p.kind = "written"
  /\ Close(p)
  /\ UNCHANGED <<stopped, peer, m_recv_buffer, m_recv_size, m_packet_header, link, c2s, s2c>>

HandleWrite_ReadsNoMore(p) ==
  /\ Serving /\ p.kind = "written"
  /\ Completed(p, {})
  /\ UNCHANGED <<run, stopped, m_set_handlers, sessionVars, tcpVars>>

HandleWrite(p) ==
  /\ Serving /\ p.kind = "written"
  /\ Completed(p, {HeadRead(p.h)})
  /\ UNCHANGED <<run, stopped, m_set_handlers, sessionVars, tcpVars>>

\* handle_write with an error.
HandleWriteError(p) ==
  /\ Serving /\ p.kind = "writefail"
  /\ Close(p)
  /\ UNCHANGED <<stopped, peer, m_recv_buffer, m_recv_size, m_packet_header, link, c2s, s2c>>

-----------------------------------------------------------------------------
(***************************************************************************)
(* MyApp::run and network_server                                           *)
(***************************************************************************)
\* The main loop sees g_quit and calls network_server::stop.
Stop ==
  /\ AllowStop /\ ~stopped /\ run \notin {"exited", "aborted"}
  /\ stopped' = TRUE
  /\ UNCHANGED <<run, m_set_handlers, sessionVars, pending, tcpVars>>

\* io_service::run returns: it was stopped, or it has no work left.  (Mutant: only
\* when it has no work left, as without the call of io_service::stop.)
RunReturns_NoStop ==
  /\ run = "running" /\ pending = {}
  /\ run' = "returned"
  /\ UNCHANGED <<stopped, m_set_handlers, sessionVars, pending, tcpVars>>

RunReturns ==
  /\ run = "running"
  /\ stopped \/ pending = {}
  /\ run' = "returned"
  /\ UNCHANGED <<stopped, m_set_handlers, sessionVars, pending, tcpVars>>

\* After stop() the main thread joins the network thread and main returns.
ServerExit ==
  /\ stopped /\ run \in {"returned", "failed"}
  /\ run' = "exited"
  /\ SocketsClosed
  /\ UNCHANGED <<stopped, m_set_handlers, sessionVars, c2s, s2c>>

-----------------------------------------------------------------------------
\* The completions of the operation p.
OpStep(p) ==
  \/ \E n \in Handlers, c \in Clients : HandleAccept(p, n, c)
  \/ \E c \in Clients : HandleAcceptThrows(p, c)
  \/ HandleAcceptError(p)
  \/ \E k \in 1..Cap : HandleReadPartial(p, k)
  \/ \E m \in Messages : HandlePacketHeader(p, m)
  \/ MsgConnect(p) \/ MsgDisconnect(p)
  \/ UnknownMark(p) \/ BadHeader(p) \/ BadBody(p) \/ BodyUnderflow(p)
  \/ HandleReadError(p)
  \/ HandleWrite(p) \/ HandleWriteError(p)

HandlerStep(h) == \E p \in pending : p.h = h /\ OpStep(p)

\* The thread's own steps: they need no completion.
ThreadStep == (\E n \in Handlers : AcceptorStart(n)) \/ RunReturns \/ ServerExit
=============================================================================
