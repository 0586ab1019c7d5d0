----------------------------- MODULE RtdbClient -----------------------------
(***************************************************************************)
(* The client side: the program test/client_main.cpp over rtdb_client_impl *)
(* (src/api).  Each client connects once, and disconnects if that          *)
(* returned 0.  All its calls block, so between two of them only the       *)
(* server and the network move.                                            *)
(***************************************************************************)
EXTENDS Tcp

CONSTANT ClientPieces    \* bound: pieces one part of an answer arrives in

ASSUME ClientAssumption == ClientPieces \in Nat

VARIABLES
  pc,        \* pc[c]: the call client c is at
  ret,       \* ret[c]: what rtdb_client::connect returned
  cbuf,      \* cbuf[c]: recv_header_buffer, then recv_body_buffer
  next,      \* next[c]: next_bytes, what the part still lacks
  cpiece     \* cpiece[c]: which piece of the part comes next (not in the code)

clientVars == <<pc, ret, cbuf, next, cpiece>>

ClientTypeOK ==
  /\ pc \in [Clients -> {"start", "send", "head", "body", "disconnect", "exit", "gone"}]
  /\ ret \in [Clients -> {"none", "ok", "refused", "send", "decode", "threw", "killed"}]
  /\ cbuf \in [Clients -> [1..Cap -> Cells]]
  /\ next \in [Clients -> 0..Cap]
  /\ cpiece \in [Clients -> Nat]

ClientInit ==
  /\ pc = [c \in Clients |-> "start"]
  /\ ret = [c \in Clients |-> "none"]
  /\ cbuf = [c \in Clients |-> EmptyBuffer]
  /\ next = [c \in Clients |-> 0]
  /\ cpiece = [c \in Clients |-> 0]

\* connect() returned r to the program, which then goes to call at.
Returned(c, r, at) ==
  /\ ret' = [ret EXCEPT ![c] = r]
  /\ pc' = [pc EXCEPT ![c] = at]

\* The next part of the answer, of n bytes, is read into a new vector.
Awaits(c, part, n) ==
  /\ pc' = [pc EXCEPT ![c] = part]
  /\ cbuf' = [cbuf EXCEPT ![c] = EmptyBuffer]
  /\ next' = [next EXCEPT ![c] = n]
  /\ cpiece' = [cpiece EXCEPT ![c] = 1]

-----------------------------------------------------------------------------
\* socket.connect: the kernel completes the handshake while the server listens.
Connect(c, listening) ==
  /\ pc[c] = "start"
  /\ \/ /\ listening
        /\ link' = [link EXCEPT ![c] = "up"]
        /\ pc' = [pc EXCEPT ![c] = "send"]
        /\ UNCHANGED ret
     \/ /\ ~listening
        /\ Returned(c, "refused", "exit")
        /\ UNCHANGED link
  /\ UNCHANGED <<cbuf, next, cpiece, sclosed, c2s, s2c>>

\* write_some of a packet: all of it, or too few bytes when a signal cut the
\* call short.  Bytes for an end that is closed are answered with an RST.
Written(c, m, k) ==
  IF sclosed[c]
  THEN link' = [link EXCEPT ![c] = "reset"] /\ UNCHANGED c2s
  ELSE c2s' = [c2s EXCEPT ![c] = @ \o Taken(Frame(m), k)] /\ UNCHANGED link

\* send_packet of connect(): a short write and an error return the same code.
SendConnect(c) ==
  /\ pc[c] = "send"
  /\ link[c] = "up"
  /\ Written(c, "CONNECT", HLen + BLen["CONNECT"])
  /\ Awaits(c, "head", HLen)
  /\ UNCHANGED <<ret, sclosed, s2c>>

SendConnectFails(c) ==
  /\ pc[c] = "send"
  /\ \/ link[c] = "reset" /\ UNCHANGED <<link, c2s>>
     \/ /\ link[c] = "up" /\ c \in Flaky
        /\ \E k \in 0..(HLen + BLen["CONNECT"] - 1) : Written(c, "CONNECT", k)
  /\ Returned(c, "send", "exit")
  /\ UNCHANGED <<cbuf, next, cpiece, sclosed, s2c>>

-----------------------------------------------------------------------------
\* read_some gives k bytes: recv_packet asks for them at the start of the
\* buffer each time, whatever it holds.
ReadInto(c, k) == Stored(cbuf[c], 0, Taken(s2c[c], k))

ReadSome(c, k) ==
  /\ pc[c] \in {"head", "body"}
  /\ k <= next[c] /\ k <= Len(s2c[c])
  /\ k = next[c] \/ cpiece[c] < ClientPieces
  /\ s2c' = [s2c EXCEPT ![c] = Rest(@, k)]
  /\ UNCHANGED <<link, sclosed, c2s>>

\* The part is not complete yet.
RecvPiece(c, k) ==
  /\ ReadSome(c, k)
  /\ k < next[c]
  /\ cbuf' = [cbuf EXCEPT ![c] = ReadInto(c, k)]
  /\ next' = [next EXCEPT ![c] = @ - k]
  /\ cpiece' = [cpiece EXCEPT ![c] = @ + 1]
  /\ UNCHANGED <<pc, ret>>

\* The header is complete: on success its body is read next.
RecvHeader(c) ==
  /\ ReadSome(c, next[c]) /\ pc[c] = "head"
  /\ \/ /\ HoldsHead(ReadInto(c, next[c]), "CONNECT_RESP")
        /\ Awaits(c, "body", BLen["CONNECT_RESP"])
        /\ UNCHANGED ret
     \/ /\ ~HoldsHead(ReadInto(c, next[c]), "CONNECT_RESP")
        /\ Returned(c, "decode", "exit")
        /\ UNCHANGED <<cbuf, next, cpiece>>

\* The body is complete: connect() returns.
RecvBody(c) ==
  /\ ReadSome(c, next[c]) /\ pc[c] = "body"
  /\ \/ /\ HoldsBody(ReadInto(c, next[c]), "CONNECT_RESP")
        /\ Returned(c, "ok", "disconnect")
     \/ /\ ~HoldsBody(ReadInto(c, next[c]), "CONNECT_RESP")
        /\ Returned(c, "decode", "exit")
  /\ UNCHANGED <<cbuf, next, cpiece>>

\* read_some throws on the end of the stream and on a reset; nothing catches it.
\* (Mutant: the end of the stream goes unnoticed.)
RecvThrows_NoEof(c) ==
  /\ pc[c] \in {"head", "body"} /\ link[c] = "reset"
  /\ Returned(c, "threw", "gone")
  /\ UNCHANGED <<cbuf, next, cpiece, tcpVars>>

RecvThrows(c) ==
  /\ pc[c] \in {"head", "body"}
  /\ link[c] = "reset" \/ (sclosed[c] /\ s2c[c] = <<>>)
  /\ Returned(c, "threw", "gone")
  /\ link' = [link EXCEPT ![c] = ClosedLink(c)]
  /\ UNCHANGED <<cbuf, next, cpiece, sclosed, c2s, s2c>>

-----------------------------------------------------------------------------
\* disconnect() sends its packet; the program does not look at the result.
Disconnect(c) ==
  /\ pc[c] = "disconnect"
  /\ IF link[c] = "up" THEN Written(c, "DISCONNECT", HLen + BLen["DISCONNECT"])
                       ELSE UNCHANGED <<link, c2s>>
  /\ pc' = [pc EXCEPT ![c] = "exit"]
  /\ UNCHANGED <<ret, cbuf, next, cpiece, sclosed, s2c>>

\* main returns and the socket is closed.
Exit(c) ==
  /\ pc[c] = "exit"
  /\ pc' = [pc EXCEPT ![c] = "gone"]
  /\ link' = [link EXCEPT ![c] = ClosedLink(c)]
  /\ UNCHANGED <<ret, cbuf, next, cpiece, sclosed, c2s, s2c>>

\* A flaky client is killed.
Killed(c) ==
  /\ c \in Flaky /\ pc[c] # "gone"
  /\ Returned(c, "killed", "gone")
  /\ link' = [link EXCEPT ![c] = ClosedLink(c)]
  /\ UNCHANGED <<cbuf, next, cpiece, sclosed, c2s, s2c>>

-----------------------------------------------------------------------------
ClientStep(c, listening) ==
  \/ Connect(c, listening)
  \/ SendConnect(c)
  \/ SendConnectFails(c)
  \/ \E k \in 1..Cap : RecvPiece(c, k)
  \/ RecvHeader(c) \/ RecvBody(c) \/ RecvThrows(c)
  \/ Disconnect(c) \/ Exit(c)
=============================================================================
