-------------------------------- MODULE Tcp ---------------------------------
(***************************************************************************)
(* The TCP connections between the clients and the server, as the program  *)
(* meets them through boost::asio: two reliable byte streams whose reader  *)
(* gets any non-empty piece of what was written, an orderly end of the     *)
(* stream, and a reset.  Nothing here is code of the repository: it is     *)
(* what the calls in session_handler.cpp and rtdb_client_impl.cpp can      *)
(* observe.                                                                *)
(***************************************************************************)
EXTENDS Frames, FiniteSets

CONSTANTS
  Clients,    \* the client processes; each opens one connection
  Flaky       \* the clients that may be killed, or cut off by the network

ASSUME TcpAssumption == Flaky \subseteq Clients

VARIABLES
  link,       \* link[c]: "none" before the connect, "up", "fin" once the
              \* client's end is closed, "reset" after an RST
  sclosed,    \* sclosed[c]: the server's end is closed
  c2s,        \* c2s[c]: what the client wrote and the server has not read
  s2c         \* s2c[c]: what the server wrote and the client has not read

tcpVars == <<link, sclosed, c2s, s2c>>

TcpTypeOK ==
  /\ link \in [Clients -> {"none", "up", "fin", "reset"}]
  /\ sclosed \in [Clients -> BOOLEAN]
  /\ c2s \in [Clients -> Seq(Cells)]
  /\ s2c \in [Clients -> Seq(Cells)]

TcpInit ==
  /\ link = [c \in Clients |-> "none"]
  /\ sclosed = [c \in Clients |-> FALSE]
  /\ c2s = [c \in Clients |-> <<>>]
  /\ s2c = [c \in Clients |-> <<>>]

-----------------------------------------------------------------------------
\* The first k cells of a stream, and the stream after they are read.
Taken(s, k) == SubSeq(s, 1, k)
Rest(s, k)  == SubSeq(s, k + 1, Len(s))

\* A client's end that is closed: the kernel ends the stream, or sends an RST
\* when bytes for the client were left unread.
ClosedLink(c) == IF link[c] = "up" THEN "fin" ELSE link[c]

\* The kernel of a client that has closed answers bytes for it with an RST.
PeerReset(c) ==
  /\ link[c] = "fin"
  /\ s2c[c] # <<>>
  /\ link' = [link EXCEPT ![c] = "reset"]
  /\ s2c' = [s2c EXCEPT ![c] = <<>>]
  /\ UNCHANGED <<sclosed, c2s>>

\* The connection of a flaky client is reset: an abortive close of the client,
\* or a network that gives the connection up.
LinkLost(c) ==
  /\ c \in Flaky
  /\ link[c] \in {"up", "fin"}
  /\ link' = [link EXCEPT ![c] = "reset"]
  /\ UNCHANGED <<sclosed, c2s, s2c>>
=============================================================================
