------------------------------- MODULE Frames -------------------------------
(***************************************************************************)
(* The packets of the protocol, as the bytes the sessions reassemble.      *)
(*                                                                         *)
(* A packet is a header of fixed size followed by a body whose size the    *)
(* header announces.  Both begin with a mark (HEAD_MARK and BODY_MARK) and *)
(* end with a CRC.  Bytes are abstracted to cells that say which byte of   *)
(* which message they are; the bytes of a mark are all equal (0x11111111,  *)
(* 0x22222222), so a mark's cells do not say which of its bytes they are.  *)
(* A CRC is abstracted as perfect: a part passes its check exactly when    *)
(* every cell of it is in its place.                                       *)
(***************************************************************************)
EXTENDS Integers, Sequences

CONSTANTS
  HLen,       \* cells of a header
  MarkLen,    \* cells of a mark
  BLen        \* cells of the body of each message

\* The three messages the program exchanges: the request and the answer of
\* connect(), and the farewell of disconnect().
Messages == {"CONNECT", "CONNECT_RESP", "DISCONNECT"}

ASSUME FramesAssumption ==
  /\ MarkLen \in Nat \ {0}
  /\ HLen \in Nat /\ MarkLen < HLen
  /\ BLen \in [Messages -> Nat]
  /\ \A m \in Messages : MarkLen < BLen[m]

\* A header fits into the body of a CONNECT, which carries the path of the client's
\* process, of fifteen characters or more (theorem ConnectHoldsHeader of
\* ProtocolProofs): an answered session reads its next header into that buffer.
ASSUME HeaderFitsAssumption == HLen <= BLen["CONNECT"]

-----------------------------------------------------------------------------
HMark == <<"any", "hmark", 0>>    \* a byte of HEAD_MARK
BMark == <<"any", "bmark", 0>>    \* a byte of BODY_MARK
Zero  == <<"any", "zero", 0>>     \* a byte no read has filled yet

\* What serialize_packet writes for the header and for the body of message m.
HeadCells(m) == [i \in 1..HLen    |-> IF i <= MarkLen THEN HMark ELSE <<m, "head", i>>]
BodyCells(m) == [i \in 1..BLen[m] |-> IF i <= MarkLen THEN BMark ELSE <<m, "body", i>>]
Frame(m)     == HeadCells(m) \o BodyCells(m)

Cells == {HMark, BMark, Zero}
           \cup {<<m, "head", i>> : m \in Messages, i \in 1..HLen}
           \cup UNION {{<<m, "body", i>> : i \in 1..BLen[m]} : m \in Messages}

-----------------------------------------------------------------------------
(***************************************************************************)
(* A receive buffer is a function from positions to cells.                 *)
(***************************************************************************)
\* Room for a header and for any body: the capacity a buffer may grow to.
Cap == HLen + BLen["CONNECT"] + BLen["CONNECT_RESP"] + BLen["DISCONNECT"]

EmptyBuffer == [i \in 1..Cap |-> Zero]

\* vector::clear() and resize(n): n zero bytes, what lay beyond stays behind.
Resized(buf, n) == [i \in 1..Cap |-> IF i <= n THEN Zero ELSE buf[i]]

\* A read of s into the buffer at offset off.
Stored(buf, off, s) == [i \in 1..Cap |-> IF i - off \in 1..Len(s) THEN s[i - off] ELSE buf[i]]

\* The mark a receiver looks at first: the first MarkLen cells.
MarkIs(buf, mark) == \A i \in 1..MarkLen : buf[i] = mark

\* The part passes its CRC check.
HoldsHead(buf, m) == \A i \in 1..HLen    : buf[i] = HeadCells(m)[i]
HoldsBody(buf, m) == \A i \in 1..BLen[m] : buf[i] = BodyCells(m)[i]
=============================================================================
