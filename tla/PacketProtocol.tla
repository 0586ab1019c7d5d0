--------------------------- MODULE PacketProtocol ---------------------------
(***************************************************************************)
(* How a packet becomes bytes and comes back (src/src/protocol and the     *)
(* streams of src/src/common): one packet at a time, serialized and parsed *)
(* one field a step from the tables both ends keep.  A byte is a digit     *)
(* below Base.                                                             *)
(***************************************************************************)
EXTENDS Integers, Sequences, SequencesExt

CONSTANTS
  Base,           \* the values of a byte (256)
  Crc(_),         \* crc32 of some bytes, which fits into four
  NoData,         \* the null pointer of a field without an array
  HostNames,      \* what gethostname may give, as bytes
  Paths,          \* what readlink may give, as bytes
  Preset          \* what the client's buffer for its path holds before

ASSUME ProtocolAssumption ==
  /\ Base \in Nat /\ Base > 4
  /\ NoData \notin Seq(0..(Base - 1))
  /\ \A s \in HostNames \cup Paths \cup {Preset} :
       /\ s \in Seq(1..(Base - 1))
       /\ 2 * (Len(s) + 1) < Base * Base

VARIABLES
  little,         \* little[e]: the byte order of end e
  host, path,     \* of the client
  msg,            \* the packet under way
  at, n,          \* what is being done with it, at which field
  fields,         \* the sender's table
  out, bodyBase,  \* the sender's stream, and where its body begins
  header,         \* the header the receiver has parsed
  robj, pos,      \* the receiver's table, and how much of its stream is read
  ret             \* what the receiver's parser returned

packetVars == <<little, host, path, msg, at, n, fields, out, bodyBase, header, robj, pos, ret>>

-----------------------------------------------------------------------------
(***************************************************************************)
(* Tables                                                                  *)
(***************************************************************************)
TYPE_CHAR == 0
TYPE_BYTE == 1
TYPE_SHORT == 2
TYPE_LONG == 3
TYPE_LONGLONG == 4

FIELD_HMARK == 0
FIELD_METHOD == 1
FIELD_BSIZE == 2
FIELD_RETURN == 3
FIELD_COUNT == 5
FIELD_HCRC == 6
FIELD_BMARK == 7

\* How many values w bytes have.
Pow[w \in 0..8] == IF w = 0 THEN 1 ELSE Base * Pow[w - 1]

\* 0x11111111 and 0x22222222 read the same from either end.
HEAD_MARK == 1 + Base + Pow[2] + Pow[3]
BODY_MARK == 2 * HEAD_MARK

MSG_COMMON == 1
MSG_CONNECT == 2
MSG_DISCONNECT == 3

Scalar(type, x) == [type |-> type, ivalue |-> x, data |-> NoData, count |-> 1]
Array(type, s) == [type |-> type, ivalue |-> 0, data |-> s, count |-> -1]
Terminator == [type |-> -1, ivalue |-> 0, data |-> NoData, count |-> 0]

\* A table counts its fields from 0 and ends with its terminator; FIELDS_LEN does
\* not count that one.
Table(s) == [i \in 0..Len(s) |-> IF i < Len(s) THEN s[i + 1] ELSE Terminator]
FIELDS_LEN(t) == CHOOSE k \in DOMAIN t : t[k].type < 0

MSG_HEADER(method, retcode) ==
  <<Scalar(TYPE_LONG, HEAD_MARK), Scalar(TYPE_LONG, method), Scalar(TYPE_LONG, 0),
    Scalar(TYPE_LONG, retcode), Scalar(TYPE_LONG, 7), Scalar(TYPE_LONG, 1),
    Scalar(TYPE_LONGLONG, 0), Scalar(TYPE_LONG, BODY_MARK)>>
MSG_TAIL == <<Scalar(TYPE_LONGLONG, 0)>>

\* A name goes with its NUL, behind its length: strlen + 1.  (Mutant: strlen.)
Named_NoNul(s) == <<Scalar(TYPE_SHORT, Len(s)), Array(TYPE_CHAR, Append(s, 0))>>

Named(s) == <<Scalar(TYPE_SHORT, Len(s) + 1), Array(TYPE_CHAR, Append(s, 0))>>

MSG_COMMON_REQ_FIELDS(method) == Table(MSG_HEADER(method, 0) \o MSG_TAIL)
MSG_CONNECT_FIELDS(client, process) ==
  Table(MSG_HEADER(MSG_CONNECT, 0) \o Named(client) \o Named(process) \o MSG_TAIL)
MSG_CONNECT_RESP_FIELDS(retcode, priv) ==
  Table(MSG_HEADER(MSG_CONNECT, retcode) \o <<Scalar(TYPE_SHORT, priv)>> \o MSG_TAIL)

-----------------------------------------------------------------------------
(***************************************************************************)
(* Streams                                                                 *)
(***************************************************************************)
Width == [t \in {TYPE_CHAR, TYPE_BYTE, TYPE_SHORT, TYPE_LONG, TYPE_LONGLONG} |->
            CASE t \in {TYPE_CHAR, TYPE_BYTE} -> 1
              [] t = TYPE_SHORT -> 2 [] t = TYPE_LONG -> 4 [] t = TYPE_LONGLONG -> 8]

\* An array of long longs goes as one of longs.
ArrayWidth == [Width EXCEPT ![TYPE_LONGLONG] = 4]

\* x in w bytes, the most significant one first; negative numbers as two's complement.
\* (Mutant: a digit is not cut to a byte.)
Digits_Wide(x, w) == [i \in 1..w |-> (x % Pow[w]) \div Pow[w - i]]
Digits(x, w) == [i \in 1..w |-> ((x % Pow[w]) \div Pow[w - i]) % Base]
Unsigned(s) == LET upTo[k \in 0..Len(s)] == IF k = 0 THEN 0 ELSE upTo[k - 1] * Base + s[k]
               IN  upTo[Len(s)]
Signed(s) == IF 2 * Unsigned(s) < Pow[Len(s)] THEN Unsigned(s)
                                              ELSE Unsigned(s) - Pow[Len(s)]

\* A number lies in memory in the order of its end, and is swapped for the stream
\* if that is little.  (Mutant: it is not.)
InMemory(x, w, e) == IF little[e] THEN Reverse(Digits(x, w)) ELSE Digits(x, w)
Swapped_Never(s, e) == s
Swapped(s, e) == IF little[e] THEN Reverse(s) ELSE s
Written(x, w, e) == Swapped(InMemory(x, w, e), e)

\* A number is read as it lies in memory, after it was swapped back.
Loaded(s, e) == IF little[e] THEN Reverse(s) ELSE s
Read(s, e) == Loaded(Swapped(s, e), e)

\* How many elements the array of a field has: a multiple of the packet's count, or
\* the number in the field before it.
Elements(t, i) == IF t[i].count >= 0 THEN t[i].count * t[FIELD_COUNT].ivalue
                                     ELSE t[i - 1].ivalue

\* fields_size, from field i to field j.  (Mutant: the NUL of a name is forgotten.)
Size_NoNul(t, i) ==
  IF t[i].data = NoData THEN Width[t[i].type] ELSE Width[t[i].type] * (Elements(t, i) - 1)

Size(t, i) ==
  IF t[i].data = NoData THEN Width[t[i].type] ELSE Width[t[i].type] * Elements(t, i)

FieldsSize(t, i, j) ==
  LET upTo[k \in (i - 1)..j] == IF k < i THEN 0 ELSE upTo[k - 1] + Size(t, k) IN upTo[j]

HeaderSize(t) == FieldsSize(t, 0, FIELD_HCRC)
BodySize(t) == FieldsSize(t, FIELD_BMARK, FIELDS_LEN(t) - 1)

-----------------------------------------------------------------------------
(***************************************************************************)
(* The packets                                                             *)
(***************************************************************************)
\* readlink puts no NUL behind the path: a shorter one is followed by what was there.
ProcessName == path \o SubSeq(Preset, Len(path) + 1, Len(Preset))

Sender(m) == IF m = "CONNECT_RESP" THEN "server" ELSE "client"
Receiver(m) == IF m = "CONNECT_RESP" THEN "client" ELSE "server"

Outgoing(m) ==
  CASE m = "CONNECT"      -> MSG_CONNECT_FIELDS(host, ProcessName)
    [] m = "CONNECT_RESP" -> MSG_CONNECT_RESP_FIELDS(0, 1)
    [] m = "DISCONNECT"   -> MSG_COMMON_REQ_FIELDS(MSG_DISCONNECT)

\* The table the receiver fills: empty names, no permission.
Incoming(m) ==
  CASE m = "CONNECT"      -> MSG_CONNECT_FIELDS(<<>>, <<>>)
    [] m = "CONNECT_RESP" -> MSG_CONNECT_RESP_FIELDS(0, 0)
    [] m = "DISCONNECT"   -> MSG_COMMON_REQ_FIELDS(MSG_DISCONNECT)

\* send_packet: the size of the body is entered before anything is written.
Sent(m) == LET t == Outgoing(m) IN [t EXCEPT ![FIELD_BSIZE].ivalue = BodySize(t)]

Starts(m) ==
  /\ msg' = m
  /\ at' = "write" /\ n' = 0
  /\ fields' = Sent(m)
  /\ out' = <<>> /\ bodyBase' = 0
  /\ header' = MSG_COMMON_REQ_FIELDS(MSG_COMMON)
  /\ robj' = Incoming(m) /\ pos' = 0
  /\ ret' = "none"
  /\ UNCHANGED <<little, host, path>>

PacketInit ==
  /\ little \in [{"client", "server"} -> BOOLEAN]
  /\ host \in HostNames /\ path \in Paths
  /\ msg = "none" /\ at = "end" /\ n = 0
  /\ fields = MSG_COMMON_REQ_FIELDS(MSG_COMMON)
  /\ out = <<>> /\ bodyBase = 0
  /\ header = MSG_COMMON_REQ_FIELDS(MSG_COMMON)
  /\ robj = MSG_COMMON_REQ_FIELDS(MSG_COMMON) /\ pos = 0
  /\ ret = "none"

\* The packet is dealt with: its parser returned r.
Ends(r) == at' = "end" /\ ret' = r

-----------------------------------------------------------------------------
(***************************************************************************)
(* serialize_packet                                                        *)
(***************************************************************************)
\* The two check fields get the sum of what is written before them.
Summed(i) ==
  IF i = FIELD_HCRC THEN [fields EXCEPT ![i].ivalue = Crc(out)]
  ELSE IF i = FIELDS_LEN(fields) - 1
       THEN [fields EXCEPT ![i].ivalue = Crc(SubSeq(out, bodyBase + 1, Len(out)))]
       ELSE fields

\* The bytes of field i of table t, written by end e.
Bytes(t, i, e) ==
  IF t[i].data = NoData THEN Written(t[i].ivalue, Width[t[i].type], e)
  ELSE FlattenSeq([k \in 1..Elements(t, i) |-> Written(t[i].data[k], ArrayWidth[t[i].type], e)])

\* An array is counted by the field before it, a number of two or four bytes.
Unnumbered(t, i) == t[i - 1].type \notin {TYPE_SHORT, TYPE_LONG}

SerializeField ==
  /\ at = "write" /\ fields[n].type >= 0
  /\ fields' = Summed(n)
  /\ IF fields[n].data # NoData /\ fields[n].count <= 0 /\ Unnumbered(fields, n)
     THEN Ends("encode") /\ UNCHANGED <<n, out, bodyBase>>
     ELSE /\ out' = out \o Bytes(fields', n, Sender(msg))
          /\ bodyBase' = IF n = FIELD_BMARK - 1 THEN Len(out') ELSE bodyBase
          /\ n' = n + 1
          /\ UNCHANGED <<at, ret>>
  /\ UNCHANGED <<little, host, path, msg, header, robj, pos>>

\* The packet is on its way: the receiver reads a header of the size it expects.
SerializeEnds ==
  /\ at = "write" /\ fields[n].type < 0
  /\ at' = "head" /\ n' = 0
  /\ UNCHANGED <<little, host, path, msg, fields, out, bodyBase, header, robj, pos, ret>>

-----------------------------------------------------------------------------
(***************************************************************************)
(* unserialize_header_packet, unserialize_body_packet                      *)
(***************************************************************************)
\* The stream is handed over in two parts, as the receiver has read them.
HeaderPart == SubSeq(out, 1, HeaderSize(header))
BodyPart == SubSeq(out, HeaderSize(header) + 1, HeaderSize(header) + header[FIELD_BSIZE].ivalue)

\* What field i of t takes from the part s: a scalar is stored, an array filled.
Taken(t, i) == IF t[i].data = NoData THEN Width[t[i].type]
               ELSE IF Elements(t, i) > 0 THEN ArrayWidth[t[i].type] * Elements(t, i) ELSE 0

Parsed(t, i, s, e) ==
  LET b == SubSeq(s, pos + 1, pos + Taken(t, i))
      w == ArrayWidth[t[i].type]
  IN  IF t[i].data = NoData THEN [t EXCEPT ![i].ivalue = Signed(Read(b, e))]
      ELSE [t EXCEPT ![i].data =
              [k \in 1..Elements(t, i) |-> Unsigned(Read(SubSeq(b, (k - 1) * w + 1, k * w), e))]]

\* A stream that is read past its end asserts (underflow).  The stream of a body ends
\* with it on the server, on the client where one as long as a header would.
StreamEnd(s) == IF at = "body" /\ Receiver(msg) = "client" THEN HeaderSize(header) ELSE Len(s)
Underflows(t, i, s) == pos + Taken(t, i) > StreamEnd(s)

\* copy_fields of a header: as far as its types are above 0 and no further than the
\* header's sum.
CopyFields(dest, src) ==
  [i \in DOMAIN dest |->
     IF i <= FIELD_HCRC /\ \A j \in 0..i : src[j].type > 0 THEN src[i] ELSE dest[i]]

\* Both ends look at a mark before they parse, in their own byte order.
MarkFails(s, mark) == Unsigned(Loaded(SubSeq(s, 1, 4), Receiver(msg))) # mark

\* With the header the receiver looks for the table: the client has that of the answer
\* it waits for, the server one for each method it knows.  Any other body is read and
\* not parsed.
UnserializeHeaderField ==
  /\ at = "head" /\ ~Underflows(header, n, HeaderPart)
  /\ header' = Parsed(header, n, HeaderPart, Receiver(msg))
  /\ IF \/ n = FIELD_HMARK /\ (MarkFails(HeaderPart, HEAD_MARK) \/ header'[n].ivalue # HEAD_MARK)
        \/ n = FIELD_HCRC /\ header'[n].ivalue # Crc(SubSeq(HeaderPart, 1, pos))
     THEN Ends("header") /\ UNCHANGED <<n, robj, pos>>
     ELSE IF n < FIELD_HCRC
     THEN n' = n + 1 /\ pos' = pos + Taken(header, n) /\ UNCHANGED <<at, robj, ret>>
     ELSE IF header'[FIELD_METHOD].ivalue # robj[FIELD_METHOD].ivalue
     THEN Ends("method") /\ UNCHANGED <<n, robj, pos>>
     ELSE /\ at' = "body" /\ n' = FIELD_BMARK /\ pos' = 0
          /\ robj' = CopyFields(robj, header')
          /\ UNCHANGED ret
  /\ UNCHANGED <<little, host, path, msg, fields, out, bodyBase>>

\* What the parser asks of an array: that number has to be a scalar.
Uncounted(t, i) ==
  /\ t[i].data # NoData /\ t[i].count < 0
  /\ Unnumbered(t, i) \/ t[i - 1].data # NoData

UnserializeBodyField ==
  /\ at = "body" /\ robj[n].type >= 0 /\ ~Underflows(robj, n, BodyPart)
  /\ robj' = IF Uncounted(robj, n) THEN robj ELSE Parsed(robj, n, BodyPart, Receiver(msg))
  /\ IF \/ n = FIELD_BMARK /\ MarkFails(BodyPart, BODY_MARK)
        \/ Uncounted(robj, n)
        \/ n = FIELDS_LEN(robj) - 1 /\ robj'[n].ivalue # Crc(SubSeq(BodyPart, 1, pos))
     THEN Ends("body") /\ UNCHANGED <<n, pos>>
     ELSE n' = n + 1 /\ pos' = pos + Taken(robj, n) /\ UNCHANGED <<at, ret>>
  /\ UNCHANGED <<little, host, path, msg, fields, out, bodyBase, header>>

UnserializeEnds ==
  /\ at = "body" /\ robj[n].type < 0
  /\ Ends("ok")
  /\ UNCHANGED <<little, host, path, msg, n, fields, out, bodyBase, header, robj, pos>>

-----------------------------------------------------------------------------
\* One end serializes while the other waits, then the other parses.
Working == IF at = "write" THEN Sender(msg) ELSE Receiver(msg)

FieldStep == SerializeField \/ UnserializeHeaderField \/ UnserializeBodyField \/ UnserializeEnds

-----------------------------------------------------------------------------
(***************************************************************************)
(* Properties                                                              *)
(***************************************************************************)
Field == [type : -1..TYPE_LONGLONG, ivalue : Int, count : {-1, 0, 1},
          data : Seq(0..(Base - 1)) \cup {NoData}]

PacketTypeOK ==
  /\ msg \in {"none", "CONNECT", "CONNECT_RESP", "DISCONNECT"}
  /\ at \in {"write", "head", "body", "end"} /\ ret \in {"none", "ok", "encode", "header", "method", "body"}
  /\ n \in Nat /\ pos \in Nat /\ bodyBase \in 0..Len(out)
  /\ out \in Seq(0..(Base - 1))
  /\ \A t \in {fields, header, robj} : t \in [DOMAIN t -> Field]

\* The three walks over a table agree: serialize_packet never writes more than
\* fields_size made room for, a parser never wants more than the sender announced or
\* than its stream has, which would assert, and both use all of it.
StreamsFit ==
  LET Fits(t, s) == pos + Taken(t, n) <= Len(s) /\ ~Underflows(t, n, s)
      room == HeaderSize(fields) + BodySize(fields)
  IN  /\ Len(out) <= room
      /\ msg # "none" /\ at # "write" => Len(out) = room
      /\ at = "head" => Fits(header, HeaderPart)
      /\ at = "body" /\ robj[n].type >= 0 => Fits(robj, BodyPart)
      /\ ret = "ok" => pos = Len(BodyPart)

\* Whatever the byte orders of the two ends, the receiver ends with the sender's
\* table: every number and every name, and no check fails.
RoundTrip == msg # "none" /\ at = "end" => ret = "ok" /\ robj = fields

\* The server is told the client's host, and its program unless that has a path
\* shorter than the text the client's buffer is preset with.
ServerLearnsClient ==
  msg = "CONNECT" /\ at = "end" =>
    /\ robj[9].data = Append(host, 0)
    /\ Len(path) >= Len(Preset) => robj[11].data = Append(path, 0)
=============================================================================
