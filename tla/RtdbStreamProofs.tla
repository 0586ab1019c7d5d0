-------------------------- MODULE RtdbStreamProofs --------------------------
(***************************************************************************)
(* What a session reads is what its client wrote, in order: theorems about *)
(* the reassembly of packets in handle_read, for any sizes of the packets, *)
(* any number of pieces and any clients, killed, cut off or not.           *)
(***************************************************************************)
EXTENDS ConnectServiceProofs

-----------------------------------------------------------------------------
(***************************************************************************)
(* All that a client ever writes is a beginning of the request followed by *)
(* the farewell.  An operation q of a session whose m_packet_header is hd  *)
(* says how much of that its session has read.                             *)
(***************************************************************************)
LenC   == HLen + BLen["CONNECT"]
Stream == Frame("CONNECT") \o Frame("DISCONNECT")

\* The packet whose header is read next, and the packet a read is for.
NextMsg(hd) == IF hd = "none" THEN "CONNECT" ELSE "DISCONNECT"
MsgOf(q, hd) == IF q.part = "head" THEN NextMsg(hd) ELSE hd

MsgBegin(m) == IF m = "CONNECT" THEN 0 ELSE LenC

PartLen(q, hd)   == IF q.part = "head" THEN HLen ELSE BLen[MsgOf(q, hd)]
PartBegin(q, hd) == MsgBegin(MsgOf(q, hd)) + (IF q.part = "head" THEN 0 ELSE HLen)
PartMark(q)      == IF q.part = "head" THEN HMark ELSE BMark
PartCells(q, hd) == IF q.part = "head" THEN HeadCells(MsgOf(q, hd)) ELSE BodyCells(MsgOf(q, hd))

Begun(q, hd) == IF q.kind = "read" THEN PartBegin(q, hd) + PartLen(q, hd) - q.want ELSE LenC

\* A stream holds what comes after the first n bytes.
Follows(s, n) == \A i \in 1..Len(s) : s[i] = Stream[n + i]

\* After n bytes of what client c writes have been read, the others are on the stream.
Along(c, n) ==
  /\ ~sclosed[c]
  /\ n + Len(c2s[c]) <= Len(Stream)
  /\ Follows(c2s[c], n)
  /\ pc[c] \in {"start", "send"} => n + Len(c2s[c]) = 0
  /\ pc[c] \in {"head", "body", "disconnect"} => n + Len(c2s[c]) = LenC

\* What the buffer holds is not the header of m, whatever becomes of its mark.
Differs(buf, m) == \E i \in (MarkLen + 1)..HLen : buf[i] # <<m, "head", i>>

\* A read never takes a part for another: the mark it found first is in place, and
\* left-overs in the buffer never complete the header of another packet.
Reads(q, hd, buf) ==
  /\ \/ q.part = "head" /\ hd \in {"none", "CONNECT"}
     \/ q.part = "body" /\ hd \in {"CONNECT", "DISCONNECT"}
  /\ q.off + q.want <= PartLen(q, hd)
  /\ q.off = 0 => q.want = PartLen(q, hd)
  /\ q.off > 0 => buf[1] = PartMark(q)

InPlace(q, hd, buf) ==
  /\ q.kind = "accept" => hd = "none"
  /\ q.kind \in {"written", "writefail"} => hd = "CONNECT" /\ q.part = "none"
  /\ q.kind = "read" => Reads(q, hd, buf)
  /\ q.kind # "accept" /\ q.part # "body" =>
       \A m \in Messages \ {NextMsg(hd)} : Differs(buf, m)

Aligned(q) ==
  /\ InPlace(q, m_packet_header[q.h], m_recv_buffer[q.h])
  /\ q.kind # "accept" => Along(peer[q.h], Begun(q, m_packet_header[q.h]))

\* A client nobody has accepted has had nothing read.
Waiting == Listening => \A c \in Clients : (\A h \in Handlers : peer[h] # c) => Along(c, 0)

Fresh == \A h \in Handlers : hstate[h] = "none" => m_packet_header[h] = "none"

StreamInv == Waiting /\ Fresh /\ \A q \in pending : Aligned(q)

-----------------------------------------------------------------------------
(***************************************************************************)
(* Facts about the stream and its parts                                    *)
(***************************************************************************)
LEMMA JoinFacts ==
  ASSUME NEW s \in Seq(Cells), NEW t \in Seq(Cells)
  PROVE  /\ s \o t \in Seq(Cells) /\ Len(s \o t) = Len(s) + Len(t)
         /\ \A i \in 1..Len(s) : (s \o t)[i] = s[i]
         /\ \A i \in 1..Len(t) : (s \o t)[Len(s) + i] = t[i]
OBVIOUS

LEMMA SplitFacts ==
  ASSUME NEW s \in Seq(Cells), NEW k \in Nat, k <= Len(s)
  PROVE  /\ Len(s) \in Nat /\ Len(Rest(s, k)) = Len(s) - k /\ Len(Taken(s, k)) = k
         /\ \A i \in 1..(Len(s) - k) : Rest(s, k)[i] = s[k + i]
         /\ \A i \in 1..k : Taken(s, k)[i] = s[i]
BY DEF Taken, Rest

LEMMA StreamFacts ==
  /\ LenC \in Nat \ {0} /\ LenC > HLen
  /\ Stream \in Seq(Cells) /\ Len(Stream) = LenC + HLen + BLen["DISCONNECT"]
  /\ \A i \in 1..LenC : Stream[i] = Frame("CONNECT")[i]
  /\ \A i \in 1..(HLen + BLen["DISCONNECT"]) : Stream[LenC + i] = Frame("DISCONNECT")[i]
<1>1. /\ Frame("CONNECT") \in Seq(Cells) /\ Len(Frame("CONNECT")) = LenC
      /\ Frame("DISCONNECT") \in Seq(Cells)
      /\ Len(Frame("DISCONNECT")) = HLen + BLen["DISCONNECT"]
  BY FrameType, FrameLength, CellFacts DEF LenC
<1>2. LenC \in Nat \ {0} /\ LenC > HLen /\ HLen + BLen["DISCONNECT"] \in Nat
  BY CellFacts DEF LenC
<1>3. /\ Stream \in Seq(Cells) /\ Len(Stream) = Len(Frame("CONNECT")) + Len(Frame("DISCONNECT"))
      /\ \A i \in 1..Len(Frame("CONNECT")) : Stream[i] = Frame("CONNECT")[i]
      /\ \A i \in 1..Len(Frame("DISCONNECT")) :
           Stream[Len(Frame("CONNECT")) + i] = Frame("DISCONNECT")[i]
  BY <1>1, JoinFacts DEF Stream
<1>4. /\ Stream \in Seq(Cells) /\ Len(Stream) = LenC + (HLen + BLen["DISCONNECT"])
      /\ \A i \in 1..LenC : Stream[i] = Frame("CONNECT")[i]
      /\ \A i \in 1..(HLen + BLen["DISCONNECT"]) : Stream[LenC + i] = Frame("DISCONNECT")[i]
  BY <1>1, <1>3
<1>5. Len(Stream) = LenC + HLen + BLen["DISCONNECT"]
  BY <1>2, <1>4, CellFacts
<1> QED
  BY <1>2, <1>4, <1>5

LEMMA CellsAt ==
  ASSUME NEW m \in Messages
  PROVE  /\ \A i \in (MarkLen + 1)..HLen : i \in 1..HLen /\ HeadCells(m)[i] = <<m, "head", i>>
         /\ MarkLen + 1 \in 1..BLen[m] /\ BodyCells(m)[MarkLen + 1] = <<m, "body", MarkLen + 1>>
<1>1. \A i \in (MarkLen + 1)..HLen : i \in 1..HLen /\ ~(i <= MarkLen)
  BY CellFacts
<1>2. MarkLen + 1 \in 1..BLen[m] /\ ~(MarkLen + 1 <= MarkLen)
  BY CellFacts
<1> QED
  BY <1>1, <1>2 DEF HeadCells, BodyCells

\* A part that a read is for: where it is in the stream and what it begins with.
LEMMA PartFacts ==
  ASSUME NEW q, NEW hd,
         \/ q.part = "head" /\ hd \in {"none", "CONNECT"}
         \/ q.part = "body" /\ hd \in {"CONNECT", "DISCONNECT"}
  PROVE  /\ MsgOf(q, hd) \in {"CONNECT", "DISCONNECT"}
         /\ PartLen(q, hd) \in Nat \ {0} /\ PartLen(q, hd) <= Cap /\ MarkLen < PartLen(q, hd)
         /\ PartBegin(q, hd) \in Nat
         /\ PartBegin(q, hd) + PartLen(q, hd) <= Len(Stream)
         /\ PartBegin(q, hd) + PartLen(q, hd) <= LenC \/ LenC <= PartBegin(q, hd)
         /\ \A j \in 1..PartLen(q, hd) : Stream[PartBegin(q, hd) + j] = PartCells(q, hd)[j]
         /\ PartCells(q, hd)[1] = PartMark(q)
<1>1. /\ \A i \in 1..HLen : /\ Stream[i] = HeadCells("CONNECT")[i]
                            /\ Stream[LenC + i] = HeadCells("DISCONNECT")[i]
      /\ \A i \in 1..BLen["CONNECT"] : Stream[HLen + i] = BodyCells("CONNECT")[i]
      /\ \A i \in 1..BLen["DISCONNECT"] : Stream[LenC + HLen + i] = BodyCells("DISCONNECT")[i]
  <2>1. \A i \in 1..HLen : /\ Stream[i] = HeadCells("CONNECT")[i]
                           /\ Stream[LenC + i] = HeadCells("DISCONNECT")[i]
    <3> SUFFICES ASSUME NEW i \in 1..HLen
                 PROVE  /\ Stream[i] = HeadCells("CONNECT")[i]
                        /\ Stream[LenC + i] = HeadCells("DISCONNECT")[i]
      OBVIOUS
    <3>1. i \in 1..LenC /\ i \in 1..(HLen + BLen["DISCONNECT"])
      BY CellFacts DEF LenC
    <3>2. /\ Frame("CONNECT")[i] = HeadCells("CONNECT")[i]
          /\ Frame("DISCONNECT")[i] = HeadCells("DISCONNECT")[i]
      BY CellFacts, FrameLength
    <3> QED
      BY <3>1, <3>2, StreamFacts
  <2>2. \A i \in 1..BLen["CONNECT"] : Stream[HLen + i] = BodyCells("CONNECT")[i]
    <3> SUFFICES ASSUME NEW i \in 1..BLen["CONNECT"]
                 PROVE  Stream[HLen + i] = BodyCells("CONNECT")[i]
      OBVIOUS
    <3>1. HLen + i \in 1..LenC
      BY CellFacts DEF LenC
    <3>2. Frame("CONNECT")[HLen + i] = BodyCells("CONNECT")[i]
      BY CellFacts, FrameLength
    <3> QED
      BY <3>1, <3>2, StreamFacts
  <2>3. \A i \in 1..BLen["DISCONNECT"] : Stream[LenC + HLen + i] = BodyCells("DISCONNECT")[i]
    <3> SUFFICES ASSUME NEW i \in 1..BLen["DISCONNECT"]
                 PROVE  Stream[LenC + HLen + i] = BodyCells("DISCONNECT")[i]
      OBVIOUS
    <3>1. HLen + i \in 1..(HLen + BLen["DISCONNECT"]) /\ LenC + (HLen + i) = LenC + HLen + i
      BY CellFacts, StreamFacts
    <3>2. Frame("DISCONNECT")[HLen + i] = BodyCells("DISCONNECT")[i]
      BY CellFacts, FrameLength
    <3> QED
      BY <3>1, <3>2, StreamFacts
  <2> QED
    BY <2>1, <2>2, <2>3
<1>2. /\ HeadCells("CONNECT")[1] = HMark /\ HeadCells("DISCONNECT")[1] = HMark
      /\ BodyCells("CONNECT")[1] = BMark /\ BodyCells("DISCONNECT")[1] = BMark
  BY CellFacts DEF HeadCells, BodyCells
<1>3. /\ HLen \in Nat \ {0} /\ HLen <= Cap /\ LenC \in Nat \ {0}
      /\ Len(Stream) = LenC + HLen + BLen["DISCONNECT"] /\ LenC = HLen + BLen["CONNECT"]
  BY CapBounds, CellFacts, StreamFacts DEF LenC
<1>4. CASE q.part = "head" /\ hd = "none"
  <2>1. /\ MsgOf(q, hd) = "CONNECT" /\ PartLen(q, hd) = HLen /\ PartBegin(q, hd) = 0
        /\ PartCells(q, hd) = HeadCells("CONNECT") /\ PartMark(q) = HMark
    BY <1>4 DEF MsgOf, NextMsg, PartLen, PartBegin, MsgBegin, PartCells, PartMark
  <2>2. MarkLen < HLen /\ 0 + HLen <= LenC /\ 0 + HLen <= Len(Stream)
        /\ \A j \in 1..HLen : 0 + j = j
    BY <1>3, CellFacts
  <2> QED
    BY <1>1, <1>2, <1>3, <2>1, <2>2
<1>5. CASE q.part = "head" /\ hd = "CONNECT"
  <2>1. /\ MsgOf(q, hd) = "DISCONNECT" /\ PartLen(q, hd) = HLen /\ PartBegin(q, hd) = LenC
        /\ PartCells(q, hd) = HeadCells("DISCONNECT") /\ PartMark(q) = HMark
    BY <1>3, <1>5 DEF MsgOf, NextMsg, PartLen, PartBegin, MsgBegin, PartCells, PartMark
  <2>2. MarkLen < HLen /\ LenC + HLen <= Len(Stream) /\ LenC <= LenC
    BY <1>3, CellFacts, SMTT(30)
  <2> QED
    BY <1>1, <1>2, <1>3, <2>1, <2>2
<1>6. CASE q.part = "body" /\ hd = "CONNECT"
  <2>1. /\ MsgOf(q, hd) = "CONNECT" /\ PartLen(q, hd) = BLen["CONNECT"] /\ PartBegin(q, hd) = HLen
        /\ PartCells(q, hd) = BodyCells("CONNECT") /\ PartMark(q) = BMark
    BY <1>3, <1>6 DEF MsgOf, PartLen, PartBegin, MsgBegin, PartCells, PartMark
  <2>2. /\ BLen["CONNECT"] \in Nat \ {0} /\ BLen["CONNECT"] <= Cap
        /\ MarkLen < BLen["CONNECT"] /\ HLen \in Nat
        /\ HLen + BLen["CONNECT"] <= Len(Stream) /\ HLen + BLen["CONNECT"] <= LenC
        /\ BodyCells("CONNECT")[1] = BMark
    BY <1>2, CellFacts, StreamFacts DEF LenC
  <2> QED
    BY <1>1, <1>2, <2>1, <2>2
<1>7. CASE q.part = "body" /\ hd = "DISCONNECT"
  <2>1. /\ MsgOf(q, hd) = "DISCONNECT" /\ PartLen(q, hd) = BLen["DISCONNECT"]
        /\ PartBegin(q, hd) = LenC + HLen
        /\ PartCells(q, hd) = BodyCells("DISCONNECT") /\ PartMark(q) = BMark
    BY <1>3, <1>7 DEF MsgOf, PartLen, PartBegin, MsgBegin, PartCells, PartMark
  <2>2. /\ BLen["DISCONNECT"] \in Nat \ {0} /\ BLen["DISCONNECT"] <= Cap
        /\ MarkLen < BLen["DISCONNECT"] /\ LenC + HLen \in Nat /\ LenC <= LenC + HLen
        /\ LenC + HLen + BLen["DISCONNECT"] <= Len(Stream)
    BY <1>2, CellFacts, StreamFacts
  <2> QED
    BY <1>1, <1>2, <2>1, <2>2
<1> QED
  BY <1>4, <1>5, <1>6, <1>7

\* Reading k bytes of a stream moves along it.
LEMMA AlongRead ==
  ASSUME NEW c \in Clients, NEW n \in Nat, NEW k \in Nat, Along(c, n),
         c2s[c] \in Seq(Cells), k <= Len(c2s[c]), c2s'[c] = Rest(c2s[c], k),
         pc'[c] = pc[c], sclosed'[c] = sclosed[c]
  PROVE  Along(c, n + k)'
<1>1. /\ Len(c2s[c]) \in Nat /\ Len(c2s'[c]) = Len(c2s[c]) - k
      /\ \A i \in 1..(Len(c2s[c]) - k) : c2s'[c][i] = c2s[c][k + i]
  BY SplitFacts
<1>2. \A j \in 1..Len(c2s[c]) : c2s[c][j] = Stream[n + j]
  BY DEF Along, Follows
<1>3. ASSUME NEW i \in 1..Len(c2s'[c]) PROVE c2s'[c][i] = Stream[(n + k) + i]
  <2>1. i \in 1..(Len(c2s[c]) - k) /\ k + i \in 1..Len(c2s[c]) /\ n + (k + i) = (n + k) + i
    BY <1>1
  <2>2. c2s'[c][i] = c2s[c][k + i] /\ c2s[c][k + i] = Stream[n + (k + i)]
    BY <1>1, <1>2, <2>1
  <2> QED
    BY <2>1, <2>2
<1>4. (n + k) + Len(c2s'[c]) = n + Len(c2s[c])
  <2>1. \A a \in Nat : (n + k) + (a - k) = n + a
    OBVIOUS
  <2> QED
    BY <1>1, <2>1
<1>5. /\ ~sclosed[c]
      /\ n + Len(c2s[c]) <= Len(Stream)
      /\ pc[c] \in {"start", "send"} => n + Len(c2s[c]) = 0
      /\ pc[c] \in {"head", "body", "disconnect"} => n + Len(c2s[c]) = LenC
  BY DEF Along
<1> QED
  BY <1>3, <1>4, <1>5 DEF Along, Follows

LEMMA AlongSame ==
  ASSUME NEW c, NEW n, Along(c, n), c2s'[c] = c2s[c], pc'[c] = pc[c], sclosed'[c] = sclosed[c]
  PROVE  Along(c, n)'
BY DEF Along, Follows

-----------------------------------------------------------------------------
(***************************************************************************)
(* What a read leaves in the buffer                                        *)
(***************************************************************************)
LEMMA ReadCore ==
  ASSUME IInv, NEW p \in pending, p.kind = "read", Aligned(p),
         NEW hd, hd = m_packet_header[p.h],
         NEW k \in Nat \ {0}, k <= Len(c2s[peer[p.h]]), k <= p.want
  PROVE  /\ \A j \in 1..k :
              Received(p, k)[p.off + j] = PartCells(p, hd)[PartLen(p, hd) - p.want + j]
         /\ \A i \in 1..Cap : i <= p.off \/ i > p.off + k =>
              Received(p, k)[i] = m_recv_buffer[p.h][i]
         /\ Received(p, k)[1] = PartMark(p)
         /\ p.part = "head" =>
              \A m \in Messages \ {NextMsg(hd)} : Differs(Received(p, k), m)
<1>c. PICK c \in Clients : c = peer[p.h]
  BY SessionPeer
<1>1. /\ p.off \in Nat /\ p.want \in Nat /\ p.h \in Handlers /\ c2s[c] \in Seq(Cells)
      /\ m_recv_buffer[p.h] \in [1..Cap -> Cells] /\ k <= Len(c2s[c]) /\ Cap \in Nat
  BY <1>c, SessionPeer, CapBounds DEF Ops, IInv, TypeOK, TcpTypeOK, ServerTypeOK
<1>2. /\ Reads(p, hd, m_recv_buffer[p.h]) /\ Along(c, Begun(p, hd))
      /\ p.part = "head" => \A m \in Messages \ {NextMsg(hd)} : Differs(m_recv_buffer[p.h], m)
  BY <1>c DEF Aligned, InPlace, Reads
<1> DEFINE len == PartLen(p, hd)
           begin == PartBegin(p, hd)
           cells == PartCells(p, hd)
           buf == Received(p, k)
<1>3. /\ len \in Nat \ {0} /\ len <= Cap /\ begin \in Nat
      /\ \A j \in 1..len : Stream[begin + j] = cells[j]
      /\ cells[1] = PartMark(p)
      /\ p.off + p.want <= len /\ (p.off = 0 => p.want = len)
      /\ (p.off > 0 => m_recv_buffer[p.h][1] = PartMark(p))
  BY <1>2, PartFacts DEF Reads
<1>4. /\ Begun(p, hd) = begin + len - p.want
      /\ p.part = "head" => len = HLen /\ cells = HeadCells(NextMsg(hd))
  BY DEF Begun, PartLen, PartCells, MsgOf
<1> HIDE DEF len, begin, cells
<1>5. /\ \A j \in 1..k : Taken(c2s[c], k)[j] = c2s[c][j]
      /\ Len(Taken(c2s[c], k)) = k
  BY <1>1, SplitFacts
<1>6. /\ \A i \in 1..Cap : i - p.off \in 1..k => buf[i] = c2s[c][i - p.off]
      /\ \A i \in 1..Cap : i - p.off \notin 1..k => buf[i] = m_recv_buffer[p.h][i]
  BY <1>c, <1>5 DEF Received, Stored
<1> HIDE DEF buf
<1>7. ASSUME NEW j \in 1..k PROVE buf[p.off + j] = cells[len - p.want + j]
  <2>0. /\ j \in Nat \ {0} /\ j <= p.want
        /\ \A o, w, l \in Nat : o + w <= l /\ l <= Cap /\ j <= w =>
             o + j \in 1..Cap /\ (o + j) - o = j /\ l - w + j \in 1..l
    <3>1. j \in Nat \ {0} /\ j <= p.want
      BY <1>1
    <3>2. \A o, w, l \in Nat : o + w <= l /\ l <= Cap /\ j <= w =>
             o + j \in 1..Cap /\ (o + j) - o = j /\ l - w + j \in 1..l
      BY <1>1, <3>1
    <3> QED
      BY <3>1, <3>2
  <2>1. p.off + j \in 1..Cap /\ (p.off + j) - p.off = j /\ len - p.want + j \in 1..len
    BY <1>1, <1>3, <2>0
  <2>2. buf[p.off + j] = c2s[c][j]
    BY <1>6, <2>1
  <2>3. c2s[c][j] = Stream[Begun(p, hd) + j]
    BY <1>1, <1>2 DEF Along, Follows
  <2>4. Begun(p, hd) + j = begin + (len - p.want + j)
    BY <1>1, <1>3, <1>4
  <2> QED
    BY <1>3, <2>1, <2>2, <2>3, <2>4
<1>8. ASSUME NEW i \in 1..Cap, i <= p.off \/ i > p.off + k PROVE buf[i] = m_recv_buffer[p.h][i]
  BY <1>1, <1>6, <1>8
<1>9. buf[1] = PartMark(p)
  <2>1. CASE p.off = 0
    <3>1. buf[p.off + 1] = cells[len - p.want + 1]
      BY <1>7
    <3>2. p.off + 1 = 1 /\ len - p.want + 1 = 1
      BY <1>1, <1>3, <2>1
    <3> QED
      BY <1>3, <3>1, <3>2
  <2>2. CASE p.off > 0
    <3>1. 1 \in 1..Cap /\ 1 <= p.off
      BY <1>1, <1>3, <2>2
    <3>2. buf[1] = m_recv_buffer[p.h][1]
      BY <1>8, <3>1
    <3> QED
      BY <1>3, <2>2, <3>2
  <2> QED
    BY <1>1, <2>1, <2>2
<1>10. ASSUME p.part = "head", NEW m \in Messages \ {NextMsg(hd)} PROVE Differs(buf, m)
  <2>1. PICK i \in (MarkLen + 1)..HLen : m_recv_buffer[p.h][i] # <<m, "head", i>>
    BY <1>2, <1>10 DEF Differs
  <2>2. i \in 1..Cap /\ i \in Nat
    BY <1>1, <1>3, <1>4, <1>10, CellFacts
  <2>3. CASE i <= p.off \/ i > p.off + k
    BY <1>8, <2>1, <2>2, <2>3 DEF Differs
  <2>4. CASE i > p.off /\ i <= p.off + k
    <3>1. PICK j \in 1..k : p.off + j = i
      <4>1. i - p.off \in 1..k /\ p.off + (i - p.off) = i
        BY <1>1, <2>2, <2>4
      <4> QED
        BY <4>1
    <3>2. buf[i] = cells[len - p.want + j] /\ len - p.want + j \in 1..HLen
      <4>1. \A o, w, l \in Nat : o + w <= l /\ j <= w => l - w + j \in 1..l
        OBVIOUS
      <4>2. j <= p.want
        BY <1>1
      <4> QED
        BY <1>1, <1>3, <1>4, <1>7, <1>10, <3>1, <4>1, <4>2
    <3>3. \A x \in 1..HLen : HeadCells(NextMsg(hd))[x] # <<m, "head", i>>
      BY <1>10 DEF HeadCells, HMark
    <3> QED
      BY <1>4, <1>10, <2>1, <3>2, <3>3 DEF Differs
  <2> QED
    BY <1>1, <2>2, <2>3, <2>4
<1> QED
  BY <1>7, <1>8, <1>9, <1>10 DEF buf, cells, len

-----------------------------------------------------------------------------
(***************************************************************************)
(* Steps of the sessions                                                   *)
(***************************************************************************)
LEMMA AlignedNext ==
  ASSUME NEW q, NEW c, NEW n, NEW hd, NEW buf,
         m_packet_header'[q.h] = hd, m_recv_buffer'[q.h] = buf, InPlace(q, hd, buf),
         q.kind # "accept" => peer'[q.h] = c /\ n = Begun(q, hd) /\ Along(c, n)'
  PROVE  Aligned(q)'
BY DEF Aligned, Along, Follows

\* A step of the session of p moves nothing of the others.
LEMMA StreamStep ==
  ASSUME IInv, ServiceInv, StreamInv, NEW p \in pending, NEW new, Completed(p, new),
         UNCHANGED clientVars, Listening' => Listening,
         peer'[p.h] = peer[p.h] \/ peer[p.h] = NoClient,
         \A h \in Handlers \ {p.h} : /\ m_packet_header'[h] = m_packet_header[h]
                                     /\ m_recv_buffer'[h] = m_recv_buffer[h]
                                     /\ peer'[h] = peer[h]
                                     /\ hstate'[h] = "none" => hstate[h] = "none",
         hstate'[p.h] # "none",
         \A c \in Clients \ {peer[p.h]} : c2s'[c] = c2s[c] /\ sclosed'[c] = sclosed[c],
         \A q \in new : Aligned(q)'
  PROVE  StreamInv'
<1>1. NoClient \notin Clients /\ p.h \in Handlers
  BY SessionPeer, ServerAssumption
<1>2. \A c \in Clients \ {peer[p.h]} : \A n : Along(c, n) => Along(c, n)'
  BY AlongSame DEF clientVars
<1>3. Waiting'
  <2> SUFFICES ASSUME Listening', NEW c \in Clients, \A h \in Handlers : peer'[h] # c
               PROVE  Along(c, 0)'
    BY DEF Waiting, Along, Follows
  <2>1. \A h \in Handlers : peer[h] # c
    BY <1>1
  <2> QED
    BY <1>1, <1>2, <2>1 DEF StreamInv, Waiting
<1>4. Fresh'
  BY <1>1 DEF StreamInv, Fresh
<1>5. ASSUME NEW q \in pending, q # p PROVE Aligned(q)'
  <2>1. /\ q.h \in Handlers \ {p.h} /\ Aligned(q)
        /\ q.kind # "accept" => peer[q.h] \in Clients
    BY <1>5, SessionPeer DEF IInv, OneOperation, StreamInv
  <2>2. q.kind # "accept" => peer[q.h] # peer[p.h]
    BY <1>1, <2>1 DEF ServiceInv, OwnPeer
  <2>3. PICK c, hd, buf : c = peer[q.h] /\ hd = m_packet_header[q.h] /\ buf = m_recv_buffer[q.h]
    OBVIOUS
  <2>4. InPlace(q, hd, buf) /\ (q.kind # "accept" => Along(c, Begun(q, hd)))
    BY <2>1, <2>3 DEF Aligned
  <2>5. q.kind # "accept" => Along(c, Begun(q, hd))'
    BY <1>2, <2>1, <2>2, <2>3, <2>4
  <2> QED
    BY <2>1, <2>3, <2>4, <2>5, AlignedNext
<1> QED
  BY <1>3, <1>4, <1>5 DEF Completed, StreamInv

\* What is known of a read before it completes, as values of this state.
LEMMA ReadFacts ==
  ASSUME IInv, ServiceInv, StreamInv, NEW p \in pending, p.kind = "read"
  PROVE  \E c \in Clients, hd \in {"none", "CONNECT", "DISCONNECT"} :
           /\ c = peer[p.h] /\ hd = m_packet_header[p.h] /\ Aligned(p) /\ Along(c, Begun(p, hd))
           /\ Reads(p, hd, m_recv_buffer[p.h])
           /\ c2s[c] \in Seq(Cells) /\ p.h \in Handlers /\ hstate[p.h] = "live"
           /\ p.want \in Nat \ {0} /\ p.off \in Nat /\ Begun(p, hd) \in Nat
<1>1. PICK c \in Clients : c = peer[p.h]
  BY SessionPeer
<1>2. PICK hd : hd = m_packet_header[p.h]
  OBVIOUS
<1>3. Aligned(p) /\ Along(c, Begun(p, hd)) /\ Reads(p, hd, m_recv_buffer[p.h])
  BY <1>1, <1>2 DEF StreamInv, Aligned, InPlace
<1>4. /\ c2s[c] \in Seq(Cells) /\ p.h \in Handlers /\ hstate[p.h] = "live"
      /\ p.want \in Nat \ {0} /\ p.off \in Nat
  BY <1>1, SessionPeer, CapBounds DEF Ops, IInv, TypeOK, TcpTypeOK, ServiceInv, Underway
<1>5. hd \in {"none", "CONNECT", "DISCONNECT"} /\ Begun(p, hd) \in Nat
  <2>1. /\ hd \in {"none", "CONNECT", "DISCONNECT"}
        /\ PartLen(p, hd) \in Nat /\ PartBegin(p, hd) \in Nat /\ p.off + p.want <= PartLen(p, hd)
    BY <1>3, PartFacts DEF Reads
  <2>2. Begun(p, hd) = PartBegin(p, hd) + PartLen(p, hd) - p.want
    BY DEF Begun
  <2> QED
    BY <1>4, <2>1, <2>2
<1> QED
  BY <1>1, <1>2, <1>3, <1>4, <1>5

\* A read of k bytes by p, after which its session has the buffer buf, the header hd and
\* the operation q in progress.
LEMMA ReadStep ==
  ASSUME IInv, ServiceInv, StreamInv, NEW p \in pending, p.kind = "read",
         NEW k \in Nat, k <= Len(c2s[peer[p.h]]), Consumed(p, k),
         NEW old, old = m_packet_header[p.h], NEW hd, NEW buf, NEW q, Completed(p, {q}),
         m_recv_buffer' = [m_recv_buffer EXCEPT ![p.h] = buf],
         m_packet_header' = [m_packet_header EXCEPT ![p.h] = hd],
         UNCHANGED <<run, hstate, peer, sclosed, clientVars>>,
         q.h = p.h, q.kind # "accept", InPlace(q, hd, buf), Begun(q, hd) = Begun(p, old) + k
  PROVE  StreamInv'
<1>1. PICK c \in Clients :
           /\ c = peer[p.h] /\ Along(c, Begun(p, old))
           /\ c2s[c] \in Seq(Cells) /\ p.h \in Handlers /\ hstate[p.h] = "live"
           /\ Begun(p, old) \in Nat
  BY ReadFacts
<1>2. /\ m_recv_buffer'[p.h] = buf /\ m_packet_header'[p.h] = hd
      /\ c2s'[c] = Rest(c2s[c], k)
      /\ \A d \in Clients \ {c} : c2s'[d] = c2s[d]
  BY <1>1 DEF Consumed, IInv, TypeOK, TcpTypeOK, ServerTypeOK
<1>3. Along(c, Begun(p, old) + k)'
  BY <1>1, <1>2, AlongRead DEF clientVars
<1>4. Aligned(q)'
  BY <1>1, <1>2, <1>3, AlignedNext
<1>5. /\ \A h \in Handlers \ {p.h} : /\ m_packet_header'[h] = m_packet_header[h]
                                     /\ m_recv_buffer'[h] = m_recv_buffer[h]
      /\ Listening' => Listening
  BY DEF Listening
<1> QED
  BY <1>1, <1>2, <1>4, <1>5, StreamStep

LEMMA AcceptStream ==
  ASSUME IInv, ServiceInv, StreamInv, NEW p \in pending, NEW n \in Handlers, NEW c \in Clients,
         HandleAccept(p, n, c), UNCHANGED clientVars
  PROVE  StreamInv'
<1>1. /\ p.kind = "accept" /\ c \in Backlog /\ peer' = [peer EXCEPT ![p.h] = c]
      /\ hstate' = [hstate EXCEPT ![p.h] = "live", ![n] = "accepting"] /\ hstate[n] = "none"
      /\ m_recv_buffer' = [m_recv_buffer EXCEPT ![p.h] = Resized(m_recv_buffer[p.h], HLen)]
      /\ Completed(p, {HeadRead(p.h), AcceptOp(n)})
      /\ run = "running" /\ UNCHANGED <<run, m_packet_header, c2s, sclosed>>
  BY DEF HandleAccept, NextAccept, Serving, tcpVars
<1>2. /\ p.h \in Handlers /\ hstate[p.h] = "accepting" /\ peer[p.h] = NoClient
      /\ peer \in [Handlers -> Clients \cup {NoClient}] /\ NoClient \notin Clients
      /\ hstate \in [Handlers -> {"none", "accepting", "live", "freed"}]
      /\ m_recv_buffer \in [Handlers -> [1..Cap -> Cells]]
  BY <1>1, SessionPeer, ServerAssumption DEF IInv, OneOperation, PeerInv, TypeOK, ServerTypeOK
<1>3. m_packet_header[p.h] = "none" /\ m_packet_header[n] = "none"
  BY <1>1 DEF StreamInv, Aligned, InPlace, Fresh
<1>4. Along(c, 0)'
  <2>1. Along(c, 0)
    BY <1>1 DEF StreamInv, Waiting, Listening, Backlog
  <2> QED
    BY <1>1, <2>1, AlongSame DEF clientVars
<1>5. Aligned(HeadRead(p.h))'
  <2> DEFINE q == HeadRead(p.h)
             buf == Resized(m_recv_buffer[p.h], HLen)
  <2>1. q.h = p.h /\ q.kind = "read" /\ q.part = "head" /\ q.off = 0 /\ q.want = HLen
    BY DEF HeadRead, Op
  <2>2. \A m \in Messages : Differs(buf, m)
    <3>1. buf[HLen] = Zero /\ HLen \in (MarkLen + 1)..HLen
      BY CapBounds, CellFacts DEF Resized
    <3> QED
      BY <3>1 DEF Differs, Zero
  <2>3. m_recv_buffer'[p.h] = buf
    BY <1>1, <1>2
  <2> HIDE DEF q, buf
  <2>4. PartLen(q, "none") = HLen /\ PartBegin(q, "none") = 0
    BY <2>1 DEF PartLen, PartBegin, MsgBegin, MsgOf, NextMsg
  <2>5. InPlace(q, "none", buf) /\ Begun(q, "none") = 0
    BY <2>1, <2>2, <2>4, CellFacts DEF InPlace, Reads, Begun
  <2>6. peer'[p.h] = c /\ m_packet_header'[p.h] = "none"
    BY <1>1, <1>2, <1>3
  <2> QED
    BY <1>4, <2>1, <2>3, <2>5, <2>6, AlignedNext DEF q
<1>6. Aligned(AcceptOp(n))'
  <2>1. AcceptOp(n).h = n /\ AcceptOp(n).kind = "accept"
    BY DEF AcceptOp, Op
  <2> QED
    BY <1>1, <1>3, <2>1 DEF Aligned, InPlace
<1>7. /\ hstate'[p.h] # "none" /\ \A h \in Handlers : hstate'[h] = "none" => hstate[h] = "none"
      /\ \A h \in Handlers \ {p.h} : peer'[h] = peer[h] /\ m_recv_buffer'[h] = m_recv_buffer[h]
      /\ Listening' => Listening
  BY <1>1, <1>2 DEF Listening
<1> QED
  BY <1>1, <1>2, <1>5, <1>6, <1>7, StreamStep

\* A step that ends its operation and moves no byte.
LEMMA DroppedStream ==
  ASSUME IInv, ServiceInv, StreamInv, NEW p \in pending, Completed(p, {}), UNCHANGED clientVars,
         Listening' => Listening,
         UNCHANGED <<m_packet_header, m_recv_buffer, c2s>>,
         peer' = peer \/ (peer[p.h] = NoClient /\ \E c : peer' = [peer EXCEPT ![p.h] = c]),
         \E st \in {"live", "freed"} : hstate' = [hstate EXCEPT ![p.h] = st]
                                          \/ (UNCHANGED hstate /\ p.kind # "accept"),
         \A c \in Clients \ {peer[p.h]} : sclosed'[c] = sclosed[c]
  PROVE  StreamInv'
<1>1. /\ p.h \in Handlers
      /\ p.kind # "accept" => hstate[p.h] = "live"
      /\ hstate \in [Handlers -> {"none", "accepting", "live", "freed"}]
      /\ peer \in [Handlers -> Clients \cup {NoClient}]
  BY SessionPeer DEF IInv, TypeOK, ServerTypeOK
<1>2. /\ \A h \in Handlers \ {p.h} : peer'[h] = peer[h] /\ (hstate'[h] = "none" => hstate[h] = "none")
      /\ hstate'[p.h] # "none" /\ (peer'[p.h] = peer[p.h] \/ peer[p.h] = NoClient)
  BY <1>1
<1> QED
  BY <1>2, StreamStep

\* handle_packet_header decodes the header that was due.
LEMMA HeaderStream ==
  ASSUME IInv, ServiceInv, StreamInv, NEW p \in pending, NEW m \in Messages,
         HandlePacketHeader(p, m), UNCHANGED clientVars
  PROVE  StreamInv'
<1>1. /\ FullRead(p) /\ Consumed(p, p.want) /\ p.kind = "read"
      /\ MarkIs(Received(p, p.want), HMark) /\ HoldsHead(Received(p, p.want), m)
      /\ m_packet_header' = [m_packet_header EXCEPT ![p.h] = m]
      /\ m_recv_buffer' = [m_recv_buffer EXCEPT ![p.h] = Resized(Received(p, p.want), BLen[m])]
      /\ Completed(p, {BodyRead(p.h, m)})
      /\ UNCHANGED <<run, hstate, peer, sclosed>>
  BY DEF HandlePacketHeader, FullRead
<1>2. PICK c \in Clients, hd \in {"none", "CONNECT", "DISCONNECT"} :
           /\ c = peer[p.h] /\ hd = m_packet_header[p.h] /\ Aligned(p) /\ Along(c, Begun(p, hd))
           /\ Reads(p, hd, m_recv_buffer[p.h])
           /\ c2s[c] \in Seq(Cells) /\ p.h \in Handlers /\ hstate[p.h] = "live"
           /\ p.want \in Nat \ {0} /\ p.off \in Nat /\ Begun(p, hd) \in Nat
  BY <1>1, ReadFacts
<1>3. p.want <= Len(c2s[peer[p.h]]) /\ p.want <= p.want
  BY <1>1, <1>2 DEF FullRead
<1>4. /\ Received(p, p.want)[1] = PartMark(p)
      /\ p.part = "head" =>
              \A r \in Messages \ {NextMsg(hd)} : Differs(Received(p, p.want), r)
  BY <1>1, <1>2, <1>3, ReadCore
<1>5. p.part = "head" /\ hd \in {"none", "CONNECT"}
  <2>1. PartMark(p) = HMark
    BY <1>1, <1>4, CellFacts DEF MarkIs
  <2> QED
    BY <1>2, <2>1 DEF PartMark, Reads, HMark, BMark
<1>6. m = NextMsg(hd)
  <2>1. \A i \in (MarkLen + 1)..HLen : Received(p, p.want)[i] = <<m, "head", i>>
    BY <1>1, CellsAt DEF HoldsHead
  <2> QED
    BY <1>4, <1>5, <2>1 DEF Differs
<1> DEFINE q == BodyRead(p.h, m)
           buf == Resized(Received(p, p.want), BLen[m])
<1>7. /\ q.h = p.h /\ q.kind = "read" /\ q.part = "body" /\ q.off = 0 /\ q.want = BLen[m]
      /\ BLen[m] \in Nat
  BY CellFacts DEF BodyRead, Op
<1> HIDE DEF q, buf
<1>8. /\ PartLen(q, m) = BLen[m] /\ MsgOf(q, m) = m /\ MsgOf(p, hd) = m /\ PartLen(p, hd) = HLen
      /\ PartBegin(q, m) = PartBegin(p, hd) + HLen /\ PartBegin(p, hd) \in Nat
      /\ m \in {"CONNECT", "DISCONNECT"}
  BY <1>5, <1>6, <1>7, StreamFacts, CellFacts DEF PartLen, PartBegin, MsgBegin, MsgOf, NextMsg
<1>9. InPlace(q, m, buf)
  BY <1>7, <1>8 DEF InPlace, Reads
<1>10. Begun(q, m) = Begun(p, hd) + p.want
  BY <1>1, <1>2, <1>7, <1>8, CellFacts DEF Begun
<1> QED
  BY <1>1, <1>2, <1>3, <1>7, <1>9, <1>10, ReadStep DEF q, buf

\* handle_read reads the rest of the part it has begun.
LEMMA PartialStream ==
  ASSUME IInv, ServiceInv, StreamInv, NEW p \in pending, NEW k \in 1..Cap,
         HandleReadPartial(p, k), UNCHANGED clientVars
  PROVE  StreamInv'
<1> DEFINE q == Op(p.h, "read", NextOffset(p, k), Remaining(p, k), p.piece + 1, p.part)
<1>1. /\ Consumed(p, k) /\ p.kind = "read" /\ k <= Len(c2s[peer[p.h]]) /\ k < p.want
      /\ m_recv_buffer' = [m_recv_buffer EXCEPT ![p.h] = Received(p, k)]
      /\ UNCHANGED <<m_packet_header, run, hstate, peer, sclosed>> /\ Completed(p, {q})
  BY DEF HandleReadPartial
<1>2. PICK c \in Clients, hd \in {"none", "CONNECT", "DISCONNECT"} :
           /\ c = peer[p.h] /\ hd = m_packet_header[p.h] /\ Aligned(p) /\ Along(c, Begun(p, hd))
           /\ Reads(p, hd, m_recv_buffer[p.h])
           /\ c2s[c] \in Seq(Cells) /\ p.h \in Handlers /\ hstate[p.h] = "live"
           /\ p.want \in Nat \ {0} /\ p.off \in Nat /\ Begun(p, hd) \in Nat
  BY <1>1, ReadFacts
<1>3. k \in Nat \ {0} /\ k <= p.want
  BY <1>1, <1>2, CapBounds
<1>4. /\ Received(p, k)[1] = PartMark(p)
      /\ p.part = "head" => \A r \in Messages \ {NextMsg(hd)} : Differs(Received(p, k), r)
  BY <1>1, <1>2, <1>3, ReadCore
<1>5. /\ q.h = p.h /\ q.kind = "read" /\ q.part = p.part /\ q.off = k /\ q.want = p.want - k
  BY DEF Op, NextOffset, Remaining
<1> HIDE DEF q
<1>6. /\ PartLen(q, hd) = PartLen(p, hd) /\ PartBegin(q, hd) = PartBegin(p, hd)
      /\ PartMark(q) = PartMark(p) /\ PartLen(p, hd) \in Nat /\ PartBegin(p, hd) \in Nat
      /\ p.off + p.want <= PartLen(p, hd)
  BY <1>2, <1>5, PartFacts DEF PartLen, PartBegin, MsgBegin, PartMark, MsgOf, Reads
<1>7. Reads(q, hd, Received(p, k))
  <2>1. q.off # 0 /\ q.off + q.want <= PartLen(q, hd)
    BY <1>2, <1>3, <1>5, <1>6
  <2> QED
    BY <1>2, <1>4, <1>5, <1>6, <2>1 DEF Reads
<1>8. InPlace(q, hd, Received(p, k))
  BY <1>4, <1>5, <1>7 DEF InPlace, Reads
<1>9. Begun(q, hd) = Begun(p, hd) + k
  BY <1>1, <1>2, <1>3, <1>5, <1>6 DEF Begun
<1>10. m_packet_header' = [m_packet_header EXCEPT ![p.h] = hd]
  BY <1>1, <1>2 DEF IInv, TypeOK, ServerTypeOK
<1> QED
  BY <1>1, <1>2, <1>3, <1>5, <1>8, <1>9, <1>10, ReadStep

\* msg_connect answers only a request that was read to its end.
LEMMA ConnectStream ==
  ASSUME IInv, ServiceInv, StreamInv, NEW p \in pending, MsgConnect(p), UNCHANGED clientVars
  PROVE  StreamInv'
<1>1. PICK ok \in BOOLEAN : Completed(p, {WriteOp(p.h, ok)})
  BY Zenon DEF MsgConnect, Answering
<1>2. /\ FullRead(p) /\ Consumed(p, p.want) /\ p.kind = "read"
      /\ MarkIs(Received(p, p.want), BMark) /\ HoldsBody(Received(p, p.want), "CONNECT")
      /\ m_packet_header[p.h] = "CONNECT"
      /\ m_recv_buffer' = [m_recv_buffer EXCEPT ![p.h] = Received(p, p.want)]
      /\ UNCHANGED <<run, hstate, peer, sclosed, m_packet_header>>
  BY DEF MsgConnect, FullRead
<1>3. PICK c \in Clients, hd \in {"none", "CONNECT", "DISCONNECT"} :
           /\ c = peer[p.h] /\ hd = m_packet_header[p.h] /\ Aligned(p) /\ Along(c, Begun(p, hd))
           /\ Reads(p, hd, m_recv_buffer[p.h])
           /\ c2s[c] \in Seq(Cells) /\ p.h \in Handlers /\ hstate[p.h] = "live"
           /\ p.want \in Nat \ {0} /\ p.off \in Nat /\ Begun(p, hd) \in Nat
  BY <1>2, ReadFacts
<1>4. p.want <= Len(c2s[peer[p.h]]) /\ p.want <= p.want
  BY <1>2, <1>3 DEF FullRead
<1>5. Received(p, p.want)[1] = PartMark(p)
  BY <1>2, <1>3, <1>4, ReadCore
<1>6. p.part = "body" /\ hd = "CONNECT"
  <2>1. PartMark(p) = BMark
    BY <1>2, <1>5, CellFacts DEF MarkIs
  <2> QED
    BY <1>2, <1>3, <2>1 DEF PartMark, Reads, HMark, BMark
<1> DEFINE q == WriteOp(p.h, ok)
<1>7. q.h = p.h /\ q.kind \in {"written", "writefail"} /\ q.part = "none"
  BY DEF WriteOp, Op
<1> HIDE DEF q
<1>8. \A r \in Messages : Differs(Received(p, p.want), r)
  <2>1. MarkLen + 1 \in (MarkLen + 1)..HLen /\ MarkLen + 1 \in 1..BLen["CONNECT"]
    BY CellFacts
  <2>2. Received(p, p.want)[MarkLen + 1] = <<"CONNECT", "body", MarkLen + 1>>
    BY <1>2, CellFacts, CellsAt DEF HoldsBody
  <2> QED
    BY <2>1, <2>2 DEF Differs
<1>9. InPlace(q, "CONNECT", Received(p, p.want))
  BY <1>7, <1>8 DEF InPlace
<1>10. Begun(q, "CONNECT") = Begun(p, hd) + p.want
  <2>1. /\ PartLen(p, hd) = BLen["CONNECT"] /\ PartBegin(p, hd) = HLen /\ Begun(q, "CONNECT") = LenC
    BY <1>6, <1>7, CellFacts DEF PartLen, PartBegin, MsgBegin, MsgOf, Begun
  <2> QED
    BY <1>2, <1>3, <2>1, CellFacts DEF Begun, LenC
<1>11. m_packet_header' = [m_packet_header EXCEPT ![p.h] = "CONNECT"]
  BY <1>2 DEF IInv, TypeOK, ServerTypeOK
<1>12. Completed(p, {q}) /\ q.h = p.h /\ q.kind # "accept"
  BY <1>1, <1>7 DEF q
<1>13. p.want \in Nat
  BY <1>3
<1> QED
  BY <1>2, <1>3, <1>4, <1>9, <1>10, <1>11, <1>12, <1>13, ReadStep

LEMMA OpStream ==
  ASSUME IInv, ServiceInv, StreamInv, NEW p \in pending, OpStep(p), UNCHANGED clientVars
  PROVE  StreamInv'
<1>t. /\ p \in Ops /\ p.h \in Handlers
      /\ p.kind # "accept" => peer[p.h] \in Clients /\ hstate[p.h] = "live"
      /\ m_packet_header \in [Handlers -> Messages \cup {"none", "garbage"}]
      /\ m_recv_buffer \in [Handlers -> [1..Cap -> Cells]]
      /\ sclosed \in [Clients -> BOOLEAN]
      /\ c2s \in [Clients -> Seq(Cells)]
  BY SessionPeer DEF IInv, TypeOK, TcpTypeOK, ServerTypeOK
<1>1. ASSUME NEW n \in Handlers, NEW c \in Clients, HandleAccept(p, n, c) PROVE StreamInv'
  BY <1>1, AcceptStream
<1>2. ASSUME NEW c \in Clients, HandleAcceptThrows(p, c) PROVE StreamInv'
  <2>1. /\ p.kind = "accept" /\ peer' = [peer EXCEPT ![p.h] = c] /\ run = "running"
        /\ hstate' = [hstate EXCEPT ![p.h] = "live"] /\ Completed(p, {})
        /\ UNCHANGED <<m_packet_header, m_recv_buffer, c2s, sclosed>>
    BY <1>2 DEF HandleAcceptThrows, Thrown, Serving, tcpVars
  <2>2. peer[p.h] = NoClient /\ Listening
    BY <1>t, <2>1 DEF IInv, OneOperation, PeerInv, Listening
  <2> QED
    BY <2>1, <2>2, DroppedStream
<1>3. CASE HandleAcceptError(p)
  <2>1. /\ hstate' = [hstate EXCEPT ![p.h] = "freed"] /\ Completed(p, {})
        /\ UNCHANGED <<run, peer, m_packet_header, m_recv_buffer, c2s, sclosed>>
    BY <1>3 DEF HandleAcceptError, tcpVars
  <2> QED
    BY <2>1, DroppedStream DEF Listening
<1>4. ASSUME Close(p), p.kind # "accept", run = "running"
      PROVE  /\ \E st \in {"live", "freed"} : hstate' = [hstate EXCEPT ![p.h] = st]
                                                \/ (UNCHANGED hstate /\ p.kind # "accept")
             /\ \A c \in Clients \ {peer[p.h]} : sclosed'[c] = sclosed[c]
             /\ Completed(p, {}) /\ Listening /\ hstate'[p.h] # "none"
             /\ \A h \in Handlers : hstate'[h] = "none" => hstate[h] = "none"
  <2>1. hstate \in [Handlers -> {"none", "accepting", "live", "freed"}]
    BY DEF IInv, TypeOK, ServerTypeOK
  <2>2. CASE UNCHANGED <<hstate, sclosed>> /\ Thrown(p)
    BY <1>t, <1>4, <2>1, <2>2 DEF Thrown, Listening
  <2>3. CASE /\ hstate' = [hstate EXCEPT ![p.h] = "freed"] /\ Completed(p, {})
             /\ sclosed' = [sclosed EXCEPT ![peer[p.h]] = TRUE]
    BY <1>t, <1>4, <2>1, <2>3 DEF Listening
  <2> QED
    BY <1>4, <2>2, <2>3 DEF Close
<1>5. CASE HandleReadError(p) \/ HandleWriteError(p)
  <2>1. /\ Close(p) /\ run = "running" /\ p.kind # "accept"
        /\ UNCHANGED <<peer, m_packet_header, m_recv_buffer, c2s>>
    BY <1>5 DEF HandleReadError, HandleWriteError, Serving
  <2> QED
    BY <1>4, <2>1, DroppedStream
<1>6. \A d \in Clients \ {peer[p.h]} : \A k : Consumed(p, k) => c2s'[d] = c2s[d]
  BY <1>t DEF Consumed
<1>7. CASE MsgDisconnect(p)
  <2>1. /\ Close(p) /\ run = "running" /\ p.kind # "accept" /\ Consumed(p, p.want)
        /\ UNCHANGED <<peer, m_packet_header>>
        /\ m_recv_buffer' = [m_recv_buffer EXCEPT ![p.h] = Received(p, p.want)]
    BY <1>7 DEF MsgDisconnect, FullRead, Serving
  <2>2. \A h \in Handlers \ {p.h} : m_recv_buffer'[h] = m_recv_buffer[h]
    BY <1>t, <2>1
  <2> QED
    BY <1>4, <1>6, <2>1, <2>2, StreamStep
<1>8. CASE UnknownMark(p) \/ BadHeader(p) \/ BadBody(p)
  <2>1. /\ Consumed(p, p.want) /\ Completed(p, {}) /\ p.kind # "accept"
        /\ UNCHANGED <<run, hstate, peer, sclosed>>
        /\ m_recv_buffer' = [m_recv_buffer EXCEPT ![p.h] = Received(p, p.want)]
        /\ m_packet_header' = m_packet_header
             \/ m_packet_header' = [m_packet_header EXCEPT ![p.h] = "garbage"]
    BY <1>8 DEF UnknownMark, BadHeader, BadBody, Abandoned, FullRead
  <2>2. \A h \in Handlers \ {p.h} : /\ m_recv_buffer'[h] = m_recv_buffer[h]
                                      /\ m_packet_header'[h] = m_packet_header[h]
    BY <1>t, <2>1
  <2>3. hstate'[p.h] # "none" /\ (Listening' => Listening)
    BY <1>t, <2>1 DEF Listening
  <2> QED
    BY <1>6, <2>1, <2>2, <2>3, StreamStep
<1>9. CASE BodyUnderflow(p)
  <2>1. pending' = {} /\ ~Listening' /\ UNCHANGED <<hstate, m_packet_header>>
    BY <1>9 DEF BodyUnderflow, SocketsClosed, Listening, sessionVars
  <2> QED
    BY <2>1 DEF StreamInv, Waiting, Fresh
<1>10. CASE HandleWrite(p)
  <2> DEFINE q == HeadRead(p.h)
  <2>1. /\ p.kind = "written" /\ Completed(p, {q})
        /\ UNCHANGED <<run, hstate, peer, m_packet_header, m_recv_buffer, c2s, sclosed>>
    BY <1>10 DEF HandleWrite, sessionVars, tcpVars
  <2>2. q.h = p.h /\ q.kind = "read" /\ q.part = "head" /\ q.off = 0 /\ q.want = HLen
    BY DEF HeadRead, Op
  <2> HIDE DEF q
  <2>3. PICK c, hd, buf : c = peer[p.h] /\ hd = m_packet_header[p.h] /\ buf = m_recv_buffer[p.h]
    OBVIOUS
  <2>4. /\ hd = "CONNECT" /\ \A m \in Messages \ {"DISCONNECT"} : Differs(buf, m)
        /\ Along(c, LenC)
    BY <2>1, <2>3 DEF StreamInv, Aligned, Begun, InPlace, NextMsg
  <2>5. Along(c, LenC)'
    BY <2>1, <2>4, AlongSame DEF clientVars
  <2>6. /\ MsgOf(q, hd) = "DISCONNECT" /\ PartLen(q, hd) = HLen /\ PartBegin(q, hd) = LenC
        /\ LenC \in Nat /\ HLen \in Nat
    BY <2>2, <2>4, StreamFacts, CellFacts DEF MsgOf, NextMsg, PartLen, PartBegin, MsgBegin
  <2>7. InPlace(q, hd, buf) /\ Begun(q, hd) = LenC
    BY <2>2, <2>4, <2>6 DEF InPlace, Reads, Begun, NextMsg
  <2>8. Aligned(q)'
    BY <2>1, <2>2, <2>3, <2>5, <2>7, AlignedNext
  <2>9. hstate'[p.h] # "none" /\ (Listening' => Listening)
    BY <1>t, <2>1 DEF Listening
  <2> QED
    BY <2>1, <2>8, <2>9, StreamStep
<1> QED
  BY <1>1, <1>2, <1>3, <1>5, <1>7, <1>8, <1>9, <1>10, HeaderStream, PartialStream, ConnectStream
  DEF OpStep

-----------------------------------------------------------------------------
(***************************************************************************)
(* Steps of the clients and of the threads                                 *)
(***************************************************************************)
\* What is left on a stream after n bytes ends after e bytes.
Reaches(s, n, e) == Follows(s, n) /\ n + Len(s) = e /\ e <= Len(Stream)

\* What a client writes continues what it has written.
LEMMA Continued ==
  ASSUME NEW m \in {"CONNECT", "DISCONNECT"}, NEW k \in Nat, k <= Len(Frame(m)),
         NEW s \in Seq(Cells), NEW n \in Nat, NEW w \in Nat,
         w = MsgBegin(m),
         n + Len(s) = w, Follows(s, n),
         NEW u, u = s \o Taken(Frame(m), k), NEW e, e = w + k
  PROVE  Reaches(u, n, e)
<1>1. /\ m \in Messages /\ Frame(m) \in Seq(Cells) /\ Len(Frame(m)) = HLen + BLen[m]
      /\ Len(s) \in Nat
  <2>1. m \in Messages
    BY CellFacts
  <2>2. Frame(m) \in Seq(Cells)
    BY <2>1, FrameType
  <2>3. Len(Frame(m)) = HLen + BLen[m]
    BY <2>1, FrameLength
  <2> QED
    BY <2>1, <2>2, <2>3
<1>2. PICK t : t = Taken(Frame(m), k)
  OBVIOUS
<1>3. t \in Seq(Cells) /\ Len(t) = k /\ \A i \in 1..k : t[i] = Frame(m)[i]
  BY <1>1, <1>2, SplitFacts, SplitType
<1>4. /\ Len(u) = Len(s) + k
      /\ \A i \in 1..Len(s) : u[i] = s[i]
      /\ \A i \in 1..k : u[Len(s) + i] = t[i]
  <2>1. u = s \o t
    BY <1>2
  <2>2. /\ Len(s \o t) = Len(s) + Len(t)
        /\ \A i \in 1..Len(s) : (s \o t)[i] = s[i]
        /\ \A i \in 1..Len(t) : (s \o t)[Len(s) + i] = t[i]
    BY <1>3, JoinFacts
  <2> QED
    BY <1>3, <2>1, <2>2
<1>5. w + k <= Len(Stream) /\ \A i \in 1..k : Stream[w + i] = t[i]
  <2>1. CASE m = "CONNECT"
    <3>1. w = 0 /\ k <= LenC /\ LenC \in Nat /\ LenC <= Len(Stream)
      BY <1>1, <2>1, StreamFacts, CellFacts, SMTT(30) DEF LenC, MsgBegin
    <3>2. \A i \in 1..k : i \in 1..LenC /\ w + i = i
      BY <3>1
    <3>3. \A i \in 1..k : Stream[i] = t[i]
      <4>1. \A i \in 1..k : Stream[i] = Frame("CONNECT")[i]
        BY <3>2, StreamFacts
      <4> QED
        BY <1>3, <2>1, <4>1
    <3>4. w + k <= Len(Stream)
      BY <3>1, StreamFacts
    <3> QED
      BY <3>2, <3>3, <3>4
  <2>2. CASE m = "DISCONNECT"
    <3>1. /\ w = LenC /\ k <= HLen + BLen["DISCONNECT"] /\ HLen + BLen["DISCONNECT"] \in Nat
          /\ Len(Stream) = LenC + (HLen + BLen["DISCONNECT"])
      <4>1. w = LenC
        BY <2>2 DEF MsgBegin
      <4>2. k <= HLen + BLen["DISCONNECT"] /\ HLen + BLen["DISCONNECT"] \in Nat
        BY <1>1, <2>2, CellFacts
      <4>3. Len(Stream) = LenC + (HLen + BLen["DISCONNECT"])
        <5>1. LenC \in Nat /\ HLen \in Nat /\ BLen["DISCONNECT"] \in Nat
          BY StreamFacts, CellFacts
        <5>2. LenC + HLen + BLen["DISCONNECT"] = LenC + (HLen + BLen["DISCONNECT"])
          BY <5>1, SMTT(30)
        <5> QED
          BY <5>2, StreamFacts
      <4> QED
        BY <4>1, <4>2, <4>3
    <3>2. \A i \in 1..k : i \in 1..(HLen + BLen["DISCONNECT"])
      BY <3>1
    <3>3. \A i \in 1..k : Stream[w + i] = t[i]
      BY <1>3, <2>2, <3>1, <3>2, StreamFacts
    <3>4. w + k <= Len(Stream)
      BY <3>1, StreamFacts
    <3> QED
      BY <3>3, <3>4
  <2> QED
    BY <2>1, <2>2
<1>6. ASSUME NEW i \in 1..Len(u) PROVE u[i] = Stream[n + i]
  <2>1. CASE i <= Len(s)
    BY <1>1, <1>4, <2>1 DEF Follows
  <2>2. CASE i > Len(s)
    <3>1. PICK j \in 1..k : i = Len(s) + j
      <4>1. i - Len(s) \in 1..k /\ i = Len(s) + (i - Len(s))
        BY <1>1, <1>4, <2>2
      <4> QED
        BY <4>1
    <3>2. n + i = w + j
      BY <1>1, <3>1
    <3> QED
      BY <1>4, <1>5, <3>1, <3>2
  <2>3. i \in Nat /\ Len(s) \in Nat
    BY <1>1, <1>4
  <2> QED
    BY <2>1, <2>2, <2>3, SMTT(30)
<1>7. n + Len(u) = w + k
  BY <1>1, <1>4
<1> QED
  BY <1>5, <1>6, <1>7 DEF Reaches, Follows

LEMMA WriteAlong ==
  ASSUME IInv, NEW c \in Clients, NEW n \in Nat, Along(c, n), sclosed' = sclosed,
         NEW m \in {"CONNECT", "DISCONNECT"}, NEW k \in Nat, k <= HLen + BLen[m],
         Written(c, m, k), NEW w \in Nat, w = MsgBegin(m),
         n + Len(c2s[c]) = w,
         \/ pc'[c] \in {"exit", "gone"}
         \/ pc'[c] = "head" /\ w + k = LenC
  PROVE  Along(c, n)'
<1>1. c2s \in [Clients -> Seq(Cells)] /\ c2s[c] \in Seq(Cells)
  BY DEF IInv, TypeOK, TcpTypeOK
<1>2. PICK u : u = c2s[c] \o Taken(Frame(m), k)
  OBVIOUS
<1>3. c2s'[c] = u
  BY <1>1, <1>2 DEF Written, Along
<1>5. k <= Len(Frame(m))
  BY CellFacts, FrameLength
<1>4. /\ n + Len(u) = w + k /\ w + k <= Len(Stream)
      /\ Follows(u, n)
  <2>e. PICK e : e = w + k
    OBVIOUS
  <2>1. PICK s \in Seq(Cells) : s = c2s[c]
    BY <1>1
  <2>2. n + Len(s) = w /\ Follows(s, n)
    BY <2>1 DEF Along
  <2>3. u = s \o Taken(Frame(m), k)
    BY <1>2, <2>1
  <2>4. Reaches(u, n, e)
    BY <1>5, <2>e, <2>2, <2>3, Continued
  <2> QED
    BY <2>e, <2>4 DEF Reaches
<1> QED
  BY <1>3, <1>4 DEF Along, Follows

LEMMA ClientAlong ==
  ASSUME IInv, NEW c \in Clients, NEW n \in Nat, Along(c, n),
         ClientStep(c, Listening) \/ Killed(c)
  PROVE  Along(c, n)'
<1>t. pc \in [Clients -> {"start", "send", "head", "body", "disconnect", "exit", "gone"}]
  BY DEF IInv, TypeOK, ClientTypeOK
<1>m. /\ HLen + BLen["CONNECT"] \in Nat /\ HLen + BLen["DISCONNECT"] \in Nat
      /\ LenC = HLen + BLen["CONNECT"] /\ LenC \in Nat
      /\ MsgBegin("CONNECT") = 0 /\ MsgBegin("DISCONNECT") = LenC
  BY CellFacts DEF LenC, MsgBegin
<1> DEFINE Quiet1 == /\ pc'[c] \in {"send", "head", "body", "disconnect", "exit", "gone"}
                     /\ pc'[c] = "send" => pc[c] = "start"
                     /\ pc'[c] \in {"head", "body", "disconnect"} => pc[c] \in {"head", "body"}
<1>1. ASSUME UNCHANGED <<c2s, sclosed>>, Quiet1 PROVE Along(c, n)'
  BY <1>1 DEF Along, Follows
<1>2. CASE Connect(c, Listening)
  <2>1. UNCHANGED <<c2s, sclosed>> /\ Quiet1
    BY <1>t, <1>2 DEF Connect, Returned
  <2> QED
    BY <1>1, <2>1
<1>3. CASE SendConnect(c)
  <2>1. pc'[c] = "head" /\ pc[c] = "send" /\ sclosed' = sclosed /\ Written(c, "CONNECT", LenC)
    BY <1>t, <1>3 DEF SendConnect, Awaits, LenC
  <2>2. n + Len(c2s[c]) = 0 /\ 0 + LenC = LenC
    BY <1>m, <2>1 DEF Along
  <2> QED
    BY <1>m, <2>1, <2>2, WriteAlong
<1>4. CASE SendConnectFails(c)
  <2>1. pc'[c] = "exit" /\ pc[c] = "send" /\ sclosed' = sclosed
    BY <1>t, <1>4 DEF SendConnectFails, Returned
  <2>2. n + Len(c2s[c]) = 0
    BY <2>1 DEF Along
  <2>3. ASSUME NEW k \in 0..(HLen + BLen["CONNECT"] - 1), Written(c, "CONNECT", k)
        PROVE  Along(c, n)'
    <3>1. k \in Nat /\ k <= HLen + BLen["CONNECT"]
      <4>1. \A l \in Nat : \A j \in 0..(l - 1) : j \in Nat /\ j <= l
        OBVIOUS
      <4> QED
        BY <1>m, <4>1, CellFacts
    <3> QED
      BY <1>m, <2>1, <2>2, <2>3, <3>1, WriteAlong
  <2>4. UNCHANGED c2s \/ \E k \in 0..(HLen + BLen["CONNECT"] - 1) : Written(c, "CONNECT", k)
    BY <1>4 DEF SendConnectFails
  <2> QED
    BY <1>1, <2>1, <2>3, <2>4
<1>5. CASE \/ \E k \in 1..Cap : RecvPiece(c, k)
           \/ RecvHeader(c) \/ RecvBody(c) \/ RecvThrows(c)
  <2>1. UNCHANGED <<c2s, sclosed>> /\ Quiet1
    BY <1>t, <1>5 DEF RecvPiece, RecvHeader, RecvBody, RecvThrows, ReadSome, Awaits, Returned
  <2> QED
    BY <1>1, <2>1
<1>6. CASE Disconnect(c)
  <2>1. /\ pc'[c] = "exit" /\ pc[c] = "disconnect" /\ sclosed' = sclosed
        /\ UNCHANGED c2s \/ Written(c, "DISCONNECT", HLen + BLen["DISCONNECT"])
    BY <1>t, <1>6 DEF Disconnect
  <2>2. n + Len(c2s[c]) = LenC
    BY <2>1 DEF Along
  <2>3. CASE Written(c, "DISCONNECT", HLen + BLen["DISCONNECT"])
    <3>1. HLen + BLen["DISCONNECT"] <= HLen + BLen["DISCONNECT"]
      BY <1>m
    <3> QED
      BY <1>m, <2>1, <2>2, <2>3, <3>1, WriteAlong
  <2> QED
    BY <1>1, <2>1, <2>3
<1>7. CASE Exit(c) \/ Killed(c)
  <2>1. UNCHANGED <<c2s, sclosed>> /\ Quiet1
    BY <1>t, <1>7 DEF Exit, Killed, Returned
  <2> QED
    BY <1>1, <2>1
<1> QED
  BY <1>2, <1>3, <1>4, <1>5, <1>6, <1>7 DEF ClientStep

\* What is known of an operation of a session, as values of this state.
LEMMA SessionStream ==
  ASSUME IInv, ServiceInv, StreamInv, NEW q \in pending, q.kind # "accept"
  PROVE  \E c \in Clients, hd \in Messages \cup {"none", "garbage"}, n \in Nat :
           /\ c = peer[q.h] /\ hd = m_packet_header[q.h] /\ n = Begun(q, hd)
           /\ InPlace(q, hd, m_recv_buffer[q.h]) /\ Along(c, n)
<1>1. PICK c \in Clients : c = peer[q.h]
  BY SessionPeer
<1>2. PICK hd \in Messages \cup {"none", "garbage"} : hd = m_packet_header[q.h]
  BY SessionPeer DEF IInv, TypeOK, ServerTypeOK
<1>3. InPlace(q, hd, m_recv_buffer[q.h]) /\ Along(c, Begun(q, hd))
  BY <1>1, <1>2 DEF StreamInv, Aligned
<1>4. Begun(q, hd) \in Nat
  <2>1. CASE q.kind = "read"
    BY <1>2, <2>1, ReadFacts
  <2>2. CASE q.kind # "read"
    BY <2>2, StreamFacts DEF Begun
  <2> QED
    BY <2>1, <2>2
<1> QED
  BY <1>1, <1>2, <1>3, <1>4

\* A step that leaves the sessions alone.
LEMMA OthersStream ==
  ASSUME IInv, ServiceInv, StreamInv,
         UNCHANGED <<hstate, peer, m_recv_buffer, m_packet_header>>, pending' \subseteq pending,
         Listening' => Listening,
         \A d \in Clients, n \in Nat : Along(d, n) => Along(d, n)'
  PROVE  StreamInv'
<1>1. Waiting'
  <2> SUFFICES ASSUME Listening', NEW c \in Clients, \A h \in Handlers : peer'[h] # c
               PROVE  Along(c, 0)'
    BY DEF Waiting, Along, Follows
  <2> QED
    BY DEF StreamInv, Waiting
<1>2. Fresh'
  BY DEF StreamInv, Fresh
<1>3. ASSUME NEW q \in pending PROVE Aligned(q)'
  <2>1. CASE q.kind = "accept"
    BY <2>1 DEF StreamInv, Aligned, InPlace
  <2>2. CASE q.kind # "accept"
    <3>1. PICK c \in Clients, hd \in Messages \cup {"none", "garbage"}, n \in Nat :
               /\ c = peer[q.h] /\ hd = m_packet_header[q.h] /\ n = Begun(q, hd)
               /\ InPlace(q, hd, m_recv_buffer[q.h]) /\ Along(c, n)
      BY <2>2, SessionStream
    <3>2. Along(c, n)'
      BY <3>1
    <3>3. PICK buf : buf = m_recv_buffer[q.h]
      OBVIOUS
    <3> QED
      BY <3>1, <3>2, <3>3, AlignedNext
  <2> QED
    BY <2>1, <2>2
<1> QED
  BY <1>1, <1>2, <1>3 DEF StreamInv

LEMMA ClientStream ==
  ASSUME IInv, ServiceInv, StreamInv, NEW c \in Clients,
         ClientStep(c, Listening) \/ Killed(c), UNCHANGED serverVars
  PROVE  StreamInv'
<1>t. /\ pc \in [Clients -> {"start", "send", "head", "body", "disconnect", "exit", "gone"}]
      /\ c2s \in [Clients -> Seq(Cells)]
  BY DEF IInv, TypeOK, TcpTypeOK, ClientTypeOK
<1>1. ASSUME NEW d \in Clients \ {c}
      PROVE  c2s'[d] = c2s[d] /\ pc'[d] = pc[d] /\ sclosed'[d] = sclosed[d]
  <2>w. \A m, k : Written(c, m, k) => c2s'[d] = c2s[d]
    BY <1>t DEF Written
  <2>1. CASE Connect(c, Listening)
    BY <1>t, <2>1 DEF Connect, Returned
  <2>2. CASE SendConnect(c) \/ Disconnect(c)
    BY <1>t, <2>2, <2>w DEF SendConnect, Disconnect, Awaits
  <2>3. CASE SendConnectFails(c)
    <3>1. sclosed' = sclosed /\ pc'[d] = pc[d]
      BY <1>t, <2>3 DEF SendConnectFails, Returned
    <3>2. c2s'[d] = c2s[d]
      BY <2>3, <2>w DEF SendConnectFails
    <3> QED
      BY <3>1, <3>2
  <2>4. CASE (\E k \in 1..Cap : RecvPiece(c, k)) \/ RecvHeader(c) \/ RecvBody(c)
    BY <1>t, <2>4 DEF RecvPiece, RecvHeader, RecvBody, ReadSome, Awaits, Returned
  <2>5. CASE RecvThrows(c) \/ Exit(c) \/ Killed(c)
    BY <1>t, <2>5 DEF RecvThrows, Exit, Killed, Returned
  <2> QED
    BY <2>1, <2>2, <2>3, <2>4, <2>5 DEF ClientStep
<1>2. ASSUME NEW d \in Clients, NEW n \in Nat, Along(d, n) PROVE Along(d, n)'
  BY <1>1, <1>2, ClientAlong, AlongSame
<1> QED
  BY <1>2, OthersStream DEF serverVars, Listening

LEMMA LinkStream ==
  ASSUME IInv, ServiceInv, StreamInv, NEW c \in Clients, PeerReset(c) \/ LinkLost(c),
         UNCHANGED <<serverVars, clientVars>>
  PROVE  StreamInv'
<1>1. UNCHANGED <<c2s, sclosed, pc>>
  BY DEF PeerReset, LinkLost, clientVars
<1>2. \A d \in Clients, n \in Nat : Along(d, n) => Along(d, n)'
  BY <1>1, AlongSame
<1> QED
  BY <1>2, OthersStream DEF serverVars, Listening

LEMMA ThreadStream ==
  ASSUME IInv, ServiceInv, StreamInv, ThreadStep \/ Stop, UNCHANGED clientVars
  PROVE  StreamInv'
<1>1. ASSUME NEW n \in Handlers, AcceptorStart(n) PROVE StreamInv'
  <2>1. /\ pending' = {AcceptOp(n)} /\ AcceptOp(n).h = n /\ AcceptOp(n).kind = "accept"
        /\ hstate' = [hstate EXCEPT ![n] = "accepting"] /\ hstate[n] = "none"
        /\ UNCHANGED <<peer, m_recv_buffer, m_packet_header, c2s, sclosed, pc>>
        /\ Listening
    BY <1>1 DEF AcceptorStart, NextAccept, AcceptOp, Op, tcpVars, clientVars, Listening
  <2>2. hstate \in [Handlers -> {"none", "accepting", "live", "freed"}]
    BY DEF IInv, TypeOK, ServerTypeOK
  <2>3. Waiting'
    <3> SUFFICES ASSUME NEW c \in Clients, \A h \in Handlers : peer'[h] # c PROVE Along(c, 0)'
      BY DEF Waiting, Along, Follows
    <3> QED
      BY <2>1, AlongSame DEF StreamInv, Waiting
  <2>4. Fresh'
    BY <2>1, <2>2 DEF StreamInv, Fresh
  <2>5. Aligned(AcceptOp(n))'
    BY <2>1 DEF StreamInv, Fresh, Aligned, InPlace
  <2> QED
    BY <2>1, <2>3, <2>4, <2>5 DEF StreamInv
<1>2. CASE RunReturns \/ Stop
  <2>1. UNCHANGED <<hstate, peer, m_recv_buffer, m_packet_header, pending, c2s, sclosed, pc>>
    BY <1>2 DEF RunReturns, Stop, sessionVars, tcpVars, clientVars
  <2>2. Listening' => Listening
    BY <1>2 DEF RunReturns, Stop, Listening
  <2>3. \A d \in Clients, n \in Nat : Along(d, n) => Along(d, n)'
    BY <2>1, AlongSame
  <2> QED
    BY <2>1, <2>2, <2>3, OthersStream
<1>3. CASE ServerExit
  <2>1. pending' = {} /\ ~Listening' /\ UNCHANGED <<hstate, m_packet_header>>
    BY <1>3 DEF ServerExit, SocketsClosed, Listening, sessionVars
  <2> QED
    BY <2>1 DEF StreamInv, Waiting, Fresh
<1> QED
  BY <1>1, <1>2, <1>3 DEF ThreadStep

LEMMA InitStream == Init => StreamInv
<1> SUFFICES ASSUME Init PROVE StreamInv
  OBVIOUS
<1>1. Waiting
  <2> SUFFICES ASSUME NEW c \in Clients PROVE Along(c, 0)
    BY DEF Waiting
  <2>1. c2s[c] = <<>> /\ ~sclosed[c] /\ pc[c] = "start"
    BY DEF Init, TcpInit, ClientInit
  <2>2. Len(c2s[c]) = 0 /\ Len(Stream) \in Nat
    BY <2>1, StreamFacts
  <2> QED
    BY <2>1, <2>2 DEF Along, Follows
<1>2. Fresh /\ pending = {}
  BY DEF Init, ServerInit, Fresh
<1> QED
  BY <1>1, <1>2 DEF StreamInv

LEMMA NextStream == IInv /\ ServiceInv /\ StreamInv /\ [Next]_vars => StreamInv'
<1> SUFFICES ASSUME IInv, ServiceInv, StreamInv, [Next]_vars PROVE StreamInv'
  OBVIOUS
<1>1. CASE ServerStep /\ UNCHANGED clientVars
  BY <1>1, OpStream, ThreadStream DEF ServerStep, HandlerStep
<1>2. ASSUME NEW c \in Clients, ClientStep(c, Listening) \/ Killed(c), UNCHANGED serverVars
      PROVE  StreamInv'
  BY <1>2, ClientStream
<1>3. ASSUME NEW c \in Clients, PeerReset(c) \/ LinkLost(c), UNCHANGED <<serverVars, clientVars>>
      PROVE  StreamInv'
  BY <1>3, LinkStream
<1>4. CASE UNCHANGED vars
  <2>1. /\ UNCHANGED <<hstate, peer, m_recv_buffer, m_packet_header, pending, run, c2s, sclosed, pc>>
    BY <1>4 DEF vars, tcpVars, serverVars, clientVars
  <2>2. \A d \in Clients, n \in Nat : Along(d, n) => Along(d, n)'
    BY <2>1, AlongSame
  <2> QED
    BY <2>1, <2>2, OthersStream DEF Listening
<1> QED
  BY <1>1, <1>2, <1>3, <1>4 DEF Next

LEMMA StreamInvariance == Spec => [](IInv /\ ServiceInv /\ StreamInv)
<1>1. IInv /\ ServiceInv /\ StreamInv /\ [Next]_vars => StreamInv'
  BY NextStream
<1> QED
  BY <1>1, InitStream, ServiceInvariance, PTL DEF Spec

\* However the bytes of a connection are cut into pieces and whatever ends it, what
\* a session of handle_read still wants of a part is what its stream holds next: no
\* byte of one part is ever taken for a byte of another.
THEOREM SessionsStayAligned == Spec => []FrameAlignment
<1>1. ASSUME IInv, ServiceInv, StreamInv PROVE FrameAlignment
  <2> SUFFICES ASSUME NEW p \in pending, p.kind = "read", NEW i \in 1..p.want,
                      i <= Len(c2s[peer[p.h]])
               PROVE  \E m \in Messages :
                        /\ p.part = "body" => m_packet_header[p.h] = m
                        /\ c2s[peer[p.h]][i] = IF p.part = "head" THEN HeadCells(m)[HLen - p.want + i]
                                                                  ELSE BodyCells(m)[BLen[m] - p.want + i]
    BY DEF FrameAlignment
  <2>1. PICK c \in Clients, hd \in {"none", "CONNECT", "DISCONNECT"} :
             /\ c = peer[p.h] /\ hd = m_packet_header[p.h] /\ Along(c, Begun(p, hd))
             /\ Reads(p, hd, m_recv_buffer[p.h])
             /\ c2s[c] \in Seq(Cells) /\ p.want \in Nat \ {0} /\ p.off \in Nat
    BY <1>1, ReadFacts
  <2>2. /\ MsgOf(p, hd) \in {"CONNECT", "DISCONNECT"}
        /\ PartLen(p, hd) \in Nat \ {0} /\ PartBegin(p, hd) \in Nat
        /\ \A j \in 1..PartLen(p, hd) : Stream[PartBegin(p, hd) + j] = PartCells(p, hd)[j]
        /\ p.off + p.want <= PartLen(p, hd)
    BY <2>1, PartFacts DEF Reads
  <2>3. c2s[c][i] = Stream[Begun(p, hd) + i]
    BY <2>1 DEF Along, Follows
  <2>4. /\ PartLen(p, hd) - p.want + i \in 1..PartLen(p, hd)
        /\ Begun(p, hd) + i = PartBegin(p, hd) + (PartLen(p, hd) - p.want + i)
    BY <2>1, <2>2 DEF Begun
  <2>5. c2s[c][i] = PartCells(p, hd)[PartLen(p, hd) - p.want + i]
    BY <2>2, <2>3, <2>4
  <2>6. CASE p.part = "head"
    <3>1. PartLen(p, hd) = HLen /\ PartCells(p, hd) = HeadCells(MsgOf(p, hd))
      BY <2>6 DEF PartLen, PartCells
    <3> QED
      BY <2>1, <2>2, <2>5, <2>6, <3>1 DEF Messages
  <2>7. CASE p.part # "head"
    <3>1. /\ MsgOf(p, hd) = hd /\ PartLen(p, hd) = BLen[hd] /\ PartCells(p, hd) = BodyCells(hd)
      BY <2>7 DEF PartLen, PartCells, MsgOf
    <3> QED
      BY <2>1, <2>2, <2>5, <2>7, <3>1 DEF Messages
  <2> QED
    BY <2>6, <2>7
<1> QED
  BY <1>1, StreamInvariance, PTL

-----------------------------------------------------------------------------
(***************************************************************************)
(* When no part comes in more than two pieces.  handle_read puts the rest  *)
(* of a part where the last read ended, counting from the start of the     *)
(* buffer: that is its place for the second piece, and for no later one.   *)
(***************************************************************************)
\* What the session has read of the part is in its place.
Exact(q, hd, buf) ==
  /\ q.piece \in {1, 2} /\ (q.piece = 1 => q.off = 0)
  /\ q.off + q.want = PartLen(q, hd)
  /\ \A i \in 1..q.off : buf[i] = PartCells(q, hd)[i]

\* The part was cut short by a client that writes no more.
Short(q) == Away(peer[q.h]) /\ Len(c2s[peer[q.h]]) < q.want

Whole(q) == q.kind = "read" => Short(q) \/ Exact(q, m_packet_header[q.h], m_recv_buffer[q.h])

AssemblyInv == NoStall /\ \A q \in pending : Whole(q)

LEMMA WholeNext ==
  ASSUME NEW q, NEW hd, NEW buf, m_packet_header'[q.h] = hd, m_recv_buffer'[q.h] = buf,
         q.kind = "read" => Exact(q, hd, buf)
  PROVE  Whole(q)'
BY DEF Whole, Exact

LEMMA ShortNext ==
  ASSUME NEW q, NEW c, peer'[q.h] = c, Away(c)', Len(c2s'[c]) < q.want
  PROVE  Whole(q)'
BY DEF Whole, Short

\* A read that was begun at the start of its part.
LEMMA ExactStart ==
  ASSUME NEW q, NEW hd, NEW buf, q.piece = 1, q.off = 0, q.want = PartLen(q, hd),
         PartLen(q, hd) \in Nat
  PROVE  Exact(q, hd, buf)
BY DEF Exact

\* A part that has been read to its end is the packet part that was due.
LEMMA WholePart ==
  ASSUME IInv, ServiceInv, StreamInv, AssemblyInv, NEW p \in pending, FullRead(p),
         NEW buf, buf = Received(p, p.want)
  PROVE  \/ /\ p.part = "head" /\ MarkIs(buf, HMark) /\ ~MarkIs(buf, BMark)
            /\ \E m \in Messages : HoldsHead(buf, m)
         \/ /\ p.part = "body" /\ MarkIs(buf, BMark) /\ ~MarkIs(buf, HMark)
            /\ m_packet_header[p.h] \in {"CONNECT", "DISCONNECT"}
            /\ HoldsBody(buf, m_packet_header[p.h])
<1>1. PICK c \in Clients, hd \in {"none", "CONNECT", "DISCONNECT"} :
           /\ c = peer[p.h] /\ hd = m_packet_header[p.h] /\ Aligned(p)
           /\ Reads(p, hd, m_recv_buffer[p.h]) /\ c2s[c] \in Seq(Cells)
           /\ p.want \in Nat \ {0} /\ p.off \in Nat
  BY ReadFacts DEF FullRead
<1>2. p.kind = "read" /\ p.want <= Len(c2s[peer[p.h]]) /\ Len(c2s[peer[p.h]]) \in Nat
  BY <1>1 DEF FullRead
<1>3. Exact(p, hd, m_recv_buffer[p.h])
  <2>1. ~Short(p)
    BY <1>1, <1>2 DEF Short
  <2> QED
    BY <1>1, <1>2, <2>1 DEF AssemblyInv, Whole
<1> DEFINE len == PartLen(p, hd)
           cells == PartCells(p, hd)
<1>4. /\ len \in Nat \ {0} /\ len <= Cap /\ MarkLen < len /\ cells[1] = PartMark(p)
      /\ MsgOf(p, hd) \in {"CONNECT", "DISCONNECT"}
      /\ p.part = "head" => len = HLen /\ cells = HeadCells(MsgOf(p, hd))
      /\ p.part # "head" => len = BLen[hd] /\ cells = BodyCells(hd) /\ MsgOf(p, hd) = hd
  BY <1>1, PartFacts DEF Reads, PartLen, PartCells, MsgOf
<1>5. /\ p.off + p.want = len
      /\ \A i \in 1..p.off : m_recv_buffer[p.h][i] = cells[i]
  BY <1>3 DEF Exact
<1> HIDE DEF len, cells
<1>6. /\ \A j \in 1..p.want : buf[p.off + j] = cells[len - p.want + j]
      /\ \A i \in 1..Cap : i <= p.off \/ i > p.off + p.want => buf[i] = m_recv_buffer[p.h][i]
      /\ buf[1] = PartMark(p)
  <2>1. p.want <= p.want
    BY <1>1
  <2> QED
    BY <1>1, <1>2, <2>1, ReadCore DEF len, cells
<1>7. ASSUME NEW i \in 1..len PROVE buf[i] = cells[i]
  <2>1. CASE i <= p.off
    BY <1>1, <1>4, <1>5, <1>6, <2>1, CapBounds
  <2>2. CASE i > p.off
    <3>1. /\ i - p.off \in 1..p.want /\ p.off + (i - p.off) = i
          /\ len - p.want + (i - p.off) = i
      <4>1. \A o, w \in Nat : \A l \in Nat : o + w = l =>
              \A x \in 1..l : x > o => /\ x - o \in 1..w /\ o + (x - o) = x
                                         /\ l - w + (x - o) = x
        OBVIOUS
      <4>2. p.off \in Nat /\ p.want \in Nat /\ len \in Nat
        BY <1>1, <1>4
      <4> QED
        BY <1>5, <2>2, <4>1, <4>2
    <3> QED
      BY <1>6, <3>1
  <2> QED
    BY <1>1, <1>4, <2>1, <2>2
<1>8. MarkLen \in Nat \ {0} /\ 1 \in 1..MarkLen /\ \A i \in 1..MarkLen : i \in 1..len /\ i <= MarkLen
  BY <1>4, CellFacts
<1>9. CASE p.part = "head"
  <2>1. \A i \in 1..HLen : buf[i] = HeadCells(MsgOf(p, hd))[i]
    BY <1>4, <1>7, <1>9
  <2>2. HoldsHead(buf, MsgOf(p, hd)) /\ MsgOf(p, hd) \in Messages
    BY <1>4, <2>1 DEF HoldsHead, Messages
  <2>3. MarkIs(buf, HMark)
    BY <1>4, <1>8, <1>9, <2>1 DEF MarkIs, HeadCells
  <2>4. ~MarkIs(buf, BMark)
    BY <1>6, <1>8, <1>9 DEF MarkIs, PartMark, HMark, BMark
  <2> QED
    BY <1>9, <2>2, <2>3, <2>4
<1>10. CASE p.part # "head"
  <2>1. \A i \in 1..BLen[hd] : buf[i] = BodyCells(hd)[i]
    BY <1>4, <1>7, <1>10
  <2>2. HoldsBody(buf, hd) /\ hd \in {"CONNECT", "DISCONNECT"}
    BY <1>4, <1>10, <2>1 DEF HoldsBody
  <2>3. MarkIs(buf, BMark)
    BY <1>4, <1>8, <1>10, <2>1 DEF MarkIs, BodyCells
  <2>4. ~MarkIs(buf, HMark)
    BY <1>6, <1>8, <1>10 DEF MarkIs, PartMark, HMark, BMark
  <2> QED
    BY <1>1, <1>10, <2>2, <2>3, <2>4 DEF Reads
<1> QED
  BY <1>9, <1>10

\* A step of the session of p leaves the reads of the others as they are.
LEMMA AssemblyStep ==
  ASSUME IInv, ServiceInv, AssemblyInv, NEW p \in pending, NEW new, Completed(p, new),
         UNCHANGED clientVars, run' = "running" => run = "running",
         \A h \in Handlers \ {p.h} : /\ m_packet_header'[h] = m_packet_header[h]
                                     /\ m_recv_buffer'[h] = m_recv_buffer[h]
                                     /\ peer'[h] = peer[h]
                                     /\ hstate'[h] = "live" => hstate[h] = "live",
         \A c \in Clients \ {peer[p.h]} : c2s'[c] = c2s[c],
         \A q \in new : Whole(q)',
         run' = "running" /\ hstate'[p.h] = "live" => \E q \in new : q.h = p.h
  PROVE  AssemblyInv'
<1>1. ASSUME NEW q \in pending, q # p PROVE Whole(q)'
  <2>1. /\ q.h \in Handlers \ {p.h} /\ Whole(q) /\ p.h \in Handlers
        /\ q.kind = "read" => peer[q.h] \in Clients /\ peer[q.h] # peer[p.h]
    BY <1>1, SessionPeer, ServerAssumption
    DEF IInv, OneOperation, AssemblyInv, ServiceInv, OwnPeer
  <2>2. PICK c, hd, buf : c = peer[q.h] /\ hd = m_packet_header[q.h] /\ buf = m_recv_buffer[q.h]
    OBVIOUS
  <2>3. CASE q.kind = "read" => Exact(q, hd, buf)
    BY <2>1, <2>2, <2>3, WholeNext
  <2>4. CASE q.kind = "read" /\ Short(q)
    BY <2>1, <2>2, <2>4, ShortNext DEF Short, Away, clientVars
  <2> QED
    BY <2>1, <2>2, <2>3, <2>4 DEF Whole
<1>2. NoStall'
  <2> SUFFICES ASSUME run' = "running", NEW h \in Handlers, hstate'[h] = "live"
               PROVE  \E q \in pending' : q.h = h
    BY DEF NoStall, Live
  <2>1. CASE h = p.h
    BY <2>1 DEF Completed
  <2>2. CASE h # p.h
    <3>1. PICK q \in pending : q.h = h
      BY <2>2 DEF AssemblyInv, NoStall, Live
    <3> QED
      BY <2>2, <3>1 DEF Completed
  <2> QED
    BY <2>1, <2>2
<1> QED
  BY <1>1, <1>2 DEF AssemblyInv, Completed

\* The second piece of a part is read to its place.
LEMMA PartialWhole ==
  ASSUME IInv, ServiceInv, StreamInv, AssemblyInv, ServerPieces <= 2,
         NEW p \in pending, NEW k \in 1..Cap, HandleReadPartial(p, k), UNCHANGED clientVars
  PROVE  AssemblyInv'
<1> DEFINE q == Op(p.h, "read", NextOffset(p, k), Remaining(p, k), p.piece + 1, p.part)
<1>1. /\ Consumed(p, k) /\ p.kind = "read" /\ k <= Len(c2s[peer[p.h]]) /\ k < p.want
      /\ p.piece < ServerPieces \/ Len(c2s[peer[p.h]]) < p.want
      /\ m_recv_buffer' = [m_recv_buffer EXCEPT ![p.h] = Received(p, k)]
      /\ UNCHANGED <<m_packet_header, run, hstate, peer, sclosed>> /\ Completed(p, {q})
  BY DEF HandleReadPartial
<1>2. PICK c \in Clients, hd \in {"none", "CONNECT", "DISCONNECT"} :
           /\ c = peer[p.h] /\ hd = m_packet_header[p.h] /\ Aligned(p) /\ Along(c, Begun(p, hd))
           /\ Reads(p, hd, m_recv_buffer[p.h])
           /\ c2s[c] \in Seq(Cells) /\ p.h \in Handlers
           /\ p.want \in Nat \ {0} /\ p.off \in Nat /\ Begun(p, hd) \in Nat
  BY <1>1, ReadFacts
<1>3. /\ k \in Nat \ {0} /\ k <= p.want /\ Len(c2s[c]) \in Nat /\ k <= Len(c2s[c])
      /\ Len(c2s'[c]) = Len(c2s[c]) - k
      /\ \A d \in Clients \ {c} : c2s'[d] = c2s[d]
  <2>1. k \in Nat \ {0} /\ k <= p.want /\ Len(c2s[c]) \in Nat /\ k <= Len(c2s[c])
    BY <1>1, <1>2, CapBounds
  <2>2. c2s'[c] = Rest(c2s[c], k) /\ \A d \in Clients \ {c} : c2s'[d] = c2s[d]
    BY <1>1, <1>2 DEF Consumed, IInv, TypeOK, TcpTypeOK
  <2>3. Len(Rest(c2s[c], k)) = Len(c2s[c]) - k
    BY <1>2, <2>1, SplitFacts
  <2> QED
    BY <2>1, <2>2, <2>3
<1>4. PICK buf : buf = Received(p, k)
  OBVIOUS
<1>5. m_recv_buffer'[p.h] = buf /\ \A h \in Handlers \ {p.h} : m_recv_buffer'[h] = m_recv_buffer[h]
  BY <1>1, <1>2, <1>4 DEF IInv, TypeOK, ServerTypeOK
<1>6. /\ q.h = p.h /\ q.kind = "read" /\ q.part = p.part /\ q.off = k /\ q.want = p.want - k
      /\ q.piece = p.piece + 1
  BY DEF Op, NextOffset, Remaining
<1> HIDE DEF q
<1>7. /\ PartLen(q, hd) = PartLen(p, hd) /\ PartCells(q, hd) = PartCells(p, hd)
      /\ PartLen(p, hd) \in Nat \ {0} /\ PartBegin(p, hd) \in Nat /\ LenC \in Nat
      /\ p.off + p.want <= PartLen(p, hd)
      /\ PartBegin(p, hd) + PartLen(p, hd) <= LenC \/ LenC <= PartBegin(p, hd)
  BY <1>2, <1>6, PartFacts, StreamFacts DEF PartLen, PartCells, MsgOf, Reads
<1>8. CASE Len(c2s[c]) < p.want
  <2>1. Away(c)
    <3>1. Begun(p, hd) = PartBegin(p, hd) + PartLen(p, hd) - p.want
      BY <1>1 DEF Begun
    <3>2. Begun(p, hd) + Len(c2s[c]) # 0 /\ Begun(p, hd) + Len(c2s[c]) # LenC
      <4>1. PICK b, n, w, o, a, l \in Nat :
                 /\ b = Begun(p, hd) /\ n = Len(c2s[c]) /\ w = p.want /\ o = p.off
                 /\ a = PartBegin(p, hd) /\ l = PartLen(p, hd)
        BY <1>2, <1>3, <1>7
      <4>2. n > 0 /\ n < w /\ b = a + l - w /\ o + w <= l
        BY <1>3, <1>8, <1>7, <3>1, <4>1
      <4>3. b + n < a + l /\ b + n > a
        BY <4>2
      <4>4. a + l <= LenC \/ LenC <= a
        BY <1>7, <4>1
      <4>5. b + n # 0 /\ b + n # LenC
        <5>1. LenC \in Nat
          BY <1>7
        <5> QED
          BY <4>3, <4>4, <5>1
      <4> QED
        BY <4>1, <4>5
    <3>3. pc[c] \in {"start", "send", "head", "body", "disconnect", "exit", "gone"}
      BY DEF IInv, TypeOK, ClientTypeOK
    <3> QED
      BY <1>2, <3>2, <3>3 DEF Along, Away
  <2>2. Len(c2s'[c]) < q.want /\ peer'[q.h] = c /\ Away(c)'
    BY <1>1, <1>2, <1>3, <1>6, <1>8, <2>1 DEF Away, clientVars
  <2>3. Whole(q)'
    BY <2>2, ShortNext
  <2> QED
    BY <1>1, <1>2, <1>3, <1>5, <1>6, <2>3, AssemblyStep
<1>9. CASE Len(c2s[c]) >= p.want
  <2>1. Exact(p, hd, m_recv_buffer[p.h])
    <3>1. ~Short(p)
      BY <1>2, <1>3, <1>9 DEF Short
    <3> QED
      BY <1>1, <1>2, <3>1 DEF AssemblyInv, Whole
  <2>2. p.piece = 1 /\ p.off = 0 /\ p.want = PartLen(p, hd)
    <3>1. p.piece < ServerPieces /\ ServerPieces \in Nat
      BY <1>1, <1>2, <1>3, <1>9, ServerAssumption
    <3>2. p.piece = 1 /\ p.off = 0 /\ p.off + p.want = PartLen(p, hd)
      BY <2>1, <3>1 DEF Exact
    <3> QED
      BY <1>2, <3>2
  <2>3. \A j \in 1..k : Received(p, k)[p.off + j] = PartCells(p, hd)[PartLen(p, hd) - p.want + j]
    BY <1>1, <1>2, <1>3, ReadCore, SMTT(30)
  <2>4. \A j \in 1..k : buf[j] = PartCells(p, hd)[j]
    <3>1. \A j \in 1..k : p.off + j = j /\ PartLen(p, hd) - p.want + j = j
      BY <1>3, <1>7, <2>2
    <3> QED
      BY <1>4, <2>3, <3>1
  <2>5. Exact(q, hd, buf)
    BY <1>2, <1>3, <1>6, <1>7, <2>2, <2>4 DEF Exact
  <2>6. Whole(q)'
    BY <1>1, <1>2, <1>5, <1>6, <2>5, WholeNext
  <2> QED
    BY <1>1, <1>2, <1>3, <1>5, <1>6, <2>6, AssemblyStep
<1> QED
  BY <1>2, <1>3, <1>8, <1>9

LEMMA OpWhole ==
  ASSUME IInv, ServiceInv, StreamInv, AssemblyInv, ServerPieces <= 2,
         NEW p \in pending, OpStep(p), UNCHANGED clientVars
  PROVE  AssemblyInv'
<1>t. /\ p.h \in Handlers
      /\ hstate \in [Handlers -> {"none", "accepting", "live", "freed"}]
      /\ peer \in [Handlers -> Clients \cup {NoClient}]
      /\ m_packet_header \in [Handlers -> Messages \cup {"none", "garbage"}]
      /\ m_recv_buffer \in [Handlers -> [1..Cap -> Cells]]
      /\ c2s \in [Clients -> Seq(Cells)]
  BY SessionPeer DEF IInv, TypeOK, TcpTypeOK, ServerTypeOK
<1>h. ASSUME NEW hd, NEW buf, m_packet_header'[p.h] = hd, m_recv_buffer'[p.h] = buf
      PROVE  Whole(HeadRead(p.h))'
  <2> DEFINE q == HeadRead(p.h)
  <2>1. /\ q.h = p.h /\ q.kind = "read" /\ q.part = "head" /\ q.off = 0 /\ q.want = HLen
        /\ q.piece = 1
    BY DEF HeadRead, Op
  <2> HIDE DEF q
  <2>2. q.want = PartLen(q, hd) /\ PartLen(q, hd) \in Nat
    BY <2>1, CellFacts DEF PartLen
  <2>3. Exact(q, hd, buf)
    BY <2>1, <2>2, ExactStart
  <2> QED
    BY <1>h, <2>1, <2>3, WholeNext DEF q
<1>1. ASSUME NEW n \in Handlers, NEW c \in Clients, HandleAccept(p, n, c) PROVE AssemblyInv'
  <2>1. /\ peer' = [peer EXCEPT ![p.h] = c] /\ run' = run
        /\ hstate' = [hstate EXCEPT ![p.h] = "live", ![n] = "accepting"]
        /\ m_recv_buffer' = [m_recv_buffer EXCEPT ![p.h] = Resized(m_recv_buffer[p.h], HLen)]
        /\ Completed(p, {HeadRead(p.h), AcceptOp(n)})
        /\ UNCHANGED <<m_packet_header, c2s>>
    BY <1>1 DEF HandleAccept, NextAccept, tcpVars
  <2>2. /\ HeadRead(p.h).h = p.h /\ AcceptOp(n).kind = "accept"
    BY DEF HeadRead, AcceptOp, Op
  <2>3. Whole(HeadRead(p.h))' /\ Whole(AcceptOp(n))'
    BY <1>t, <1>h, <2>2 DEF Whole
  <2>4. \A h \in Handlers \ {p.h} : /\ m_packet_header'[h] = m_packet_header[h]
                                    /\ m_recv_buffer'[h] = m_recv_buffer[h]
                                    /\ peer'[h] = peer[h]
                                    /\ hstate'[h] = "live" => hstate[h] = "live"
    BY <1>t, <2>1
  <2>5. PICK new : new = {HeadRead(p.h), AcceptOp(n)}
    OBVIOUS
  <2>6. Completed(p, new) /\ (\A q \in new : Whole(q)') /\ \E q \in new : q.h = p.h
    BY <2>1, <2>2, <2>3, <2>5
  <2> QED
    BY <2>1, <2>4, <2>6, AssemblyStep
<1>2. ASSUME NEW c \in Clients, HandleAcceptThrows(p, c) PROVE AssemblyInv'
  <2>1. /\ peer' = [peer EXCEPT ![p.h] = c] /\ run' = "failed"
        /\ hstate' = [hstate EXCEPT ![p.h] = "live"] /\ Completed(p, {})
        /\ UNCHANGED <<m_packet_header, m_recv_buffer, c2s>>
    BY <1>2 DEF HandleAcceptThrows, Thrown, tcpVars
  <2>2. \A h \in Handlers \ {p.h} : peer'[h] = peer[h] /\ hstate'[h] = hstate[h]
    BY <1>t, <2>1
  <2> QED
    BY <2>1, <2>2, AssemblyStep
<1>3. CASE HandleAcceptError(p)
  <2>1. /\ hstate' = [hstate EXCEPT ![p.h] = "freed"] /\ Completed(p, {})
        /\ UNCHANGED <<run, peer, m_packet_header, m_recv_buffer, c2s>>
    BY <1>3 DEF HandleAcceptError, tcpVars
  <2>2. hstate'[p.h] = "freed" /\ \A h \in Handlers \ {p.h} : hstate'[h] = hstate[h]
    BY <1>t, <2>1
  <2> QED
    BY <2>1, <2>2, AssemblyStep
<1>4. ASSUME Close(p)
      PROVE  /\ Completed(p, {}) /\ (run' = "running" => run = "running")
             /\ ~(run' = "running" /\ hstate'[p.h] = "live")
             /\ \A h \in Handlers \ {p.h} : hstate'[h] = hstate[h]
  BY <1>t, <1>4 DEF Close, Thrown
<1>5. \A d \in Clients \ {peer[p.h]} : \A k : Consumed(p, k) => c2s'[d] = c2s[d]
  BY <1>t DEF Consumed
<1>6. CASE HandleReadError(p) \/ HandleWriteError(p) \/ MsgDisconnect(p)
  <2>1. /\ Close(p) /\ UNCHANGED <<peer, m_packet_header>>
        /\ UNCHANGED c2s \/ Consumed(p, p.want)
        /\ m_recv_buffer' = m_recv_buffer
             \/ m_recv_buffer' = [m_recv_buffer EXCEPT ![p.h] = Received(p, p.want)]
    BY <1>6 DEF HandleReadError, HandleWriteError, MsgDisconnect
  <2>2. /\ \A h \in Handlers \ {p.h} : m_recv_buffer'[h] = m_recv_buffer[h]
        /\ \A d \in Clients \ {peer[p.h]} : c2s'[d] = c2s[d]
    BY <1>t, <1>5, <2>1
  <2> QED
    BY <1>4, <2>1, <2>2, AssemblyStep
<1>7. ASSUME NEW m \in Messages, HandlePacketHeader(p, m) PROVE AssemblyInv'
  <2> DEFINE q == BodyRead(p.h, m)
             buf == Resized(Received(p, p.want), BLen[m])
  <2>1. /\ Consumed(p, p.want) /\ Completed(p, {q})
        /\ m_packet_header' = [m_packet_header EXCEPT ![p.h] = m]
        /\ m_recv_buffer' = [m_recv_buffer EXCEPT ![p.h] = buf]
        /\ UNCHANGED <<run, hstate, peer>>
    BY <1>7 DEF HandlePacketHeader
  <2>2. /\ q.h = p.h /\ q.kind = "read" /\ q.part = "body" /\ q.off = 0 /\ q.want = BLen[m]
        /\ q.piece = 1
    BY DEF BodyRead, Op
  <2> HIDE DEF q, buf
  <2>3. q.want = PartLen(q, m) /\ PartLen(q, m) \in Nat
    BY <2>2, CellFacts DEF PartLen, MsgOf
  <2>4. Exact(q, m, buf)
    BY <2>2, <2>3, ExactStart
  <2>5. m_packet_header'[p.h] = m /\ m_recv_buffer'[p.h] = buf
    BY <1>t, <2>1
  <2>6. Whole(q)'
    BY <2>2, <2>4, <2>5, WholeNext
  <2>7. \A h \in Handlers \ {p.h} : /\ m_packet_header'[h] = m_packet_header[h]
                                    /\ m_recv_buffer'[h] = m_recv_buffer[h]
    BY <1>t, <2>1
  <2> QED
    BY <1>5, <2>1, <2>2, <2>6, <2>7, AssemblyStep
<1>8. CASE MsgConnect(p)
  <2>1. PICK ok \in BOOLEAN : Completed(p, {WriteOp(p.h, ok)})
    BY <1>8, Zenon DEF MsgConnect, Answering
  <2>2. /\ Consumed(p, p.want)
        /\ m_recv_buffer' = [m_recv_buffer EXCEPT ![p.h] = Received(p, p.want)]
        /\ UNCHANGED <<run, hstate, peer, m_packet_header>>
    BY <1>8 DEF MsgConnect
  <2>3. WriteOp(p.h, ok).h = p.h /\ WriteOp(p.h, ok).kind # "read"
    BY DEF WriteOp, Op
  <2>4. Whole(WriteOp(p.h, ok))'
    BY <2>3 DEF Whole
  <2>5. \A h \in Handlers \ {p.h} : m_recv_buffer'[h] = m_recv_buffer[h]
    BY <1>t, <2>2
  <2> QED
    BY <1>5, <2>1, <2>2, <2>3, <2>4, <2>5, AssemblyStep
<1>9. ~UnknownMark(p) /\ ~BadHeader(p) /\ ~BadBody(p) /\ ~BodyUnderflow(p)
  <2> SUFFICES ASSUME FullRead(p)
               PROVE  ~UnknownMark(p) /\ ~BadHeader(p) /\ ~BadBody(p) /\ ~BodyUnderflow(p)
    BY DEF UnknownMark, BadHeader, BadBody, BodyUnderflow
  <2>1. PICK buf : buf = Received(p, p.want)
    OBVIOUS
  <2> QED
    BY <2>1, WholePart DEF UnknownMark, BadHeader, BadBody, BodyUnderflow
<1>10. CASE HandleWrite(p)
  <2>1. Completed(p, {HeadRead(p.h)})
        /\ UNCHANGED <<run, hstate, peer, m_packet_header, m_recv_buffer, c2s>>
    BY <1>10 DEF HandleWrite, sessionVars, tcpVars
  <2>2. HeadRead(p.h).h = p.h
    BY DEF HeadRead, Op
  <2> QED
    BY <1>h, <2>1, <2>2, AssemblyStep
<1> QED
  BY <1>1, <1>2, <1>3, <1>6, <1>7, <1>8, <1>9, <1>10, PartialWhole DEF OpStep

\* A step that leaves the sessions alone.
LEMMA OthersWhole ==
  ASSUME IInv, AssemblyInv, UNCHANGED <<hstate, peer, m_recv_buffer, m_packet_header, pending>>,
         run' = "running" => run = "running",
         \A d \in Clients : Away(d) => Away(d)' /\ c2s'[d] = c2s[d]
  PROVE  AssemblyInv'
<1>1. ASSUME NEW q \in pending PROVE Whole(q)'
  <2>1. PICK c, hd, buf : c = peer[q.h] /\ hd = m_packet_header[q.h] /\ buf = m_recv_buffer[q.h]
    OBVIOUS
  <2>2. CASE q.kind = "read" => Exact(q, hd, buf)
    BY <2>1, <2>2, WholeNext
  <2>3. CASE q.kind = "read" /\ Short(q)
    <3>1. c \in Clients /\ Away(c) /\ Len(c2s[c]) < q.want
      BY <2>1, <2>3, SessionPeer DEF Short
    <3>2. peer'[q.h] = c /\ Away(c)' /\ Len(c2s'[c]) < q.want
      BY <2>1, <3>1
    <3> QED
      BY <3>2, ShortNext
  <2> QED
    BY <2>1, <2>2, <2>3 DEF AssemblyInv, Whole
<1>2. NoStall'
  BY DEF AssemblyInv, NoStall, Live
<1> QED
  BY <1>1, <1>2 DEF AssemblyInv

LEMMA ClientWhole ==
  ASSUME IInv, AssemblyInv, NEW c \in Clients,
         ClientStep(c, Listening) \/ Killed(c), UNCHANGED serverVars
  PROVE  AssemblyInv'
<1>t. /\ pc \in [Clients -> {"start", "send", "head", "body", "disconnect", "exit", "gone"}]
      /\ c2s \in [Clients -> Seq(Cells)]
  BY DEF IInv, TypeOK, TcpTypeOK, ClientTypeOK
<1>1. ASSUME NEW d \in Clients, Away(d) PROVE Away(d)' /\ c2s'[d] = c2s[d]
  <2>w. \A m, k : Written(c, m, k) /\ d # c => c2s'[d] = c2s[d]
    BY <1>t DEF Written
  <2>1. CASE Connect(c, Listening)
    BY <1>t, <1>1, <2>1 DEF Connect, Returned, Away
  <2>2. CASE SendConnect(c) \/ Disconnect(c)
    BY <1>t, <1>1, <2>2, <2>w DEF SendConnect, Disconnect, Awaits, Away
  <2>3. CASE SendConnectFails(c)
    <3>1. pc'[d] = pc[d] /\ d # c
      BY <1>t, <1>1, <2>3 DEF SendConnectFails, Returned, Away
    <3>2. c2s'[d] = c2s[d]
      BY <2>3, <2>w, <3>1 DEF SendConnectFails
    <3> QED
      BY <1>1, <3>1, <3>2 DEF Away
  <2>4. CASE (\E k \in 1..Cap : RecvPiece(c, k)) \/ RecvHeader(c) \/ RecvBody(c)
    BY <1>t, <1>1, <2>4 DEF RecvPiece, RecvHeader, RecvBody, ReadSome, Awaits, Returned, Away
  <2>5. CASE RecvThrows(c) \/ Exit(c) \/ Killed(c)
    BY <1>t, <1>1, <2>5 DEF RecvThrows, Exit, Killed, Returned, Away, tcpVars
  <2> QED
    BY <2>1, <2>2, <2>3, <2>4, <2>5 DEF ClientStep
<1> QED
  BY <1>1, OthersWhole DEF serverVars

LEMMA ThreadWhole ==
  ASSUME IInv, AssemblyInv, ThreadStep \/ Stop, UNCHANGED clientVars
  PROVE  AssemblyInv'
<1>1. ASSUME NEW n \in Handlers, AcceptorStart(n) PROVE AssemblyInv'
  <2>1. /\ pending' = {AcceptOp(n)} /\ AcceptOp(n).kind = "accept"
        /\ hstate' = [hstate EXCEPT ![n] = "accepting"] /\ run = "init"
    BY <1>1 DEF AcceptorStart, NextAccept, AcceptOp, Op
  <2>2. \A h \in Handlers : hstate'[h] # "live"
    BY <2>1 DEF IInv, PeerInv, TypeOK, ServerTypeOK
  <2> QED
    BY <2>1, <2>2 DEF AssemblyInv, NoStall, Live, Whole
<1>2. CASE RunReturns \/ Stop
  <2>1. /\ UNCHANGED <<hstate, peer, m_recv_buffer, m_packet_header, pending, c2s, pc>>
        /\ run' = "running" => run = "running"
    BY <1>2 DEF RunReturns, Stop, sessionVars, tcpVars, clientVars
  <2>2. \A d \in Clients : Away(d) => Away(d)' /\ c2s'[d] = c2s[d]
    BY <2>1 DEF Away
  <2> QED
    BY <2>1, <2>2, OthersWhole
<1>3. CASE ServerExit
  BY <1>3 DEF ServerExit, SocketsClosed, AssemblyInv, NoStall
<1> QED
  BY <1>1, <1>2, <1>3 DEF ThreadStep

LEMMA NextWhole ==
  ASSUME ServerPieces <= 2, IInv, ServiceInv, StreamInv, AssemblyInv, [Next]_vars
  PROVE  AssemblyInv'
<1>1. CASE ServerStep /\ UNCHANGED clientVars
  BY <1>1, OpWhole, ThreadWhole DEF ServerStep, HandlerStep
<1>2. ASSUME NEW c \in Clients, ClientStep(c, Listening) \/ Killed(c), UNCHANGED serverVars
      PROVE  AssemblyInv'
  BY <1>2, ClientWhole
<1>3. CASE UNCHANGED <<serverVars, clientVars, c2s>>
  <2>1. /\ UNCHANGED <<hstate, peer, m_recv_buffer, m_packet_header, pending, run>>
        /\ \A d \in Clients : Away(d) => Away(d)' /\ c2s'[d] = c2s[d]
    BY <1>3 DEF serverVars, clientVars, Away
  <2> QED
    BY <2>1, OthersWhole
<1>4. CASE UNCHANGED vars
  BY <1>3, <1>4 DEF vars, tcpVars
<1>5. ASSUME NEW c \in Clients, PeerReset(c) \/ LinkLost(c), UNCHANGED <<serverVars, clientVars>>
      PROVE  AssemblyInv'
  BY <1>3, <1>5 DEF PeerReset, LinkLost
<1> QED
  BY <1>1, <1>2, <1>4, <1>5 DEF Next

\* Where no part of a packet arrives in more than two pieces, a running server has
\* something in progress for each of its sessions, whatever the clients and the
\* network do: neither a half packet nor an early close leaves one in m_set_handlers
\* that nothing will ever wake.  With three pieces this is false.
THEOREM NoSessionStalls == ASSUME ServerPieces <= 2 PROVE Spec => []NoStall
<1>1. Init => AssemblyInv
  BY DEF Init, ServerInit, AssemblyInv, NoStall
<1>2. IInv /\ ServiceInv /\ StreamInv /\ AssemblyInv /\ [Next]_vars => AssemblyInv'
  BY NextWhole
<1>3. AssemblyInv => NoStall
  BY DEF AssemblyInv
<1> QED
  BY <1>1, <1>2, <1>3, StreamInvariance, PTL DEF Spec
=============================================================================
