--------------------------- MODULE LogFileProofs ---------------------------
(***************************************************************************)
(* Theorems about LogFile, for any threads, texts, limits, reserve times,  *)
(* lengths of a day and of a machine number, and for any number of         *)
(* records, settings and failures.                                         *)
(***************************************************************************)
EXTENDS LogFile, TLAPS, FiniteSetTheorems, SequenceTheorems

-----------------------------------------------------------------------------
(***************************************************************************)
(* Arithmetic: a counter that wraps around                                 *)
(***************************************************************************)
LEMMA OnlyMultiple ==
  ASSUME NEW w \in Nat \ {0}, NEW d \in Int, w * d < w, -w < w * d
  PROVE  d = 0
<1>1. CASE d >= 1
  <2>1. w * d >= w * 1
    BY <1>1, Z3
  <2> QED
    BY <2>1
<1>2. CASE d <= -1
  <2>1. w * d <= w * (-1)
    BY <1>2, Z3
  <2> QED
    BY <2>1
<1> QED
  BY <1>1, <1>2

LEMMA Remainder ==
  ASSUME NEW y \in Nat, NEW w \in Nat \ {0}, NEW k \in Int, NEW r \in 0..(w - 1),
         y = (w * k) + r
  PROVE  y % w = r
<1>1. PICK q \in Int, m \in 0..(w - 1) : y = (w * q) + m /\ m = y % w
  <2>1. y = (w * (y \div w)) + (y % w) /\ y \div w \in Int /\ y % w \in 0..(w - 1)
    OBVIOUS
  <2> QED
    BY <2>1
<1>2. w * (k - q) = (w * k) - (w * q)
  BY <1>1, Z3
<1>3. PICK d \in Int : d = k - q
  BY <1>1
<1>4. w * d < w /\ -w < w * d
  BY <1>1, <1>2, <1>3
<1>5. d = 0
  BY <1>3, <1>4, OnlyMultiple
<1> QED
  BY <1>1, <1>3, <1>5

\* Adding to a number that was cut to the width of the machine.
LEMMA WrapAdd ==
  ASSUME NEW a \in Nat, NEW b \in Nat, NEW w \in Nat \ {0}
  PROVE  ((a % w) + b) % w = (a + b) % w
<1>1. PICK q \in Int, m \in 0..(w - 1) : a = (w * q) + m /\ m = a % w
  <2>1. a = (w * (a \div w)) + (a % w) /\ a \div w \in Int /\ a % w \in 0..(w - 1)
    OBVIOUS
  <2> QED
    BY <2>1
<1>2. PICK p \in Int, n \in 0..(w - 1) : a + b = (w * p) + n /\ n = (a + b) % w
  <2>1. PICK s \in Nat : s = a + b
    OBVIOUS
  <2>2. s = (w * (s \div w)) + (s % w) /\ s \div w \in Int /\ s % w \in 0..(w - 1)
    BY <2>1
  <2> QED
    BY <2>1, <2>2
<1>3. (w * p) - (w * q) = w * (p - q)
  BY <1>1, <1>2, Z3
<1>4. a = (w * q) + m /\ a + b = (w * p) + n /\ w * q \in Int /\ w * p \in Int
  BY <1>1, <1>2
<1>5. m + b = (w * (p - q)) + n /\ m + b \in Nat
  <2>1. PICK x \in Int, y \in Int : x = w * q /\ y = w * p
    BY <1>4
  <2>2. m + b = (y - x) + n /\ m + b \in Nat
    BY <2>1, <1>4
  <2> QED
    BY <1>3, <2>1, <2>2
<1>6. PICK d \in Int : d = p - q
  BY <1>1, <1>2
<1>7. (m + b) % w = n
  BY <1>2, <1>5, <1>6, Remainder
<1> QED
  BY <1>1, <1>2, <1>7

LEMMA WrapType ==
  ASSUME NEW a \in Nat, NEW w \in Nat \ {0}
  PROVE  a % w \in 0..(w - 1)
OBVIOUS

\* The midnight before a time is less than a day before it.
LEMMA DayOfType ==
  ASSUME NEW t \in Nat
  PROVE  DayOf(t) \in Nat /\ DayOf(t) % Day = 0 /\ DayOf(t) <= t /\ t < DayOf(t) + Day
<1>1. Day \in Nat \ {0}
  BY FileAssumption
<1>2. t = (Day * (t \div Day)) + (t % Day) /\ t \div Day \in Nat /\ t % Day \in 0..(Day - 1)
  BY <1>1
<1>3. PICK q \in Nat, r \in 0..(Day - 1) : q = t \div Day /\ t = (Day * q) + r
  BY <1>2
<1>4. q * Day = (Day * q) + 0 /\ q * Day \in Nat
  BY <1>1, <1>3
<1>5. (q * Day) % Day = 0
  BY <1>1, <1>3, <1>4, Remainder
<1> QED
  BY <1>1, <1>3, <1>4, <1>5 DEF DayOf

\* A time less than a day after a midnight is of that day.
LEMMA SamedayIsDay ==
  ASSUME NEW t \in Nat, NEW d \in Nat, d % Day = 0, t >= d, t - d < Day
  PROVE  DayOf(t) = d
<1>1. Day \in Nat \ {0}
  BY FileAssumption
<1>2. PICK q \in Int, r \in 0..(Day - 1) : t = (Day * q) + r /\ q = t \div Day
  <2>1. t = (Day * (t \div Day)) + (t % Day) /\ t \div Day \in Int /\ t % Day \in 0..(Day - 1)
    BY <1>1
  <2> QED
    BY <2>1
<1>3. PICK k \in Int : d = Day * k
  <2>1. PICK k \in Int, s \in Int : d = (Day * k) + s /\ s = d % Day
    <3>1. d = (Day * (d \div Day)) + (d % Day) /\ d \div Day \in Int /\ d % Day \in Int
      BY <1>1
    <3> QED
      BY <3>1
  <2>2. s = 0
    BY <2>1
  <2>3. Day * k \in Int
    BY <1>1, <2>1
  <2>4. PICK x \in Int : x = Day * k
    BY <2>3
  <2>5. d = x
    BY <2>1, <2>2, <2>4
  <2> QED
    BY <2>1, <2>4, <2>5
<1>4. Day * (q - k) = (Day * q) - (Day * k)
  BY <1>1, <1>2, <1>3, Z3
<1>5. PICK e \in Int : e = q - k
  BY <1>2, <1>3
<1>6. Day * e < Day /\ -Day < Day * e
  BY <1>1, <1>2, <1>3, <1>4, <1>5
<1>7. e = 0
  BY <1>1, <1>5, <1>6, OnlyMultiple
<1>8. q = k /\ q * Day = Day * q
  BY <1>1, <1>2, <1>3, <1>5, <1>7
<1> QED
  BY <1>2, <1>3, <1>8 DEF DayOf

-----------------------------------------------------------------------------
(***************************************************************************)
(* The inductive invariant                                                 *)
(***************************************************************************)
\* What the editor has written and what it has still to write make one text.
TextInTwoParts ==
  \E v \in Versions : \E k \in 0..Len(v) :
    conf = SubSeq(v, 1, k) /\ unwritten = SubSeq(v, k + 1, Len(v))

\* A record is not popped later than Lag after its time, a reserve time is one that
\* callers set, a limit one that a text or the default gives.
EntryGood(e, time) ==
  /\ e.type = "log" => e.val <= time /\ time <= e.val + Lag
  /\ e.type = "reserve" => e.val \in ReserveTimes
  /\ e.type = "limitsize" => LimitBytes(e.val) \in Limits
QueueGood(q, time) == q \in Seq(Entry) /\ \A i \in DOMAIN q : EntryGood(q[i], time)
MadeInTime == \A t \in Threads : made[t] # 0 => made[t] <= now /\ now <= made[t] + Lag
Calling ==
  /\ MadeInTime /\ QueueGood(logs, now)
  /\ set.reserve \in ReserveTimes /\ LimitBytes(set.limitsize) \in Limits

\* Files enter the list after the time in their names.
HistoryDated == \A i \in DOMAIN historyLogs : historyLogs[i].second.time <= historyLogs[i].first

\* No record lies in a file of an earlier day.
DayKept(fs) == \A p \in DOMAIN fs : \A i \in DOMAIN fs[p].recs : fs[p].recs[i] < DayOf(p.time) + Day

\* The open file bears the name and the day in force.
HandleCurrent == handle # NoFile => handle.name = set.name /\ DayOf(handle.time) = curFileCreateDay

Writing == HistoryDated /\ DayKept(files) /\ HandleCurrent /\ CounterExact

Inv == TypeOK /\ TextInTwoParts /\ Calling /\ Writing

-----------------------------------------------------------------------------
(***************************************************************************)
(* The queue                                                               *)
(***************************************************************************)
LEMMA QueueAppend ==
  ASSUME NEW time \in Nat, NEW q, QueueGood(q, time), NEW e \in Entry, EntryGood(e, time)
  PROVE  QueueGood(Append(q, e), time)
<1>1. q \in Seq(Entry)
  BY DEF QueueGood
<1>2. /\ Append(q, e) \in Seq(Entry) /\ Len(Append(q, e)) = Len(q) + 1
      /\ \A i \in 1..Len(q) : Append(q, e)[i] = q[i]
      /\ Append(q, e)[Len(q) + 1] = e
      /\ Len(q) \in Nat /\ DOMAIN q = 1..Len(q)
  BY <1>1, AppendProperties, LenProperties
<1>3. DOMAIN Append(q, e) = 1..(Len(q) + 1)
  BY <1>2, LenProperties
<1>4. ASSUME NEW i \in DOMAIN Append(q, e) PROVE EntryGood(Append(q, e)[i], time)
  <2>1. CASE i \in 1..Len(q)
    BY <1>2, <2>1 DEF QueueGood
  <2>2. CASE i = Len(q) + 1
    BY <1>2, <2>2
  <2> QED
    BY <1>2, <1>3, <2>1, <2>2
<1> QED
  BY <1>2, <1>4 DEF QueueGood

LEMMA QueuePop ==
  ASSUME NEW time \in Nat, NEW q, QueueGood(q, time), q # <<>>
  PROVE  QueueGood(Tail(q), time) /\ Head(q) \in Entry /\ EntryGood(Head(q), time)
<1>1. q \in Seq(Entry)
  BY DEF QueueGood
<1>2. /\ Head(q) \in Entry /\ Tail(q) \in Seq(Entry) /\ Len(Tail(q)) = Len(q) - 1
      /\ \A i \in 1..Len(Tail(q)) : Tail(q)[i] = q[i + 1]
      /\ Len(q) \in Nat \ {0} /\ DOMAIN q = 1..Len(q)
  BY <1>1, HeadTailProperties, LenProperties, EmptySeq
<1>3. DOMAIN Tail(q) = 1..(Len(q) - 1)
  BY <1>2, LenProperties
<1>4. Head(q) = q[1]
  BY <1>1
<1>5. ASSUME NEW i \in DOMAIN Tail(q) PROVE EntryGood(Tail(q)[i], time)
  <2>1. i + 1 \in DOMAIN q
    BY <1>2, <1>3
  <2> QED
    BY <1>2, <1>3, <2>1 DEF QueueGood
<1> QED
  BY <1>2, <1>4, <1>5 DEF QueueGood

LEMMA QueueConcat ==
  ASSUME NEW time \in Nat, NEW q, NEW r, QueueGood(q, time), QueueGood(r, time)
  PROVE  QueueGood(q \o r, time)
<1>1. q \in Seq(Entry) /\ r \in Seq(Entry)
  BY DEF QueueGood
<1>2. /\ q \o r \in Seq(Entry) /\ Len(q \o r) = Len(q) + Len(r)
      /\ \A i \in 1..(Len(q) + Len(r)) : (q \o r)[i] = IF i <= Len(q) THEN q[i] ELSE r[i - Len(q)]
      /\ Len(q) \in Nat /\ DOMAIN q = 1..Len(q) /\ Len(r) \in Nat /\ DOMAIN r = 1..Len(r)
  BY <1>1, ConcatProperties, LenProperties
<1>3. DOMAIN (q \o r) = 1..(Len(q) + Len(r))
  BY <1>2, LenProperties
<1>4. ASSUME NEW i \in DOMAIN (q \o r) PROVE EntryGood((q \o r)[i], time)
  <2>1. CASE i <= Len(q)
    BY <1>2, <1>3, <2>1 DEF QueueGood
  <2>2. CASE i > Len(q)
    <3>1. i - Len(q) \in DOMAIN r
      BY <1>2, <1>3, <2>2
    <3> QED
      BY <1>2, <1>3, <2>2, <3>1 DEF QueueGood
  <2> QED
    BY <1>2, <1>3, <2>1, <2>2
<1> QED
  BY <1>2, <1>4 DEF QueueGood

\* A limit is a number.
LEMMA LimitType ==
  ASSUME NEW info \in Infos
  PROVE  /\ info.limitsize \in Nat /\ Limitsize(info.limitsize) \in Nat
         /\ LimitBytes(Limitsize(info.limitsize)) \in Limits
<1>1. LimitValues \subseteq Nat
  <2>1. ASSUME NEW v \in Versions, NEW i \in DOMAIN v PROVE v[i].value \in Nat
    <3>1. v \in Seq([key : STRING, value : Nat])
      BY ConfigAssumption
    <3>2. v[i] \in [key : STRING, value : Nat]
      BY <3>1, LenProperties, ElementOfSeq
    <3> QED
      BY <3>2
  <2>2. ASSUME NEW n \in LimitValues
        PROVE  n = DefaultLimit \/ \E v \in Versions : \E i \in DOMAIN v : n = v[i].value
    <3>1. CASE n = DefaultLimit
      BY <3>1
    <3>2. CASE n # DefaultLimit
      <4>1. PICK v \in Versions : n \in {v[i].value : i \in {j \in DOMAIN v : v[j].key = "limitsize"}}
        BY <2>2, <3>2 DEF LimitValues
      <4> QED
        BY <4>1
    <3> QED
      BY <3>1, <3>2
  <2>3. DefaultLimit \in Nat
    BY ConfigAssumption
  <2> QED
    <3> SUFFICES ASSUME NEW n \in LimitValues PROVE n \in Nat
      OBVIOUS
    <3>1. CASE \E v \in Versions : \E i \in DOMAIN v : n = v[i].value
      BY <2>1, <3>1
    <3> QED
      BY <2>2, <2>3, <3>1
<1>2. PICK n \in Nat : n = info.limitsize
  BY <1>1 DEF Infos
<1>3. Word \in Nat \ {0} /\ n % Word \in Nat
  BY FileAssumption
<1>4. LimitBytes(Limitsize(info.limitsize)) \in Limits
  BY DEF Limits, Infos
<1> QED
  BY <1>2, <1>3, <1>4 DEF Limitsize

\* The settings of a text, as entries of the queue.
LEMMA AppliedGood ==
  ASSUME NEW time \in Nat, NEW info \in Infos
  PROVE  QueueGood(Applied(info), time)
<1>1. Limitsize(info.limitsize) \in Nat /\ LimitBytes(Limitsize(info.limitsize)) \in Limits
  BY LimitType
<1>2. Flag(info.outfile) \in Nat /\ info.name \in Nat
  BY DEF Flag, Infos
<1> DEFINE e0 == EntryOf("enable", 0)
           e1 == EntryOf("name", info.name)
           e2 == EntryOf("outfile", Flag(info.outfile))
           e3 == EntryOf("limitsize", Limitsize(info.limitsize))
<1>3. \A e \in {e0, e1, e2, e3} : e \in Entry /\ EntryGood(e, time)
  BY <1>1, <1>2 DEF EntryOf, Entry, EntryGood
<1> HIDE DEF e0, e1, e2, e3
<1>4. QueueGood(<<>>, time)
  BY DEF QueueGood
<1>5. QueueGood(<<e0>>, time)
  BY <1>3 DEF QueueGood
<1>6. QueueGood(<<e1, e2, e3>>, time)
  BY <1>3 DEF QueueGood
<1>7. Applied(info) = (IF info.enable THEN <<>> ELSE <<e0>>) \o <<e1, e2, e3>>
  BY DEF Applied, e0, e1, e2, e3
<1> QED
  BY <1>4, <1>5, <1>6, <1>7, QueueConcat

-----------------------------------------------------------------------------
(***************************************************************************)
(* The configuration file                                                  *)
(***************************************************************************)
LEMMA TextParses ==
  ASSUME TextInTwoParts
  PROVE  Sum(conf) \in Nat /\ (Mentions(conf) => Wanted(conf) \in Infos)
<1>1. conf \in PartTexts
  BY DEF TextInTwoParts, PartTexts
<1> QED
  BY <1>1, ParseAssumption

LEMMA EditorKeepsText ==
  ASSUME TextInTwoParts, EditorStep
  PROVE  TextInTwoParts'
<1>1. CASE EditorWrites
  <2>0. PICK v \in Versions : \E k \in 0..Len(v) :
          conf = SubSeq(v, 1, k) /\ unwritten = SubSeq(v, k + 1, Len(v))
    BY DEF TextInTwoParts
  <2>1. PICK k \in 0..Len(v) : conf = SubSeq(v, 1, k) /\ unwritten = SubSeq(v, k + 1, Len(v))
    BY <2>0
  <2> DEFINE Lines == [key : STRING, value : Nat]
  <2>2. v \in Seq(Lines) /\ Len(v) \in Nat
    BY ConfigAssumption, LenProperties
  <2> HIDE DEF Lines
  <2>3. k < Len(v)
    <3>1. SUFFICES ASSUME k >= Len(v) PROVE FALSE
      BY <2>1, <2>2
    <3>2. unwritten = <<>>
      BY <2>1, <2>2, <3>1, SubSeqEmpty
    <3> QED
      BY <1>1, <3>2 DEF EditorWrites
  <2>4. k + 1 \in 1..Len(v) /\ v[k + 1] \in Lines
    <3>1. k + 1 \in 1..Len(v)
      BY <2>1, <2>2, <2>3
    <3> QED
      BY <2>2, <3>1, ElementOfSeq
  <2>5. Head(unwritten) = v[k + 1] /\ Tail(unwritten) = SubSeq(v, (k + 1) + 1, Len(v))
    <3>1. Len(v) \in (k + 1)..Len(v)
      BY <2>2, <2>4
    <3>2. Tail(SubSeq(v, k + 1, Len(v))) = SubSeq(v, (k + 1) + 1, Len(v))
          /\ Head(SubSeq(v, k + 1, Len(v))) = v[k + 1]
      BY <2>2, <2>4, <3>1, HeadTailOfSubSeq
    <3> QED
      BY <2>1, <3>2
  <2>6. Append(conf, v[k + 1]) = SubSeq(v, 1, k + 1)
    <3>1. 1 \in 1..Len(v) /\ k + 1 \in 1..Len(v)
      BY <2>2, <2>4
    <3>2. SubSeq(v, 1, k + 1) = SubSeq(v, 1, (k + 1) - 1) \o <<v[k + 1]>>
      BY <2>2, <3>1, SubSeqRecursiveSecond
    <3>3. conf \in Seq(Lines)
      <4>1. \A i \in 1..k : v[i] \in Lines
        <5> SUFFICES ASSUME NEW i \in 1..k PROVE v[i] \in Lines
          OBVIOUS
        <5>1. i \in 1..Len(v)
          BY <2>1, <2>2, <2>3
        <5> QED
          BY <2>2, <5>1, ElementOfSeq
      <4>2. SubSeq(v, 1, k) \in Seq(Lines)
        BY <2>1, <4>1, SubSeqProperties
      <4> QED
        BY <2>1, <4>2
    <3>4. Append(conf, v[k + 1]) = conf \o <<v[k + 1]>>
      BY <2>4, <3>3, AppendIsConcat
    <3>5. (k + 1) - 1 = k
      BY <2>1
    <3> QED
      BY <2>1, <3>2, <3>4, <3>5
  <2>7. conf' = SubSeq(v, 1, k + 1) /\ unwritten' = SubSeq(v, (k + 1) + 1, Len(v))
    BY <1>1, <2>1, <2>5, <2>6 DEF EditorWrites
  <2>8. PICK j \in 0..Len(v) : j = k + 1
    BY <2>2, <2>4
  <2>9. conf' = SubSeq(v, 1, j) /\ unwritten' = SubSeq(v, j + 1, Len(v))
    BY <2>7, <2>8
  <2> QED
    BY <2>8, <2>9 DEF TextInTwoParts
<1>2. ASSUME NEW v \in Versions, EditorTruncates(v) PROVE TextInTwoParts'
  <2>1. v \in Seq([key : STRING, value : Nat]) /\ Len(v) \in Nat
    BY ConfigAssumption, LenProperties
  <2>2. SubSeq(v, 1, 0) = <<>> /\ SubSeq(v, 1, Len(v)) = v
    BY <2>1, SubSeqEmpty, SubSeqFull
  <2>3. conf' = SubSeq(v, 1, 0) /\ unwritten' = SubSeq(v, 0 + 1, Len(v)) /\ 0 \in 0..Len(v)
    BY <1>2, <2>1, <2>2 DEF EditorTruncates
  <2> QED
    BY <2>3 DEF TextInTwoParts
<1> QED
  BY <1>1, <1>2 DEF EditorStep

LEMMA SettingsType ==
  ASSUME NEW info \in Infos, NEW r \in ReserveTimes
  PROVE  /\ SettingsOf(info, r) \in Settings /\ SettingsOf(info, r).reserve \in ReserveTimes
         /\ LimitBytes(SettingsOf(info, r).limitsize) \in Limits
<1>1. Limitsize(info.limitsize) \in Nat /\ LimitBytes(Limitsize(info.limitsize)) \in Limits /\ r \in Nat
  BY LimitType, FileAssumption DEF ReserveTimes
<1> QED
  BY <1>1 DEF SettingsOf, Settings, Infos

LEMMA Initially == Init => Inv
<1> SUFFICES ASSUME Init PROVE Inv
  OBVIOUS
<1>1. TextInTwoParts
  <2>1. conf \in Versions /\ conf \in Seq([key : STRING, value : Nat]) /\ Len(conf) \in Nat
    BY ConfigAssumption, LenProperties DEF Init
  <2>2. SubSeq(conf, 1, Len(conf)) = conf /\ SubSeq(conf, Len(conf) + 1, Len(conf)) = <<>>
    BY <2>1, SubSeqFull, SubSeqEmpty
  <2>3. conf = SubSeq(conf, 1, Len(conf)) /\ unwritten = SubSeq(conf, Len(conf) + 1, Len(conf))
        /\ Len(conf) \in 0..Len(conf)
    BY <2>1, <2>2 DEF Init
  <2> QED
    BY <2>1, <2>3 DEF TextInTwoParts
<1>2. Sum(conf) \in Nat /\ Wanted(conf) \in Infos
  BY <1>1, TextParses DEF Init
<1>3. set \in Settings /\ set.reserve \in ReserveTimes /\ LimitBytes(set.limitsize) \in Limits
  BY <1>2, SettingsType DEF Init, ReserveTimes
<1>4. 0 % Day = 0 /\ Day \in Nat /\ 0 \in 0..(Word - 1)
  <2>1. 0 = (Day * 0) + 0 /\ 0 \in 0..(Day - 1)
    BY FileAssumption
  <2> QED
    BY <2>1, FileAssumption, Remainder
<1>5. TypeOK
  BY <1>2, <1>3, <1>4, EmptySeq DEF Init, TypeOK, File, Path
<1>6. Calling /\ Writing
  BY <1>3, EmptySeq DEF Init, Calling, MadeInTime, QueueGood, Writing, HistoryDated, DayKept, HandleCurrent, CounterExact
<1> QED
  BY <1>1, <1>5, <1>6 DEF Inv

-----------------------------------------------------------------------------
(***************************************************************************)
(* Steps that leave the files alone                                        *)
(***************************************************************************)
LEMMA SameText ==
  ASSUME TextInTwoParts, UNCHANGED confVars
  PROVE  TextInTwoParts'
BY DEF TextInTwoParts, confVars

LEMMA SameFiles ==
  ASSUME Writing, UNCHANGED fileVars, set.name' = set.name
  PROVE  Writing'
BY DEF Writing, HistoryDated, DayKept, HandleCurrent, CounterExact, fileVars

LEMMA TickKeeps == Inv /\ Tick => Inv'
<1> SUFFICES ASSUME Inv, Tick PROVE Inv'
  OBVIOUS
<1>1. now' = now + 1 /\ now \in Nat /\ Lag \in Nat /\ logs \in Seq(Entry)
  BY FileAssumption DEF Inv, TypeOK, Tick
<1>2. MadeInTime'
  <2> SUFFICES ASSUME NEW t \in Threads, made[t] # 0
               PROVE  made[t] <= now + 1 /\ now + 1 <= made[t] + Lag
    BY <1>1 DEF MadeInTime, Tick
  <2>1. made[t] \in Waiting /\ made[t] \in Nat
    BY DEF Waiting, Inv, TypeOK
  <2> QED
    BY <1>1, <2>1 DEF Inv, Calling, MadeInTime, Tick
<1>3. QueueGood(logs, now)'
  <2> SUFFICES ASSUME NEW i \in DOMAIN logs PROVE EntryGood(logs[i], now + 1)
    BY <1>1 DEF QueueGood, Tick
  <2>1. logs[i] \in Entry
    BY <1>1, LenProperties, ElementOfSeq
  <2>2. logs[i].type = "log" => logs[i].val \in Waiting
    BY DEF Waiting
  <2> QED
    BY <1>1, <2>1, <2>2 DEF Inv, Calling, QueueGood, EntryGood, Entry, Tick
<1>4. UNCHANGED <<confVars, fileVars, set>>
  BY DEF Tick
<1>5. TypeOK'
  BY <1>1, <1>4, SMTT(30) DEF Inv, TypeOK, Tick, confVars, fileVars
<1>6. TextInTwoParts' /\ Writing'
  BY <1>4, SameText, SameFiles DEF Inv
<1> QED
  BY <1>2, <1>3, <1>4, <1>5, <1>6 DEF Inv, Calling

LEMMA MakeKeeps ==
  ASSUME Inv, NEW t \in Threads, MakeLogData(t)
  PROVE  Inv'
<1>1. now \in Nat /\ Lag \in Nat /\ made \in [Threads -> Nat] /\ made' = [made EXCEPT ![t] = now]
  BY FileAssumption DEF Inv, TypeOK, MakeLogData
<1>2. UNCHANGED <<confVars, fileVars, set, logs, now>>
  BY DEF MakeLogData
<1>3. TypeOK'
  BY <1>1, <1>2 DEF Inv, TypeOK, MakeLogData, confVars, fileVars
<1>4. Calling'
  BY <1>1, <1>2 DEF Inv, Calling, MadeInTime
<1> QED
  BY <1>2, <1>3, <1>4, SameText, SameFiles DEF Inv

LEMMA PushKeeps ==
  ASSUME Inv, NEW t \in Threads, PushLog(t)
  PROVE  Inv'
<1>1. now \in Nat /\ made \in [Threads -> Nat] /\ made' = [made EXCEPT ![t] = 0] /\ made[t] # 0
  BY DEF Inv, TypeOK, PushLog
<1>2. UNCHANGED <<confVars, fileVars, set, now>> /\ logs' = Append(logs, EntryOf("log", made[t]))
  BY DEF PushLog
<1>3. EntryOf("log", made[t]) \in Entry /\ EntryGood(EntryOf("log", made[t]), now)
  BY <1>1 DEF EntryOf, Entry, EntryGood, Inv, Calling, MadeInTime
<1>4. QueueGood(logs, now)'
  BY <1>1, <1>2, <1>3, QueueAppend DEF Inv, Calling
<1>5. TypeOK'
  BY <1>1, <1>2, <1>4 DEF Inv, TypeOK, PushLog, QueueGood, confVars, fileVars
<1>6. Calling'
  BY <1>1, <1>2, <1>4 DEF Inv, Calling, MadeInTime
<1> QED
  BY <1>2, <1>5, <1>6, SameText, SameFiles DEF Inv

LEMMA SetReserveKeeps ==
  ASSUME Inv, NEW r \in Reserves, SetLoggerReserveTime(r)
  PROVE  Inv'
<1>1. now \in Nat /\ r \in Nat
  BY FileAssumption DEF Inv, TypeOK
<1>2. UNCHANGED <<confVars, fileVars, set, now, made>> /\ logs' = Append(logs, EntryOf("reserve", r))
  BY DEF SetLoggerReserveTime
<1>3. EntryOf("reserve", r) \in Entry /\ EntryGood(EntryOf("reserve", r), now)
  BY <1>1 DEF EntryOf, Entry, EntryGood, ReserveTimes
<1>4. QueueGood(logs, now)'
  BY <1>1, <1>2, <1>3, QueueAppend DEF Inv, Calling
<1>5. TypeOK'
  BY <1>1, <1>2, <1>4, SMTT(30) DEF Inv, TypeOK, SetLoggerReserveTime, QueueGood, confVars, fileVars
<1>6. Calling'
  BY <1>1, <1>2, <1>4 DEF Inv, Calling, MadeInTime
<1> QED
  BY <1>2, <1>5, <1>6, SameText, SameFiles DEF Inv

LEMMA EditorKeeps ==
  ASSUME Inv, EditorStep,
         UNCHANGED <<now, made, logs, at, lastCheckUpdate, set, fileVars, popped, changes, failures>>
  PROVE  Inv'
<1>1. TextInTwoParts'
  BY EditorKeepsText DEF Inv
<1>2. checksum' \in Nat /\ edits' \in Nat
  BY DEF Inv, TypeOK, EditorStep, EditorWrites, EditorTruncates
<1>3. TypeOK' /\ Calling'
  BY <1>2 DEF Inv, TypeOK, Calling, MadeInTime, QueueGood, fileVars
<1> QED
  BY <1>1, <1>3, SameFiles DEF Inv

\* A setting takes effect on an open logger, whose file is closed for it.
LEMMA PopSettingKeeps == Inv /\ PopSetting => Inv'
<1> SUFFICES ASSUME Inv, PopSetting PROVE Inv'
  OBVIOUS
<1> DEFINE e == Head(logs)
<1>1. now \in Nat /\ logs # <<>> /\ logs' = Tail(logs) /\ e.type # "log"
  BY DEF Inv, TypeOK, PopSetting
<1>2. QueueGood(logs, now)' /\ e \in Entry /\ EntryGood(e, now)
  BY <1>1, QueuePop DEF Inv, Calling, PopSetting
<1> HIDE DEF e
<1>3. set' \in Settings /\ set'.reserve \in ReserveTimes /\ LimitBytes(set'.limitsize) \in Limits
  <2>1. set \in Settings /\ set.reserve \in ReserveTimes /\ LimitBytes(set.limitsize) \in Limits
    BY DEF Inv, TypeOK, Calling
  <2>2. OnHotChange(e)
    BY DEF PopSetting, e
  <2>3. CASE e.type = "name"
    BY <1>2, <2>1, <2>2, <2>3 DEF OnHotChange, Entry, Settings
  <2>4. CASE e.type = "outfile"
    BY <1>2, <2>1, <2>2, <2>4 DEF OnHotChange, Entry, Settings
  <2>5. CASE e.type = "limitsize"
    BY <1>2, <2>1, <2>2, <2>5 DEF OnHotChange, Entry, EntryGood, Settings
  <2>6. CASE e.type = "enable"
    BY <1>2, <2>1, <2>2, <2>6 DEF OnHotChange, Entry, Settings
  <2>7. CASE e.type = "reserve"
    BY <1>2, <2>1, <2>2, <2>7 DEF OnHotChange, Entry, EntryGood, Settings
  <2> QED
    BY <1>1, <1>2, <2>3, <2>4, <2>5, <2>6, <2>7 DEF Entry
<1>4. UNCHANGED <<confVars, now, made, curFileCreateDay, curFileIndex, curWriteLen, historyLogs, files>>
      /\ handle' = NoFile
  BY DEF PopSetting
<1>5. TypeOK'
  BY <1>2, <1>3, <1>4 DEF Inv, TypeOK, QueueGood, PopSetting, confVars
<1>6. Calling'
  BY <1>2, <1>3, <1>4 DEF Inv, Calling, MadeInTime, LimitBytes, Limits
<1>7. Writing'
  BY <1>4 DEF Inv, Writing, HistoryDated, DayKept, HandleCurrent, CounterExact
<1> QED
  BY <1>4, <1>5, <1>6, <1>7, SameText DEF Inv

LEMMA SleepKeeps == Inv /\ (RunSleeps \/ RunWakes) => Inv'
<1> SUFFICES ASSUME Inv, RunSleeps \/ RunWakes PROVE Inv'
  OBVIOUS
<1>1. /\ UNCHANGED <<confVars, now, made, logs, set, curFileCreateDay, curFileIndex, curWriteLen,
                     historyLogs, files, lastCheckUpdate, popped, changes, failures>>
      /\ handle' \in {handle, NoFile} /\ at' \in {"pop", "sleep"}
  BY DEF RunSleeps, RunWakes, fileVars
<1>2. TypeOK' /\ Calling'
  BY <1>1 DEF Inv, TypeOK, Calling, MadeInTime, QueueGood, confVars
<1>3. Writing'
  BY <1>1 DEF Inv, Writing, HistoryDated, DayKept, HandleCurrent, CounterExact
<1> QED
  BY <1>1, <1>2, <1>3, SameText DEF Inv

LEMMA UpdateKeeps == Inv /\ UpdateConfig => Inv'
<1> SUFFICES ASSUME Inv, UpdateConfig PROVE Inv'
  OBVIOUS
<1>1. Sum(conf) \in Nat /\ (Mentions(conf) => Wanted(conf) \in Infos)
  BY TextParses DEF Inv
<1>2. /\ UNCHANGED <<conf, unwritten, edits, now, made, fileVars, popped, changes, failures>>
      /\ at' = "pop" /\ lastCheckUpdate' = now /\ checksum' = Sum(conf) /\ now \in Nat
  BY DEF Inv, TypeOK, UpdateConfig
<1>3. QueueGood(logs, now)' /\ set' \in Settings /\ set'.reserve = set.reserve /\ set'.name = set.name
      /\ set'.limitsize = set.limitsize
  <2>1. set \in Settings /\ QueueGood(logs, now)
    BY DEF Inv, TypeOK, Calling
  <2>2. CASE Mentions(conf) /\ logs' = logs \o Applied(Wanted(conf))
             /\ set' = [set EXCEPT !.enable = @ \/ Wanted(conf).enable]
    <3>1. QueueGood(Applied(Wanted(conf)), now)
      BY <1>1, <1>2, <2>2, AppliedGood
    <3>2. QueueGood(logs \o Applied(Wanted(conf)), now)
      BY <1>2, <2>1, <3>1, QueueConcat
    <3>3. set'.enable \in BOOLEAN
      BY <1>1, <2>1, <2>2 DEF Settings, Infos
    <3> QED
      BY <1>2, <2>1, <2>2, <3>2, <3>3 DEF Settings
  <2>3. CASE UNCHANGED <<logs, set>>
    BY <1>2, <2>1, <2>3
  <2> QED
    BY <2>2, <2>3 DEF UpdateConfig
<1>4. TypeOK'
  BY <1>1, <1>2, <1>3 DEF Inv, TypeOK, QueueGood, fileVars
<1>5. Calling'
  BY <1>2, <1>3 DEF Inv, Calling, MadeInTime, LimitBytes, Limits
<1>6. TextInTwoParts'
  BY <1>2 DEF Inv, TextInTwoParts
<1> QED
  BY <1>2, <1>3, <1>4, <1>5, <1>6, SameFiles DEF Inv

-----------------------------------------------------------------------------
(***************************************************************************)
(* Steps that write                                                        *)
(***************************************************************************)
LEMMA WrittenFile ==
  ASSUME NEW fs, fs \in [DOMAIN fs -> File], NEW p \in DOMAIN fs, NEW t \in Nat,
         NEW n \in 0..RecLen
  PROVE  /\ DOMAIN Written(fs, p, t, n) = DOMAIN fs
         /\ Written(fs, p, t, n) \in [DOMAIN fs -> File]
         /\ \A q \in DOMAIN fs : q # p => Written(fs, p, t, n)[q] = fs[q]
         /\ Written(fs, p, t, n)[p].bytes = fs[p].bytes + n
         /\ n = RecLen => Written(fs, p, t, n)[p].recs = Append(fs[p].recs, t)
         /\ n # RecLen => Written(fs, p, t, n)[p].recs = fs[p].recs
<1> DEFINE recs == IF n = RecLen THEN Append(fs[p].recs, t) ELSE fs[p].recs
           new  == [bytes |-> fs[p].bytes + n, recs |-> recs]
<1>1. fs[p] \in File /\ n \in Nat /\ fs[p].bytes \in Nat /\ fs[p].recs \in Seq(Nat)
  BY FileAssumption, SMTT(30) DEF File
<1>2. recs \in Seq(Nat)
  BY <1>1, AppendProperties
<1>3. new \in File
  BY <1>1, <1>2 DEF File
<1>4. Written(fs, p, t, n) = [fs EXCEPT ![p] = new]
  BY <1>1 DEF Written, File
<1> HIDE DEF recs
<1>5. new.bytes = fs[p].bytes + n /\ new.recs = recs
  OBVIOUS
<1> HIDE DEF new
<1>6. /\ DOMAIN [fs EXCEPT ![p] = new] = DOMAIN fs
      /\ [fs EXCEPT ![p] = new] \in [DOMAIN fs -> File]
      /\ \A q \in DOMAIN fs : q # p => [fs EXCEPT ![p] = new][q] = fs[q]
      /\ [fs EXCEPT ![p] = new][p] = new
  BY <1>3
<1> QED
  BY <1>4, <1>5, <1>6 DEF recs

LEMMA WrittenDays ==
  ASSUME NEW fs, fs \in [DOMAIN fs -> File], DayKept(fs), NEW p \in DOMAIN fs, NEW t \in Nat,
         NEW n \in 0..RecLen, t < DayOf(p.time) + Day
  PROVE  DayKept(Written(fs, p, t, n))
<1> SUFFICES ASSUME NEW q \in DOMAIN fs, NEW i \in DOMAIN Written(fs, p, t, n)[q].recs
             PROVE  Written(fs, p, t, n)[q].recs[i] < DayOf(q.time) + Day
  BY WrittenFile DEF DayKept
<1>1. CASE q # p \/ n # RecLen
  <2>1. Written(fs, p, t, n)[q].recs = fs[q].recs
    BY <1>1, WrittenFile
  <2> QED
    BY <2>1 DEF DayKept
<1>2. CASE q = p /\ n = RecLen
  <2>1. fs[p].recs \in Seq(Nat)
    BY DEF File
  <2>2. Written(fs, p, t, n)[p].recs = Append(fs[p].recs, t)
    BY <1>2, WrittenFile
  <2>3. /\ Append(fs[p].recs, t) \in Seq(Nat) /\ Len(Append(fs[p].recs, t)) = Len(fs[p].recs) + 1
        /\ \A j \in 1..Len(fs[p].recs) : Append(fs[p].recs, t)[j] = fs[p].recs[j]
        /\ Append(fs[p].recs, t)[Len(fs[p].recs) + 1] = t
        /\ Len(fs[p].recs) \in Nat /\ DOMAIN fs[p].recs = 1..Len(fs[p].recs)
    BY <2>1, AppendProperties, LenProperties
  <2>4. DOMAIN Append(fs[p].recs, t) = 1..(Len(fs[p].recs) + 1)
    BY <2>3, LenProperties
  <2>5. CASE i = Len(fs[p].recs) + 1
    BY <1>2, <2>2, <2>3, <2>5
  <2>6. CASE i \in DOMAIN fs[p].recs
    BY <1>2, <2>2, <2>3, <2>6 DEF DayKept
  <2> QED
    BY <1>2, <2>2, <2>3, <2>4, <2>5, <2>6
<1> QED
  BY <1>1, <1>2

\* Writing to a file that is on the disk and was opened with its length.
LEMMA WriteKeeps ==
  ASSUME NEW t \in Nat, NEW p \in Path, NEW n \in 0..RecLen, NEW len \in Nat,
         NEW fs, fs \in [DOMAIN fs -> File], DOMAIN fs \subseteq Path, DayKept(fs),
         p \in DOMAIN fs, len % Word = fs[p].bytes % Word, t < DayOf(p.time) + Day,
         failures \in Nat, files' = Written(fs, p, t, n), curWriteLen' = (len + RecLen) % Word,
         \/ n = RecLen /\ handle' = p /\ UNCHANGED failures
         \/ handle' = NoFile /\ failures' = failures + 1
  PROVE  /\ files' \in [DOMAIN files' -> File] /\ DOMAIN files' = DOMAIN fs /\ DayKept(files')
         /\ curWriteLen' \in 0..(Word - 1) /\ handle' \in {p, NoFile} /\ failures' \in Nat
         /\ CounterExact'
         /\ failures' > failures \/ files'[p].recs = Append(fs[p].recs, t)
<1>1. /\ files' \in [DOMAIN files' -> File] /\ DOMAIN files' = DOMAIN fs /\ DayKept(files')
      /\ files'[p].bytes = fs[p].bytes + n
      /\ n = RecLen => files'[p].recs = Append(fs[p].recs, t)
  BY WrittenFile, WrittenDays
<1>2. Word \in Nat \ {0} /\ RecLen \in Nat /\ fs[p].bytes \in Nat /\ len + RecLen \in Nat
  <2>1. Word \in Nat \ {0} /\ RecLen \in Nat
    BY FileAssumption
  <2>2. fs[p] \in File
    OBVIOUS
  <2>3. fs[p].bytes \in Nat
    BY <2>2 DEF File
  <2>4. len + RecLen \in Nat
    BY <2>1
  <2> QED
    BY <2>1, <2>3, <2>4
<1>3. curWriteLen' \in 0..(Word - 1)
  BY <1>2, WrapType
<1>4. curWriteLen' = (fs[p].bytes + RecLen) % Word
  <2>1. (len + RecLen) % Word = ((len % Word) + RecLen) % Word
    BY <1>2, WrapAdd
  <2>2. ((fs[p].bytes % Word) + RecLen) % Word = (fs[p].bytes + RecLen) % Word
    BY <1>2, WrapAdd
  <2> QED
    BY <2>1, <2>2
<1>5. CASE n = RecLen /\ handle' = p /\ UNCHANGED failures
  BY <1>1, <1>3, <1>4, <1>5 DEF CounterExact
<1>6. CASE handle' = NoFile /\ failures' = failures + 1
  BY <1>1, <1>3, <1>6 DEF CounterExact
<1> QED
  BY <1>5, <1>6

-----------------------------------------------------------------------------
(***************************************************************************)
(* Steps that pop a record                                                 *)
(***************************************************************************)
\* The record that is popped: what is left is a queue, and it is not late.
LEMMA PopQueue ==
  ASSUME Inv, NEW t \in Nat, Pop(t)
  PROVE  /\ QueueGood(logs, now)' /\ popped' \in Seq(Nat)
         /\ t <= now /\ now <= t + Lag /\ now \in Nat
         /\ UNCHANGED <<confVars, now, made, at, lastCheckUpdate, changes>>
<1>1. now \in Nat /\ QueueGood(logs, now) /\ logs # <<>> /\ popped \in Seq(Nat)
  BY DEF Inv, TypeOK, Calling, Pop
<1>2. QueueGood(Tail(logs), now) /\ EntryGood(Head(logs), now) /\ Head(logs) = EntryOf("log", t)
  BY <1>1, QueuePop DEF Pop
<1>3. popped' \in Seq(Nat)
  BY <1>1, AppendProperties DEF Pop
<1> QED
  BY <1>1, <1>2, <1>3 DEF Pop, EntryGood, EntryOf

LEMMA PopCalling ==
  ASSUME Inv, NEW t \in Nat, Pop(t), set'.reserve = set.reserve, set'.limitsize = set.limitsize
  PROVE  Calling'
BY PopQueue DEF Inv, Calling, MadeInTime, LimitBytes, Limits

\* What a pop has still to show for the types.
LEMMA PopType ==
  ASSUME Inv, NEW t \in Nat, Pop(t), set' \in Settings,
         curFileCreateDay' \in Nat, curFileCreateDay' % Day = 0,
         curFileIndex' \in Nat, curWriteLen' \in 0..(Word - 1), handle' \in Path \cup {NoFile},
         historyLogs' \in Seq([first : Nat, second : Path]),
         DOMAIN files' \subseteq Path, files' \in [DOMAIN files' -> File], failures' \in Nat
  PROVE  TypeOK'
BY PopQueue DEF Inv, TypeOK, QueueGood, confVars

LEMMA PathForType ==
  ASSUME Inv, NEW t \in Nat
  PROVE  /\ NextIndex(t) \in Nat /\ PathFor(t) \in Path
         /\ PathFor(t).name = set.name /\ PathFor(t).time = t
         /\ DayOf(t) \in Nat /\ DayOf(t) % Day = 0 /\ t < DayOf(t) + Day
<1>1. NextIndex(t) \in Nat /\ set.name \in Nat
  BY SMTT(30) DEF NextIndex, Inv, TypeOK, Settings
<1> QED
  BY <1>1, DayOfType DEF PathFor, Path

LEMMA PopUnwrittenKeeps ==
  ASSUME Inv, NEW t \in Nat, PopUnwritten(t)
  PROVE  Inv'
<1>1. Pop(t) /\ UNCHANGED <<set, fileVars, failures>>
  BY DEF PopUnwritten
<1>2. TypeOK'
  BY <1>1, PopQueue DEF Inv, TypeOK, QueueGood, confVars, fileVars
<1>3. Calling' /\ UNCHANGED confVars
  BY <1>1, PopCalling, PopQueue
<1> QED
  BY <1>1, <1>2, <1>3, SameText, SameFiles DEF Inv

LEMMA PopOpenFailsKeeps ==
  ASSUME Inv, NEW t \in Nat, PopOpenFails(t)
  PROVE  Inv'
<1>1. /\ Pop(t) /\ handle' = NoFile /\ curWriteLen' = 0 /\ UNCHANGED <<historyLogs, files>>
      /\ curFileIndex' = NextIndex(t) /\ curFileCreateDay' = DayOf(t)
      /\ failures' = failures + 1 /\ set' = [set EXCEPT !.outfile = FALSE]
  BY DEF PopOpenFails
<1>2. set' \in Settings /\ set'.reserve = set.reserve /\ set'.limitsize = set.limitsize
  BY <1>1 DEF Inv, TypeOK, Settings
<1>3. 0 \in 0..(Word - 1)
  BY FileAssumption
<1>4. /\ historyLogs \in Seq([first : Nat, second : Path]) /\ DOMAIN files \subseteq Path
      /\ files \in [DOMAIN files -> File] /\ failures' \in Nat
  BY <1>1 DEF Inv, TypeOK
<1>5. NextIndex(t) \in Nat /\ DayOf(t) \in Nat /\ DayOf(t) % Day = 0
  BY PathForType
<1>6. TypeOK'
  BY <1>1, <1>2, <1>3, <1>4, <1>5, PopType
<1>7. Calling' /\ UNCHANGED confVars
  BY <1>1, <1>2, PopCalling, PopQueue
<1>8. Writing'
  BY <1>1 DEF Inv, Writing, HistoryDated, DayKept, HandleCurrent, CounterExact
<1> QED
  BY <1>6, <1>7, <1>8, SameText DEF Inv

\* Where a record of time t goes, and what may go for it.
Reached(t) ==
  \/ failures' > failures
  \/ \E p \in DOMAIN files' :
       /\ p.name = set.name /\ DayOf(p.time) = DayOf(t)
       /\ files'[p].recs = Append(IF p \in DOMAIN files THEN files[p].recs ELSE <<>>, t)

OnlyOldGo ==
  \A q \in DOMAIN files \ DOMAIN files' :
    \A i \in DOMAIN files[q].recs : files[q].recs[i] + set.reserve < now + Day

LEMMA PopAppendsKeeps ==
  ASSUME Inv, NEW t \in Nat, NEW n \in 0..RecLen, PopAppends(t, n)
  PROVE  Inv' /\ Reached(t) /\ OnlyOldGo
<1>1. /\ Pop(t) /\ handle # NoFile /\ Sameday(t) /\ Write(t, handle, n, files, curWriteLen)
      /\ UNCHANGED <<set, curFileCreateDay, curFileIndex, historyLogs>>
  BY DEF PopAppends, StaysOpen
<1>2. /\ handle \in Path /\ handle \in DOMAIN files /\ curWriteLen = files[handle].bytes % Word
      /\ handle.name = set.name /\ DayOf(handle.time) = curFileCreateDay
  BY <1>1 DEF Inv, TypeOK, Writing, CounterExact, HandleCurrent
<1>3. /\ curFileCreateDay \in Nat /\ curFileCreateDay % Day = 0
      /\ t >= curFileCreateDay /\ t - curFileCreateDay < Day
  BY <1>1 DEF Inv, TypeOK, Sameday
<1>4. DayOf(t) = curFileCreateDay
  BY <1>3, SamedayIsDay
<1>5. /\ files \in [DOMAIN files -> File] /\ DOMAIN files \subseteq Path /\ DayKept(files)
      /\ curWriteLen \in Nat /\ failures \in Nat /\ files[handle].bytes \in Nat
      /\ Word \in Nat \ {0} /\ Day \in Nat
  <2>1. Word \in Nat \ {0} /\ Day \in Nat
    BY FileAssumption
  <2>2. /\ files \in [DOMAIN files -> File] /\ DOMAIN files \subseteq Path /\ DayKept(files)
        /\ curWriteLen \in 0..(Word - 1) /\ failures \in Nat
    BY DEF Inv, TypeOK, Writing
  <2>3. files[handle] \in File
    BY <1>2, <2>2
  <2> QED
    BY <2>1, <2>2, <2>3 DEF File
<1>6. curWriteLen % Word = files[handle].bytes % Word
  <2>1. ((files[handle].bytes % Word) + 0) % Word = (files[handle].bytes + 0) % Word
    <3>1. PICK b \in Nat : b = files[handle].bytes
      BY <1>5
    <3>2. ((b % Word) + 0) % Word = (b + 0) % Word
      BY <1>5, WrapAdd
    <3> QED
      BY <3>1, <3>2
  <2>2. files[handle].bytes % Word \in Nat
    BY <1>5, WrapType
  <2> QED
    BY <1>2, <1>5, <2>1, <2>2
<1>7. t < DayOf(handle.time) + Day
  BY <1>2, <1>3, <1>5
<1>8. /\ files' \in [DOMAIN files' -> File] /\ DOMAIN files' = DOMAIN files /\ DayKept(files')
      /\ curWriteLen' \in 0..(Word - 1) /\ handle' \in {handle, NoFile} /\ failures' \in Nat
      /\ CounterExact'
      /\ failures' > failures \/ files'[handle].recs = Append(files[handle].recs, t)
  <2>1. /\ files' = Written(files, handle, t, n) /\ curWriteLen' = (curWriteLen + RecLen) % Word
        /\ \/ n = RecLen /\ handle' = handle /\ UNCHANGED failures
           \/ handle' = NoFile /\ failures' = failures + 1
    BY <1>1 DEF Write
  <2>2. handle \in Path /\ handle \in DOMAIN files /\ curWriteLen \in Nat /\ failures \in Nat
    BY <1>2, <1>5
  <2>3. files \in [DOMAIN files -> File] /\ DOMAIN files \subseteq Path /\ DayKept(files)
    BY <1>5
  <2> QED
    BY <1>6, <1>7, <2>1, <2>2, <2>3, WriteKeeps, SMTT(60)
<1>9. TypeOK'
  BY <1>1, <1>2, <1>5, <1>8, PopType DEF Inv, TypeOK
<1>10. Calling' /\ UNCHANGED confVars
  BY <1>1, PopCalling, PopQueue
<1>11. Writing'
  BY <1>1, <1>2, <1>8 DEF Inv, Writing, HistoryDated, DayKept, HandleCurrent
<1>12. Reached(t)
  BY <1>2, <1>4, <1>8 DEF Reached
<1>13. OnlyOldGo
  BY <1>8 DEF OnlyOldGo
<1> QED
  BY <1>9, <1>10, <1>11, <1>12, <1>13, SameText DEF Inv

\* The list of files, and each list made of it, has files that are not dated later
\* than they entered it.
HistoryGood(h) ==
  /\ h \in Seq([first : Nat, second : Path])
  /\ \A i \in DOMAIN h : h[i].second.time <= h[i].first

LEMMA KeptGood == Inv => HistoryGood(Kept)
<1> SUFFICES ASSUME Inv PROVE HistoryGood(Kept)
  OBVIOUS
<1> DEFINE H == [first : Nat, second : Path]
           m == Cardinality(Expired) + 1
           n == Len(historyLogs)
<1>1. historyLogs \in Seq(H)
  BY DEF Inv, TypeOK
<1>2. \A i \in DOMAIN historyLogs : historyLogs[i].second.time <= historyLogs[i].first
  BY DEF Inv, Writing, HistoryDated
<1> HIDE DEF H
<1>3. n \in Nat /\ DOMAIN historyLogs = 1..n
  BY <1>1, LenProperties
<1>4. Expired \subseteq 1..n
  BY <1>3 DEF Expired
<1>5. m \in Nat /\ m >= 1
  <2>1. IsFiniteSet(1..n)
    BY <1>3, FS_Interval
  <2>2. Cardinality(Expired) \in Nat
    BY <1>4, <2>1, FS_Subset, FS_CardinalityType
  <2> QED
    BY <2>2
<1> HIDE DEF m, n
<1>6. \A i \in m..n : i \in 1..n /\ historyLogs[i] \in H
  BY <1>1, <1>3, <1>5, ElementOfSeq DEF n
<1>7. Kept = SubSeq(historyLogs, m, n)
  BY DEF Kept, m, n
<1>8. /\ Kept \in Seq(H) /\ Len(Kept) = (IF m <= n THEN n - m + 1 ELSE 0)
      /\ \A i \in 1..(n - m + 1) : Kept[i] = historyLogs[m + i - 1]
  BY <1>3, <1>5, <1>6, <1>7, SubSeqProperties
<1>9. DOMAIN Kept = 1..Len(Kept)
  BY <1>8, LenProperties
<1>10. ASSUME NEW i \in DOMAIN Kept PROVE Kept[i].second.time <= Kept[i].first
  <2>1. i \in 1..(n - m + 1) /\ m + i - 1 \in 1..n
    BY <1>3, <1>5, <1>8, <1>9
  <2> QED
    BY <1>2, <1>3, <1>8, <2>1
<1> QED
  BY <1>8, <1>10 DEF HistoryGood, H

LEMMA HistoryWithGood ==
  ASSUME Inv, NEW p \in Path, p.time <= now
  PROVE  HistoryGood(HistoryWith(p))
<1> DEFINE H == [first : Nat, second : Path]
           e == [first |-> now, second |-> p]
<1>1. Kept \in Seq(H) /\ \A i \in DOMAIN Kept : Kept[i].second.time <= Kept[i].first
  BY KeptGood DEF HistoryGood
<1>2. e \in H /\ e.second.time <= e.first
  BY DEF Inv, TypeOK
<1> HIDE DEF H, e
<1>3. /\ Append(Kept, e) \in Seq(H) /\ Len(Append(Kept, e)) = Len(Kept) + 1
      /\ \A i \in 1..Len(Kept) : Append(Kept, e)[i] = Kept[i]
      /\ Append(Kept, e)[Len(Kept) + 1] = e
      /\ Len(Kept) \in Nat /\ DOMAIN Kept = 1..Len(Kept)
  BY <1>1, <1>2, AppendProperties, LenProperties
<1>4. DOMAIN Append(Kept, e) = 1..(Len(Kept) + 1)
  BY <1>3, LenProperties
<1>5. ASSUME NEW i \in DOMAIN Append(Kept, e)
      PROVE  Append(Kept, e)[i].second.time <= Append(Kept, e)[i].first
  <2>1. CASE i \in 1..Len(Kept)
    BY <1>1, <1>3, <2>1
  <2>2. CASE i = Len(Kept) + 1
    BY <1>2, <1>3, <2>2
  <2> QED
    BY <1>3, <1>4, <2>1, <2>2
<1>6. HistoryWith(p) \in {Kept, Append(Kept, e)}
  BY DEF HistoryWith, e
<1>7. HistoryGood(Append(Kept, e))
  BY <1>3, <1>5 DEF HistoryGood, H
<1> QED
  BY <1>6, <1>7, KeptGood

\* What expired entered the list longer ago than the reserve time.
LEMMA ExpiredIsOld ==
  ASSUME Inv, NEW i \in Expired
  PROVE  /\ i \in DOMAIN historyLogs /\ historyLogs[i] \in [first : Nat, second : Path]
         /\ historyLogs[i].second.time <= historyLogs[i].first
         /\ historyLogs[i].first + set.reserve < now /\ set.reserve > 0
<1>1. historyLogs \in Seq([first : Nat, second : Path])
  BY DEF Inv, TypeOK
<1>2. Len(historyLogs) \in Nat /\ DOMAIN historyLogs = 1..Len(historyLogs)
  BY <1>1, LenProperties
<1>3. i \in DOMAIN historyLogs /\ set.reserve > 0
      /\ \A j \in 1..i : historyLogs[j].first + set.reserve < now
  BY DEF Expired
<1>4. i \in 1..i /\ i \in 1..Len(historyLogs)
  BY <1>2, <1>3
<1>5. historyLogs[i] \in [first : Nat, second : Path]
  BY <1>1, <1>4, ElementOfSeq
<1> QED
  BY <1>3, <1>4, <1>5 DEF Inv, Writing, HistoryDated

\* The file a record that is not late is opened for stays on the disk.
LEMMA DiskWithGood ==
  ASSUME Inv, NEW t \in Nat, t <= now, now <= t + Lag
  PROVE  LET p  == PathFor(t)
             fs == DiskWith(p)
         IN  /\ p \in DOMAIN fs /\ fs \in [DOMAIN fs -> File] /\ DOMAIN fs \subseteq Path
             /\ DayKept(fs)
             /\ OpenLength(p) = fs[p].bytes /\ OpenLength(p) \in Nat
             /\ fs[p].recs = IF p \in DOMAIN files THEN files[p].recs ELSE <<>>
             /\ DOMAIN files \ DOMAIN fs \subseteq {historyLogs[i].second : i \in Expired}
<1> DEFINE p    == PathFor(t)
           gone == {historyLogs[i].second : i \in Expired}
           open == Opened(files, p)
           fs   == DiskWith(p)
<1>1. p \in Path /\ p.time = t
  BY PathForType
<1>2. files \in [DOMAIN files -> File] /\ DOMAIN files \subseteq Path /\ DayKept(files)
  BY DEF Inv, TypeOK, Writing
<1>3. NewFile \in File /\ NewFile.recs = <<>> /\ NewFile.bytes = 0
  BY EmptySeq DEF NewFile, File
<1>4. p \notin gone
  <2> SUFFICES ASSUME NEW i \in Expired, historyLogs[i].second = p PROVE FALSE
    OBVIOUS
  <2>1. /\ t <= historyLogs[i].first /\ historyLogs[i].first \in Nat
        /\ historyLogs[i].first + set.reserve < now /\ set.reserve > 0
    BY <1>1, ExpiredIsOld
  <2>2. set.reserve \in ReserveTimes /\ set.reserve \in Nat
    BY FileAssumption DEF Inv, Calling, ReserveTimes
  <2>3. set.reserve >= Lag /\ Lag \in Nat /\ now \in Nat
    BY <2>1, <2>2, LagAssumption, FileAssumption DEF Inv, TypeOK
  <2> QED
    BY <2>1, <2>2, <2>3
<1> HIDE DEF p
<1>5. /\ DOMAIN open = DOMAIN files \cup {p}
      /\ \A q \in DOMAIN open : open[q] = IF q \in DOMAIN files THEN files[q] ELSE NewFile
  BY DEF Opened
<1>6. fs = [q \in DOMAIN open \ gone |-> open[q]]
  BY DEF DiskWith
<1> HIDE DEF gone, open, fs
<1>7. DOMAIN fs = DOMAIN open \ gone /\ \A q \in DOMAIN fs : fs[q] = open[q]
  BY <1>6
<1>8. p \in DOMAIN fs /\ DOMAIN fs \subseteq Path /\ DOMAIN files \ DOMAIN fs \subseteq gone
  BY <1>1, <1>2, <1>4, <1>5, <1>7
<1>9. \A q \in DOMAIN fs : fs[q] \in File
  BY <1>2, <1>3, <1>5, <1>7
<1>10. fs \in [DOMAIN fs -> File]
  BY <1>6, <1>9
<1>11. DayKept(fs)
  BY <1>2, <1>3, <1>5, <1>7 DEF DayKept
<1>12. OpenLength(p) = fs[p].bytes /\ OpenLength(p) \in Nat
  BY <1>7, <1>8, <1>9 DEF OpenLength, open, File
<1>13. fs[p].recs = IF p \in DOMAIN files THEN files[p].recs ELSE <<>>
  BY <1>3, <1>5, <1>7, <1>8
<1> QED
  BY <1>8, <1>10, <1>11, <1>12, <1>13 DEF p, fs, gone

LEMMA PopOpensKeeps ==
  ASSUME Inv, NEW t \in Nat, NEW n \in 0..RecLen, PopOpens(t, n)
  PROVE  Inv' /\ Reached(t) /\ OnlyOldGo
<1> DEFINE p   == PathFor(t)
           fs  == DiskWith(p)
           len == OpenLength(p)
<1>1. /\ Pop(t) /\ UNCHANGED set /\ Write(t, p, n, fs, len)
      /\ curFileIndex' = NextIndex(t) /\ curFileCreateDay' = DayOf(t)
      /\ historyLogs' = HistoryWith(p)
  BY DEF PopOpens
<1>2. t <= now /\ now <= t + Lag /\ now \in Nat /\ UNCHANGED <<confVars, now>>
  BY <1>1, PopQueue
<1>3. /\ NextIndex(t) \in Nat /\ p \in Path /\ p.name = set.name /\ p.time = t
      /\ DayOf(t) \in Nat /\ DayOf(t) % Day = 0 /\ t < DayOf(t) + Day
  BY PathForType
<1>4. /\ p \in DOMAIN fs /\ fs \in [DOMAIN fs -> File] /\ DOMAIN fs \subseteq Path
      /\ DayKept(fs) /\ len = fs[p].bytes /\ len \in Nat
      /\ fs[p].recs = (IF p \in DOMAIN files THEN files[p].recs ELSE <<>>)
      /\ DOMAIN files \ DOMAIN fs \subseteq {historyLogs[i].second : i \in Expired}
  BY <1>2, DiskWithGood
<1>5. HistoryGood(historyLogs')
  BY <1>1, <1>2, <1>3, HistoryWithGood
<1>6. /\ files' = Written(fs, p, t, n) /\ curWriteLen' = (len + RecLen) % Word
      /\ \/ n = RecLen /\ handle' = p /\ UNCHANGED failures
         \/ handle' = NoFile /\ failures' = failures + 1
  BY <1>1 DEF Write
<1> HIDE DEF p, fs, len
<1>7. /\ files' \in [DOMAIN files' -> File] /\ DOMAIN files' = DOMAIN fs /\ DayKept(files')
      /\ curWriteLen' \in 0..(Word - 1) /\ handle' \in {p, NoFile} /\ failures' \in Nat
      /\ CounterExact'
      /\ failures' > failures \/ files'[p].recs = Append(fs[p].recs, t)
  <2>1. failures \in Nat /\ len % Word = fs[p].bytes % Word /\ t < DayOf(p.time) + Day
    BY <1>3, <1>4 DEF Inv, TypeOK
  <2> QED
    BY <1>3, <1>4, <1>6, <2>1, WriteKeeps, SMTT(60)
<1>8. TypeOK'
  BY <1>1, <1>3, <1>4, <1>5, <1>7, PopType DEF Inv, TypeOK, HistoryGood
<1>9. Calling'
  BY <1>1, PopCalling
<1>10. Writing'
  BY <1>1, <1>3, <1>5, <1>7 DEF Writing, HistoryDated, HistoryGood, DayKept, HandleCurrent
<1>11. Reached(t)
  BY <1>3, <1>4, <1>7 DEF Reached
<1>12. OnlyOldGo
  <2> SUFFICES ASSUME NEW q \in DOMAIN files \ DOMAIN files', NEW i \in DOMAIN files[q].recs
               PROVE  files[q].recs[i] + set.reserve < now + Day
    BY DEF OnlyOldGo
  <2>1. PICK j \in Expired : q = historyLogs[j].second
    BY <1>4, <1>7
  <2>2. /\ q.time <= historyLogs[j].first /\ historyLogs[j].first \in Nat
        /\ historyLogs[j].first + set.reserve < now
    BY <2>1, ExpiredIsOld
  <2>3. q \in Path /\ q.time \in Nat /\ files[q].recs \in Seq(Nat) /\ set.reserve \in Nat
    BY DEF Inv, TypeOK, Path, File, Settings
  <2>4. files[q].recs[i] < DayOf(q.time) + Day
    BY DEF Inv, Writing, DayKept
  <2>5. DayOf(q.time) <= q.time /\ DayOf(q.time) \in Nat /\ Day \in Nat
    BY <2>3, DayOfType, FileAssumption
  <2>6. files[q].recs[i] \in Nat
    BY <2>3, LenProperties, ElementOfSeq
  <2>7. ASSUME NEW rec \in Nat, NEW day \in Nat, NEW time \in Nat, NEW first \in Nat,
               NEW reserve \in Nat, rec < day + Day, day <= time, time <= first,
               first + reserve < now
        PROVE  rec + reserve < now + Day
    BY <1>2, <2>5, <2>7
  <2> QED
    BY <2>2, <2>3, <2>4, <2>5, <2>6, <2>7
<1> QED
  BY <1>2, <1>8, <1>9, <1>10, <1>11, <1>12, SameText DEF Inv

-----------------------------------------------------------------------------
(***************************************************************************)
(* Every step                                                              *)
(***************************************************************************)
LEMMA PopLogKeeps == Inv /\ PopLog => Inv' /\ OnlyOldGo
<1> SUFFICES ASSUME Inv, PopLog PROVE Inv' /\ OnlyOldGo
  OBVIOUS
<1>1. PICK t \in Day..MaxTime :
        \/ PopUnwritten(t) \/ PopOpenFails(t)
        \/ \E n \in 0..RecLen : PopAppends(t, n) \/ PopOpens(t, n)
  BY DEF PopLog
<1>2. t \in Nat
  BY FileAssumption
<1>3. CASE PopUnwritten(t)
  BY <1>2, <1>3, PopUnwrittenKeeps DEF PopUnwritten, fileVars, OnlyOldGo
<1>4. CASE PopOpenFails(t)
  BY <1>2, <1>4, PopOpenFailsKeeps DEF PopOpenFails, OnlyOldGo
<1>5. ASSUME NEW n \in 0..RecLen, PopAppends(t, n) PROVE Inv' /\ OnlyOldGo
  BY <1>2, <1>5, PopAppendsKeeps
<1>6. ASSUME NEW n \in 0..RecLen, PopOpens(t, n) PROVE Inv' /\ OnlyOldGo
  BY <1>2, <1>6, PopOpensKeeps
<1> QED
  BY <1>1, <1>3, <1>4, <1>5, <1>6

LEMMA NextKeeps == Inv /\ [Next]_vars => Inv' /\ OnlyOldGo
<1> SUFFICES ASSUME Inv, [Next]_vars PROVE Inv' /\ OnlyOldGo
  OBVIOUS
<1>1. CASE Tick
  BY <1>1, TickKeeps DEF Tick, fileVars, OnlyOldGo
<1>2. CASE \E t \in Threads : MakeLogData(t) \/ PushLog(t)
  <2>1. UNCHANGED files
    BY <1>2 DEF MakeLogData, PushLog, fileVars
  <2> QED
    BY <1>2, <2>1, MakeKeeps, PushKeeps DEF OnlyOldGo
<1>3. CASE \E r \in Reserves : SetLoggerReserveTime(r)
  <2>1. UNCHANGED files
    BY <1>3 DEF SetLoggerReserveTime, fileVars
  <2> QED
    BY <1>3, <2>1, SetReserveKeeps DEF OnlyOldGo
<1>4. CASE EditorStep /\ UNCHANGED <<now, made, logs, at, lastCheckUpdate, set, fileVars, popped,
                                     changes, failures>>
  BY <1>4, EditorKeeps DEF fileVars, OnlyOldGo
<1>5. CASE PopSetting
  BY <1>5, PopSettingKeeps DEF PopSetting, OnlyOldGo
<1>6. CASE PopLog
  BY <1>6, PopLogKeeps
<1>7. CASE RunSleeps \/ RunWakes
  BY <1>7, SleepKeeps DEF RunSleeps, RunWakes, fileVars, OnlyOldGo
<1>8. CASE UpdateConfig
  BY <1>8, UpdateKeeps DEF UpdateConfig, fileVars, OnlyOldGo
<1>9. CASE UNCHANGED vars
  <2>1. TypeOK'
    BY <1>9 DEF Inv, TypeOK, vars, confVars, fileVars
  <2>2. Calling'
    BY <1>9 DEF Inv, Calling, MadeInTime, QueueGood, vars
  <2>3. TextInTwoParts' /\ Writing' /\ UNCHANGED files
    BY <1>9, SameText, SameFiles DEF Inv, vars, fileVars
  <2> QED
    BY <2>1, <2>2, <2>3 DEF Inv, OnlyOldGo
<1> QED
  BY <1>1, <1>2, <1>3, <1>4, <1>5, <1>6, <1>7, <1>8, <1>9 DEF Next, RunStep

\* A step that pops a record with the output on brings it to a file or fails.
LEMMA PoppedReaches ==
  ASSUME Inv, [Next]_vars, NEW t \in Nat, Pop(t), set.enable, set.outfile
  PROVE  Reached(t)
<1>1. logs # <<>> /\ at = "pop" /\ Head(logs) = EntryOf("log", t) /\ popped' = Append(popped, t)
  BY DEF Pop
<1>2. popped' # popped
  <2>1. popped \in Seq(Nat)
    BY DEF Inv, TypeOK
  <2>2. Len(popped') = Len(popped) + 1 /\ Len(popped) \in Nat
    BY <1>1, <2>1, AppendProperties, LenProperties
  <2> QED
    BY <2>2
<1>3. PopLog
  BY <1>2 DEF Next, vars, Tick, MakeLogData, PushLog, SetLoggerReserveTime, RunStep, PopSetting,
              RunSleeps, RunWakes, UpdateConfig
<1>4. PICK u \in Day..MaxTime :
        \/ PopUnwritten(u) \/ PopOpenFails(u)
        \/ \E n \in 0..RecLen : PopAppends(u, n) \/ PopOpens(u, n)
  BY <1>3 DEF PopLog
<1>5. u = t
  <2>1. Head(logs) = EntryOf("log", u)
    BY <1>4 DEF PopUnwritten, PopOpenFails, PopAppends, PopOpens, Pop
  <2> QED
    BY <1>1, <2>1 DEF EntryOf
<1>6. ~PopUnwritten(u)
  BY DEF PopUnwritten
<1>7. CASE PopOpenFails(u)
  <2>1. failures' = failures + 1 /\ failures \in Nat
    BY <1>7 DEF PopOpenFails, Inv, TypeOK
  <2> QED
    BY <2>1 DEF Reached
<1>8. ASSUME NEW n \in 0..RecLen, PopAppends(t, n) PROVE Reached(t)
  BY <1>8, PopAppendsKeeps
<1>9. ASSUME NEW n \in 0..RecLen, PopOpens(t, n) PROVE Reached(t)
  BY <1>9, PopOpensKeeps
<1> QED
  BY <1>4, <1>5, <1>6, <1>7, <1>8, <1>9

-----------------------------------------------------------------------------
(***************************************************************************)
(* Settings under way                                                      *)
(***************************************************************************)
\* With q still to be worked off, a setting f that is old now comes to be x.
Of(q, f) == {i \in DOMAIN q : q[i].type = f}
Ends(q, f, old, x) ==
  IF Of(q, f) = {} THEN old = x
  ELSE \E i \in Of(q, f) : q[i].val = x /\ \A j \in Of(q, f) : j <= i

SettingNow(f) == IF f \in {"outfile", "enable"} THEN Flag(set[f]) ELSE set[f]

LEMMA EndsAppend ==
  ASSUME NEW q \in Seq(Entry), NEW e \in Entry, NEW f, e.type # f, NEW old, NEW x,
         Ends(q, f, old, x)
  PROVE  Ends(Append(q, e), f, old, x)
<1>1. /\ Append(q, e) \in Seq(Entry) /\ Len(Append(q, e)) = Len(q) + 1
      /\ \A i \in 1..Len(q) : Append(q, e)[i] = q[i]
      /\ Append(q, e)[Len(q) + 1] = e
      /\ Len(q) \in Nat /\ DOMAIN q = 1..Len(q)
  BY AppendProperties, LenProperties
<1>2. DOMAIN Append(q, e) = 1..(Len(q) + 1)
  BY <1>1, LenProperties
<1>3. Of(Append(q, e), f) = Of(q, f)
  BY <1>1, <1>2 DEF Of
<1>4. \A i \in Of(q, f) : Append(q, e)[i] = q[i]
  BY <1>1 DEF Of
<1> QED
  BY <1>3, <1>4 DEF Ends

LEMMA EndsTail ==
  ASSUME NEW q \in Seq(Entry), q # <<>>, NEW f, NEW old, NEW x, Ends(q, f, old, x)
  PROVE  Ends(Tail(q), f, IF Head(q).type = f THEN Head(q).val ELSE old, x)
<1>1. /\ Tail(q) \in Seq(Entry) /\ Len(Tail(q)) = Len(q) - 1
      /\ \A i \in 1..Len(Tail(q)) : Tail(q)[i] = q[i + 1]
      /\ Len(q) \in Nat \ {0} /\ DOMAIN q = 1..Len(q)
  BY HeadTailProperties, LenProperties, EmptySeq
<1>2. DOMAIN Tail(q) = 1..(Len(q) - 1) /\ Head(q) = q[1] /\ 1 \in DOMAIN q
  BY <1>1, LenProperties
<1>3. \A i \in DOMAIN q : i # 1 => i - 1 \in DOMAIN Tail(q) /\ Tail(q)[i - 1] = q[i]
  <2> SUFFICES ASSUME NEW i \in DOMAIN q, i # 1
               PROVE  i - 1 \in DOMAIN Tail(q) /\ Tail(q)[i - 1] = q[i]
    OBVIOUS
  <2>1. i - 1 \in 1..(Len(q) - 1) /\ (i - 1) + 1 = i
    BY <1>1
  <2> QED
    BY <1>1, <1>2, <2>1
<1>4. \A i \in DOMAIN Tail(q) : i \in Nat /\ i + 1 \in DOMAIN q /\ i + 1 # 1 /\ Tail(q)[i] = q[i + 1]
  BY <1>1, <1>2
<1>5. /\ \A i \in Of(q, f) : i # 1 => i - 1 \in Of(Tail(q), f) /\ Tail(q)[i - 1] = q[i]
      /\ \A i \in Of(Tail(q), f) : i \in Nat /\ i + 1 \in Of(q, f) /\ i + 1 # 1
      /\ \A i \in Of(q, f) : i \in Nat \ {0}
  BY <1>1, <1>3, <1>4 DEF Of
<1>6. CASE Of(q, f) = {}
  <2>1. Of(Tail(q), f) = {} /\ Head(q).type # f
    BY <1>2, <1>5, <1>6 DEF Of
  <2> QED
    BY <1>6, <2>1 DEF Ends
<1>7. ASSUME NEW i \in Of(q, f), q[i].val = x, \A j \in Of(q, f) : j <= i
      PROVE  Ends(Tail(q), f, IF Head(q).type = f THEN Head(q).val ELSE old, x)
  <2>1. CASE i = 1
    <3>1. Of(Tail(q), f) = {}
      <4> SUFFICES ASSUME NEW j \in Of(Tail(q), f) PROVE FALSE
        OBVIOUS
      <4>1. j \in Nat /\ j + 1 <= 1 /\ j + 1 # 1
        BY <1>5, <1>7, <2>1
      <4> QED
        BY <4>1
    <3>2. Head(q).type = f /\ Head(q).val = x
      BY <1>2, <1>7, <2>1 DEF Of
    <3> QED
      BY <3>1, <3>2 DEF Ends
  <2>2. CASE i # 1
    <3>1. i - 1 \in Of(Tail(q), f) /\ Tail(q)[i - 1].val = x /\ i \in Nat
      BY <1>5, <1>7, <2>2
    <3>2. \A j \in Of(Tail(q), f) : j <= i - 1
      BY <1>5, <1>7, <3>1
    <3> QED
      BY <3>1, <3>2 DEF Ends
  <2> QED
    BY <2>1, <2>2
<1> QED
  BY <1>6, <1>7 DEF Ends

\* What is queued behind q is worked off last.
LEMMA EndsConcat ==
  ASSUME NEW q \in Seq(Entry), NEW r \in Seq(Entry), NEW f, NEW old, NEW x,
         Ends(r, f, old, x), Of(r, f) # {} \/ Of(q, f) = {}
  PROVE  Ends(q \o r, f, old, x)
<1>1. /\ q \o r \in Seq(Entry) /\ Len(q \o r) = Len(q) + Len(r)
      /\ \A i \in 1..(Len(q) + Len(r)) : (q \o r)[i] = IF i <= Len(q) THEN q[i] ELSE r[i - Len(q)]
      /\ Len(q) \in Nat /\ DOMAIN q = 1..Len(q) /\ Len(r) \in Nat /\ DOMAIN r = 1..Len(r)
  BY ConcatProperties, LenProperties
<1>2. DOMAIN (q \o r) = 1..(Len(q) + Len(r))
  BY <1>1, LenProperties
<1>3. ASSUME NEW j \in Of(r, f) PROVE Len(q) + j \in Of(q \o r, f) /\ (q \o r)[Len(q) + j] = r[j]
  <2>1. j \in 1..Len(r) /\ r[j].type = f
    BY <1>1 DEF Of
  <2>2. Len(q) + j \in 1..(Len(q) + Len(r)) /\ ~(Len(q) + j <= Len(q)) /\ (Len(q) + j) - Len(q) = j
    BY <1>1, <2>1
  <2>3. (q \o r)[Len(q) + j] = r[j]
    BY <1>1, <2>2
  <2> QED
    BY <1>2, <2>1, <2>2, <2>3 DEF Of
<1>4. ASSUME NEW i \in Of(q \o r, f)
      PROVE  \/ i \in Of(q, f) /\ i <= Len(q)
             \/ i \in Nat /\ i - Len(q) \in Of(r, f)
  <2>1. i \in 1..(Len(q) + Len(r)) /\ (q \o r)[i].type = f
    BY <1>2 DEF Of
  <2>2. CASE i <= Len(q)
    BY <1>1, <2>1, <2>2 DEF Of
  <2>3. CASE i > Len(q)
    <3>1. i - Len(q) \in 1..Len(r) /\ (q \o r)[i] = r[i - Len(q)] /\ i \in Nat
      BY <1>1, <2>1, <2>3
    <3> QED
      BY <1>1, <2>1, <3>1 DEF Of
  <2> QED
    BY <1>1, <2>1, <2>2, <2>3
<1>5. CASE Of(r, f) = {}
  <2>1. Of(q \o r, f) = {} /\ old = x
    BY <1>4, <1>5 DEF Ends
  <2> QED
    BY <2>1 DEF Ends
<1>6. CASE Of(r, f) # {}
  <2>1. PICK j \in Of(r, f) : r[j].val = x /\ \A k \in Of(r, f) : k <= j
    BY <1>6 DEF Ends
  <2>2. j \in Nat \ {0} /\ Of(r, f) \subseteq Int
    BY <1>1, <2>1 DEF Of
  <2>3. Len(q) + j \in Of(q \o r, f) /\ (q \o r)[Len(q) + j].val = x
    BY <1>3, <2>1
  <2>4. ASSUME NEW i \in Of(q \o r, f) PROVE i <= Len(q) + j
    <3>1. CASE i \in Of(q, f) /\ i <= Len(q)
      <4>1. i \in Nat
        BY <1>1, <3>1 DEF Of
      <4> QED
        BY <1>1, <2>2, <3>1, <4>1
    <3>2. CASE i \in Nat /\ i - Len(q) \in Of(r, f)
      <4>1. i - Len(q) <= j
        BY <2>1, <3>2
      <4> QED
        BY <1>1, <2>2, <3>2, <4>1
    <3> QED
      BY <1>4, <3>1, <3>2
  <2> QED
    BY <2>3, <2>4 DEF Ends
<1> QED
  BY <1>5, <1>6

\* The settings of the configuration that the queue carries, and what each comes to be
\* under a text.
ComesTo(f, x) == Ends(logs, f, SettingNow(f), x)
Says(info) ==
  /\ ComesTo("name", info.name) /\ ComesTo("limitsize", Limitsize(info.limitsize))
  /\ ComesTo("enable", Flag(info.enable))
  /\ failures = 0 => ComesTo("outfile", Flag(info.outfile))

\* While the logger's thread sleeps only callers queue.
Quiet == at = "sleep" => \A i \in DOMAIN logs : logs[i].type \in {"log", "reserve"}
Switches == \A i \in DOMAIN logs : logs[i].type \in {"outfile", "enable"} => logs[i].val \in {0, 1}

\* Every text that has the stored checksum comes into force.
Looked == \A t \in PartTexts : Mentions(t) /\ checksum = Sum(t) => Says(Wanted(t))

TextInv == Quiet /\ Switches /\ Looked

LEMMA ConfIsText == Inv => conf \in PartTexts
BY DEF Inv, TextInTwoParts, PartTexts

LEMMA TextSame ==
  ASSUME TextInv, UNCHANGED <<logs, checksum, set>>, failures' = 0 => failures = 0,
         at' = at \/ at' = "pop" \/ logs = <<>>
  PROVE  TextInv'
<1>1. Quiet' /\ Switches'
  BY DEF TextInv, Quiet, Switches
<1>2. ASSUME NEW f, NEW x, ComesTo(f, x) PROVE ComesTo(f, x)'
  BY <1>2 DEF ComesTo, Ends, Of, SettingNow
<1>3. Looked'
  BY <1>2 DEF TextInv, Looked, Says
<1> QED
  BY <1>1, <1>3 DEF TextInv

\* A record or a reserve time is queued.
LEMMA TextAppend ==
  ASSUME Inv, TextInv, NEW e \in Entry, e.type \in {"log", "reserve"}, logs' = Append(logs, e),
         UNCHANGED <<checksum, set, failures, at>>
  PROVE  TextInv'
<1>1. logs \in Seq(Entry)
  BY DEF Inv, TypeOK
<1>2. /\ Append(logs, e) \in Seq(Entry) /\ Len(Append(logs, e)) = Len(logs) + 1
      /\ \A i \in 1..Len(logs) : Append(logs, e)[i] = logs[i]
      /\ Append(logs, e)[Len(logs) + 1] = e
      /\ Len(logs) \in Nat /\ DOMAIN logs = 1..Len(logs)
  BY <1>1, AppendProperties, LenProperties
<1>3. \A i \in DOMAIN logs' : (i \in DOMAIN logs /\ logs'[i] = logs[i]) \/ logs'[i] = e
  <2>1. DOMAIN logs' = 1..(Len(logs) + 1)
    BY <1>2, LenProperties
  <2> QED
    BY <1>2, <2>1
<1>4. Quiet'
  BY <1>3 DEF TextInv, Quiet
<1>5. Switches'
  BY <1>3 DEF TextInv, Switches
<1>6. ASSUME NEW f \in {"name", "outfile", "limitsize", "enable"}, NEW x, ComesTo(f, x)
      PROVE  ComesTo(f, x)'
  <2>1. Ends(Append(logs, e), f, SettingNow(f), x)
    BY <1>1, <1>6, EndsAppend DEF ComesTo
  <2>2. SettingNow(f)' = SettingNow(f)
    BY DEF SettingNow
  <2>3. ComesTo(f, x)' = Ends(logs', f, SettingNow(f)', x)
    BY DEF ComesTo, Ends, Of
  <2> QED
    BY <2>1, <2>2, <2>3
<1>7. Looked'
  BY <1>6 DEF TextInv, Looked, Says
<1> QED
  BY <1>4, <1>5, <1>7 DEF TextInv

\* An entry is taken off: if it is a setting, it is what the setting now is.
LEMMA TextTail ==
  ASSUME Inv, TextInv, logs # <<>>, logs' = Tail(logs), UNCHANGED <<checksum, at>>, at = "pop",
         failures' = 0 => failures = 0,
         \A f \in {"name", "limitsize", "enable"} :
           SettingNow(f)' = IF Head(logs).type = f THEN Head(logs).val ELSE SettingNow(f),
         failures' = 0 => SettingNow("outfile")' = IF Head(logs).type = "outfile"
                                                   THEN Head(logs).val ELSE SettingNow("outfile")
  PROVE  TextInv'
<1>1. logs \in Seq(Entry)
  BY DEF Inv, TypeOK
<1>2. /\ Tail(logs) \in Seq(Entry) /\ Len(Tail(logs)) = Len(logs) - 1
      /\ \A i \in 1..Len(Tail(logs)) : Tail(logs)[i] = logs[i + 1]
      /\ Len(logs) \in Nat \ {0} /\ DOMAIN logs = 1..Len(logs)
  BY <1>1, HeadTailProperties, LenProperties, EmptySeq
<1>3. DOMAIN Tail(logs) = 1..(Len(logs) - 1)
  BY <1>2, LenProperties
<1>4. Quiet'
  BY DEF Quiet
<1>5. Switches'
  <2> SUFFICES ASSUME NEW i \in DOMAIN Tail(logs)
               PROVE  i + 1 \in DOMAIN logs /\ Tail(logs)[i] = logs[i + 1]
    BY DEF TextInv, Switches
  <2> QED
    BY <1>2, <1>3
<1>6. ASSUME NEW f, NEW x, ComesTo(f, x),
             SettingNow(f)' = IF Head(logs).type = f THEN Head(logs).val ELSE SettingNow(f)
      PROVE  ComesTo(f, x)'
  <2>1. Ends(Tail(logs), f, SettingNow(f)', x)
    BY <1>1, <1>6, EndsTail DEF ComesTo
  <2>2. ComesTo(f, x)' = Ends(logs', f, SettingNow(f)', x)
    BY DEF ComesTo, Ends, Of
  <2> QED
    BY <2>1, <2>2
<1>7. Looked'
  BY <1>6 DEF TextInv, Looked, Says
<1> QED
  BY <1>4, <1>5, <1>7 DEF TextInv

LEMMA TextPopSetting ==
  ASSUME Inv, TextInv, PopSetting
  PROVE  TextInv'
<1> DEFINE e == Head(logs)
<1>1. /\ logs # <<>> /\ logs' = Tail(logs) /\ at = "pop" /\ UNCHANGED <<checksum, at, failures>>
      /\ OnHotChange(e) /\ e.type # "log"
  BY DEF PopSetting, confVars
<1>2. e \in Entry /\ (e.type \in {"outfile", "enable"} => e.val \in {0, 1})
  <2>1. logs \in Seq(Entry)
    BY DEF Inv, TypeOK
  <2>2. e = logs[1] /\ 1 \in DOMAIN logs
    BY <1>1, <2>1, EmptySeq
  <2>3. e \in Entry
    BY <1>1, <2>1, HeadTailProperties
  <2> QED
    BY <2>2, <2>3 DEF TextInv, Switches
<1>3. set \in Settings
  BY DEF Inv, TypeOK
<1> HIDE DEF e
<1>4. ASSUME NEW f \in {"name", "outfile", "limitsize", "enable"}
      PROVE  SettingNow(f)' = IF e.type = f THEN e.val ELSE SettingNow(f)
  <2>1. CASE e.type = "name"
    BY <1>1, <1>3, <2>1 DEF OnHotChange, SettingNow, Settings, Flag
  <2>2. CASE e.type = "outfile"
    BY <1>1, <1>2, <1>3, <2>2 DEF OnHotChange, SettingNow, Settings, Flag
  <2>3. CASE e.type = "limitsize"
    BY <1>1, <1>3, <2>3 DEF OnHotChange, SettingNow, Settings, Flag
  <2>4. CASE e.type = "enable"
    BY <1>1, <1>2, <1>3, <2>4 DEF OnHotChange, SettingNow, Settings, Flag
  <2>5. CASE e.type = "reserve"
    BY <1>1, <1>3, <2>5 DEF OnHotChange, SettingNow, Settings, Flag
  <2> QED
    BY <1>1, <1>2, <2>1, <2>2, <2>3, <2>4, <2>5 DEF Entry
<1> QED
  BY <1>1, <1>4, TextTail DEF e

\* A record is popped: no setting but, with a failure, the output to files changes.
LEMMA TextPop ==
  ASSUME Inv, TextInv, NEW t, Pop(t),
         \/ UNCHANGED set /\ (failures' = 0 => failures = 0)
         \/ set' = [set EXCEPT !.outfile = FALSE] /\ failures' # 0
  PROVE  TextInv'
<1>1. /\ logs # <<>> /\ logs' = Tail(logs) /\ at = "pop" /\ UNCHANGED <<checksum, at>>
      /\ Head(logs).type = "log"
  BY DEF Pop, EntryOf, confVars
<1>2. set \in Settings
  BY DEF Inv, TypeOK
<1>3. /\ \A f \in {"name", "limitsize", "enable"} : SettingNow(f)' = SettingNow(f)
      /\ failures' = 0 => SettingNow("outfile")' = SettingNow("outfile") /\ failures = 0
  BY <1>2 DEF SettingNow, Settings
<1> QED
  BY <1>1, <1>3, TextTail

\* A setting that is queued once comes to be what is queued.
LEMMA EndsAlone ==
  ASSUME NEW r, NEW f, NEW k \in Nat, Of(r, f) = {k}, NEW old
  PROVE  Ends(r, f, old, r[k].val)
BY DEF Ends

\* What an update queues, setting by setting.
LEMMA AppliedEnds ==
  ASSUME NEW info \in Infos
  PROVE  /\ Applied(info) \in Seq(Entry)
         /\ \A i \in DOMAIN Applied(info) :
              Applied(info)[i].type \in {"outfile", "enable"} => Applied(info)[i].val \in {0, 1}
         /\ \A old : /\ Ends(Applied(info), "name", old, info.name)
                     /\ Ends(Applied(info), "outfile", old, Flag(info.outfile))
                     /\ Ends(Applied(info), "limitsize", old, Limitsize(info.limitsize))
         /\ \A f \in {"name", "outfile", "limitsize"} : Of(Applied(info), f) # {}
         /\ info.enable => Of(Applied(info), "enable") = {}
         /\ ~info.enable => \A old : Ends(Applied(info), "enable", old, 0)
         /\ ~info.enable => Of(Applied(info), "enable") # {}
<1> DEFINE e0 == EntryOf("enable", 0)
           e1 == EntryOf("name", info.name)
           e2 == EntryOf("outfile", Flag(info.outfile))
           e3 == EntryOf("limitsize", Limitsize(info.limitsize))
<1>1. Limitsize(info.limitsize) \in Nat /\ info.name \in Nat /\ Flag(info.outfile) \in {0, 1}
  BY LimitType DEF Infos, Flag
<1>2. /\ e0 \in Entry /\ e1 \in Entry /\ e2 \in Entry /\ e3 \in Entry
      /\ e0.type = "enable" /\ e0.val = 0 /\ e1.type = "name" /\ e1.val = info.name
      /\ e2.type = "outfile" /\ e2.val = Flag(info.outfile)
      /\ e3.type = "limitsize" /\ e3.val = Limitsize(info.limitsize)
  BY <1>1 DEF EntryOf, Entry
<1>3. Applied(info) = (IF info.enable THEN <<>> ELSE <<e0>>) \o <<e1, e2, e3>>
  BY DEF Applied
<1> HIDE DEF e0, e1, e2, e3
<1>4. CASE info.enable
  <2>1. PICK r : r = <<e1, e2, e3>>
    OBVIOUS
  <2>2. r \in Seq(Entry) /\ DOMAIN r = 1..3 /\ r[1] = e1 /\ r[2] = e2 /\ r[3] = e3
    BY <1>2, <2>1
  <2>3. Applied(info) = r
    BY <1>3, <1>4, <2>1, <2>2, ConcatEmptySeq
  <2>4. /\ Of(r, "name") = {1} /\ Of(r, "outfile") = {2} /\ Of(r, "limitsize") = {3}
        /\ Of(r, "enable") = {}
    BY <1>2, <2>2 DEF Of
  <2>5. \A i \in DOMAIN r : r[i].type \in {"outfile", "enable"} => r[i].val \in {0, 1}
    BY <1>1, <1>2, <2>2
  <2>6. \A old : /\ Ends(r, "name", old, r[1].val) /\ Ends(r, "outfile", old, r[2].val)
                 /\ Ends(r, "limitsize", old, r[3].val)
    BY <2>4, EndsAlone
  <2> QED
    BY <1>2, <1>4, <2>2, <2>3, <2>4, <2>5, <2>6
<1>5. CASE ~info.enable
  <2>1. PICK r : r = <<e0>> \o <<e1, e2, e3>>
    OBVIOUS
  <2>2. /\ r \in Seq(Entry) /\ DOMAIN r = 1..4
        /\ r[1] = e0 /\ r[2] = e1 /\ r[3] = e2 /\ r[4] = e3
    BY <1>2, <2>1
  <2>3. Applied(info) = r
    BY <1>3, <1>5, <2>1
  <2>4. /\ Of(r, "enable") = {1} /\ Of(r, "name") = {2} /\ Of(r, "outfile") = {3}
        /\ Of(r, "limitsize") = {4}
    BY <1>2, <2>2 DEF Of
  <2>5. \A i \in DOMAIN r : r[i].type \in {"outfile", "enable"} => r[i].val \in {0, 1}
    BY <1>1, <1>2, <2>2
  <2>6. \A old : /\ Ends(r, "name", old, r[2].val) /\ Ends(r, "outfile", old, r[3].val)
                 /\ Ends(r, "limitsize", old, r[4].val) /\ Ends(r, "enable", old, r[1].val)
    BY <2>4, EndsAlone
  <2> QED
    BY <1>2, <1>5, <2>2, <2>3, <2>4, <2>5, <2>6
<1> QED
  BY <1>4, <1>5

LEMMA TextUpdate ==
  ASSUME NoCollision, Inv, TextInv, UpdateConfig
  PROVE  TextInv'
<1>0. PICK W : W = Wanted(conf)
  OBVIOUS
<1> DEFINE r == Applied(W)
<1>1. /\ at = "sleep" /\ at' = "pop" /\ checksum' = Sum(conf) /\ UNCHANGED <<conf, failures>>
      /\ conf \in PartTexts /\ logs \in Seq(Entry) /\ set \in Settings
  BY ConfIsText DEF UpdateConfig, Inv, TypeOK
<1>2. CASE Sum(conf) # checksum /\ Mentions(conf)
  <2>1. logs' = logs \o r /\ set' = [set EXCEPT !.enable = @ \/ W.enable]
    BY <1>0, <1>2 DEF UpdateConfig
  <2>2. W \in Infos
    BY <1>0, <1>2, TextParses DEF Inv
  <2> HIDE DEF r
  <2>3. /\ r \in Seq(Entry)
        /\ \A i \in DOMAIN r : r[i].type \in {"outfile", "enable"} => r[i].val \in {0, 1}
        /\ \A old : /\ Ends(r, "name", old, W.name) /\ Ends(r, "outfile", old, Flag(W.outfile))
                    /\ Ends(r, "limitsize", old, Limitsize(W.limitsize))
        /\ \A f \in {"name", "outfile", "limitsize"} : Of(r, f) # {}
        /\ W.enable => Of(r, "enable") = {}
        /\ ~W.enable => (\A old : Ends(r, "enable", old, 0)) /\ Of(r, "enable") # {}
    BY <2>2, AppliedEnds DEF r
  <2>4. Quiet'
    BY <1>1 DEF Quiet
  <2>5. Switches'
    <3>1. /\ \A i \in 1..(Len(logs) + Len(r)) :
               (logs \o r)[i] = IF i <= Len(logs) THEN logs[i] ELSE r[i - Len(logs)]
          /\ Len(logs) \in Nat /\ DOMAIN logs = 1..Len(logs)
          /\ Len(r) \in Nat /\ DOMAIN r = 1..Len(r)
          /\ DOMAIN (logs \o r) = 1..(Len(logs) + Len(r))
      BY <1>1, <2>3, ConcatProperties, LenProperties
    <3>2. ASSUME NEW i \in DOMAIN (logs \o r)
          PROVE  \/ i \in DOMAIN logs /\ (logs \o r)[i] = logs[i]
                 \/ \E j \in DOMAIN r : (logs \o r)[i] = r[j]
      <4>1. CASE i <= Len(logs)
        BY <3>1, <4>1
      <4>2. CASE i > Len(logs)
        <5>1. i - Len(logs) \in DOMAIN r /\ (logs \o r)[i] = r[i - Len(logs)]
          BY <3>1, <4>2
        <5> QED
          BY <5>1
      <4> QED
        BY <3>1, <4>1, <4>2
    <3> QED
      BY <2>1, <2>3, <3>2 DEF TextInv, Switches
  <2>6. ASSUME NEW f \in {"name", "outfile", "limitsize", "enable"}, NEW x,
               Ends(r, f, SettingNow(f)', x), Of(r, f) # {} \/ Of(logs, f) = {}
        PROVE  ComesTo(f, x)'
    <3>1. Ends(logs \o r, f, SettingNow(f)', x)
      BY <1>1, <2>3, <2>6, EndsConcat
    <3>2. ComesTo(f, x)' = Ends(logs', f, SettingNow(f)', x)
      BY DEF ComesTo, Ends, Of
    <3> QED
      BY <2>1, <3>1, <3>2
  <2>7. ComesTo("enable", Flag(W.enable))'
    <3>1. CASE W.enable
      <4>1. Of(logs, "enable") = {}
        BY <1>1 DEF TextInv, Quiet, Of
      <4>2. SettingNow("enable")' = Flag(W.enable)
        BY <1>1, <2>1, <2>2, <3>1 DEF SettingNow, Settings, Infos, Flag
      <4>3. Ends(r, "enable", SettingNow("enable")', Flag(W.enable))
        BY <2>3, <3>1, <4>2 DEF Ends
      <4> QED
        BY <2>6, <4>1, <4>3
    <3>2. CASE ~W.enable
      <4>1. Flag(W.enable) = 0
        BY <3>2 DEF Flag
      <4> QED
        BY <2>3, <2>6, <3>2, <4>1
    <3> QED
      BY <3>1, <3>2
  <2>8. /\ ComesTo("name", W.name)' /\ ComesTo("limitsize", Limitsize(W.limitsize))'
        /\ ComesTo("outfile", Flag(W.outfile))'
    BY <2>3, <2>6
  <2>9. Says(W)'
    BY <2>7, <2>8 DEF Says
  <2>10. ASSUME NEW t \in PartTexts, Mentions(t), Sum(conf) = Sum(t) PROVE Says(Wanted(t))'
    <3>1. W = Wanted(t)
      BY <1>0, <1>1, <2>10 DEF NoCollision
    <3> QED
      BY <2>9, <3>1
  <2>11. Looked'
    BY <1>1, <2>10 DEF Looked
  <2> QED
    BY <2>4, <2>5, <2>11 DEF TextInv
<1>3. CASE ~(Sum(conf) # checksum /\ Mentions(conf))
  <2>1. UNCHANGED <<logs, set>>
    BY <1>3 DEF UpdateConfig
  <2>2. ASSUME NEW t \in PartTexts, Mentions(t), Sum(conf) = Sum(t) PROVE Says(Wanted(t))'
    <3>1. Mentions(conf)
      BY <1>1, <2>2 DEF NoCollision
    <3>2. Says(Wanted(t))
      BY <1>3, <2>2, <3>1 DEF TextInv, Looked
    <3> QED
      BY <1>1, <2>1, <3>2 DEF Says, ComesTo, Ends, Of, SettingNow
  <2>3. Quiet' /\ Switches' /\ Looked'
    BY <1>1, <2>1, <2>2 DEF TextInv, Quiet, Switches, Looked
  <2> QED
    BY <2>3 DEF TextInv
<1> QED
  BY <1>2, <1>3

LEMMA TextInitially == ASSUME NoCollision, Init PROVE TextInv
<1>1. Inv /\ logs = <<>> /\ at = "pop" /\ Mentions(conf) /\ checksum = Sum(conf)
  BY Initially DEF Init
<1>2. conf \in PartTexts /\ Wanted(conf) \in Infos
  BY <1>1, ConfIsText, TextParses DEF Inv
<1>3. set = SettingsOf(Wanted(conf), FirstReserve)
  BY DEF Init
<1>4. \A f : Of(logs, f) = {}
  BY <1>1 DEF Of
<1>5. Says(Wanted(conf))
  BY <1>2, <1>3, <1>4 DEF Says, ComesTo, Ends, SettingNow, SettingsOf
<1>6. Looked
  BY <1>1, <1>2, <1>5 DEF Looked, NoCollision
<1> QED
  BY <1>1, <1>6 DEF TextInv, Quiet, Switches

LEMMA TextNext ==
  ASSUME NoCollision, Inv, TextInv, [Next]_vars
  PROVE  TextInv'
<1>1. CASE Tick
  BY <1>1, TextSame DEF Tick, confVars
<1>2. ASSUME NEW t \in Threads, MakeLogData(t) PROVE TextInv'
  BY <1>2, TextSame DEF MakeLogData, confVars
<1>3. ASSUME NEW t \in Threads, PushLog(t) PROVE TextInv'
  <2>1. EntryOf("log", made[t]) \in Entry /\ EntryOf("log", made[t]).type = "log"
    BY DEF EntryOf, Entry, Inv, TypeOK
  <2> QED
    BY <1>3, <2>1, TextAppend DEF PushLog, confVars
<1>4. ASSUME NEW r \in Reserves, SetLoggerReserveTime(r) PROVE TextInv'
  <2>1. EntryOf("reserve", r) \in Entry /\ EntryOf("reserve", r).type = "reserve"
    BY FileAssumption DEF EntryOf, Entry
  <2> QED
    BY <1>4, <2>1, TextAppend DEF SetLoggerReserveTime, confVars
<1>5. CASE EditorStep /\ UNCHANGED <<now, made, logs, at, lastCheckUpdate, set, fileVars, popped,
                                     changes, failures>>
  <2>1. UNCHANGED checksum
    BY <1>5 DEF EditorStep, EditorWrites, EditorTruncates
  <2> QED
    BY <1>5, <2>1, TextSame
<1>6. CASE PopSetting
  BY <1>6, TextPopSetting
<1>7. CASE PopLog
  <2>1. PICK t \in Day..MaxTime :
          \/ PopUnwritten(t) \/ PopOpenFails(t)
          \/ \E n \in 0..RecLen : PopAppends(t, n) \/ PopOpens(t, n)
    BY <1>7 DEF PopLog
  <2>2. failures \in Nat
    BY DEF Inv, TypeOK
  <2>3. CASE PopUnwritten(t)
    <3>1. Pop(t) /\ UNCHANGED set /\ (failures' = 0 => failures = 0)
      BY <2>3 DEF PopUnwritten
    <3> QED
      BY <3>1, TextPop
  <2>4. CASE PopOpenFails(t)
    BY <2>2, <2>4, TextPop DEF PopOpenFails
  <2>5. ASSUME NEW n \in 0..RecLen, PopAppends(t, n) \/ PopOpens(t, n) PROVE TextInv'
    <3>1. Pop(t) /\ UNCHANGED set
      BY <2>5 DEF PopAppends, PopOpens
    <3>2. failures' = failures \/ failures' = failures + 1
      BY <2>5 DEF PopAppends, PopOpens, Write
    <3> QED
      BY <2>2, <3>1, <3>2, TextPop
  <2> QED
    BY <2>1, <2>3, <2>4, <2>5
<1>8. CASE RunSleeps \/ RunWakes
  BY <1>8, TextSame DEF RunSleeps, RunWakes, confVars
<1>9. CASE UpdateConfig
  BY <1>9, TextUpdate
<1>10. CASE UNCHANGED vars
  BY <1>10, TextSame DEF vars, confVars
<1> QED
  BY <1>1, <1>2, <1>3, <1>4, <1>5, <1>6, <1>7, <1>8, <1>9, <1>10 DEF Next, RunStep

\* What the queue ends with is what it leaves in force.
LEMMA EndsInForce ==
  ASSUME NEW f, NEW x, Inv, ComesTo(f, x)
  PROVE  InForce(f) = x
<1>1. logs \in Seq(Entry)
  BY DEF Inv, TypeOK
<1>2. DOMAIN logs \subseteq Nat
  BY <1>1, LenProperties
<1>3. CASE Of(logs, f) = {}
  BY <1>3 DEF ComesTo, Ends, Of, InForce, SettingNow
<1>4. CASE Of(logs, f) # {}
  <2>1. PICK i \in Of(logs, f) : logs[i].val = x /\ \A j \in Of(logs, f) : j <= i
    BY <1>4 DEF ComesTo, Ends
  <2>2. Of(logs, f) \subseteq Nat
    BY <1>2 DEF Of
  <2>3. Max(Of(logs, f)) = i
    <3>1. \A y \in Of(logs, f) : i >= y
      BY <2>1, <2>2
    <3>2. \A z \in Of(logs, f) : (\A y \in Of(logs, f) : z >= y) => z = i
      BY <2>1, <2>2
    <3> QED
      BY <3>1, <3>2 DEF Max
  <2>4. InForce(f) = logs[Max(Of(logs, f))].val
    BY <1>4 DEF InForce, Of
  <2> QED
    BY <2>1, <2>3, <2>4
<1> QED
  BY <1>3, <1>4

-----------------------------------------------------------------------------
(***************************************************************************)
(* The sizes of the files                                                  *)
(***************************************************************************)
\* A limit is some megabytes, so that a record more does not wrap the counter.
LEMMA LimitFacts ==
  ASSUME NEW n \in Limits
  PROVE  n \in Nat /\ n + RecLen \in Nat /\ n + RecLen < Word
<1>1. MB \in Nat \ {0} /\ Word \in Nat \ {0} /\ RecLen \in Nat /\ RecLen < MB /\ Word % MB = 0
  BY FileAssumption, LengthAssumption
<1>2. PICK k \in Nat : n = (k * MB) % Word
  <2>1. PICK l \in LimitValues : n = LimitBytes(Limitsize(l))
    BY DEF Limits
  <2>2. PICK info \in Infos : info.limitsize = l
    <3>1. [name |-> 0, outfile |-> TRUE, limitsize |-> l, enable |-> TRUE] \in Infos
      BY DEF Infos
    <3> QED
      BY <3>1
  <2>3. Limitsize(l) \in Nat
    BY <2>2, LimitType
  <2> QED
    BY <2>1, <2>3 DEF LimitBytes
<1>3. PICK a \in Int : Word = MB * a
  <2>1. Word = (MB * (Word \div MB)) + (Word % MB) /\ Word \div MB \in Int
    BY <1>1
  <2>2. PICK a \in Int : a = Word \div MB
    BY <2>1
  <2>3. PICK y \in Int : y = MB * a
    BY <1>1, <2>2
  <2>4. Word = y + 0
    BY <1>1, <2>1, <2>2, <2>3
  <2>5. Word = MB * a
    BY <1>1, <2>3, <2>4
  <2> QED
    BY <2>2, <2>5
<1>4. PICK x \in Nat : x = k * MB /\ x = MB * k
  BY <1>1, Z3
<1>5. PICK q \in Int : x = (Word * q) + n /\ n \in 0..(Word - 1)
  <2>1. x = (Word * (x \div Word)) + (x % Word) /\ x \div Word \in Int /\ x % Word \in 0..(Word - 1)
    BY <1>1
  <2> QED
    BY <1>2, <1>4, <2>1
<1>6. PICK d \in Int : d = k - (a * q)
  BY <1>3, <1>5
<1>7. n = MB * d
  <2>1. MB * d = (MB * k) - (MB * (a * q))
    BY <1>1, <1>6, Z3
  <2>2. MB * (a * q) = Word * q
    BY <1>1, <1>3, Z3
  <2>3. PICK y \in Int : y = Word * q
    BY <1>1, <1>5
  <2> QED
    BY <1>4, <1>5, <2>1, <2>2, <2>3
<1>8. d <= a - 1
  <2> SUFFICES ASSUME d >= a PROVE FALSE
    BY <1>3
  <2>1. MB * d >= MB * a
    BY <1>1, <1>3, Z3
  <2> QED
    BY <1>1, <1>3, <1>5, <1>7, <2>1
<1>9. MB * d <= (MB * a) - MB
  <2>1. MB * d <= MB * (a - 1)
    BY <1>1, <1>3, <1>8, Z3
  <2>2. MB * (a - 1) = (MB * a) - MB
    BY <1>1, <1>3, Z3
  <2>3. PICK y \in Int, z \in Int : y = MB * d /\ z = MB * a
    BY <1>1, <1>3
  <2> QED
    BY <2>1, <2>2, <2>3
<1> QED
  BY <1>1, <1>3, <1>5, <1>7, <1>9

\* No file outgrows its limit by more than a record, none is of a later day or has a
\* higher number than the ones in use, and among those that may be written again, which
\* have these, none is beyond its limit.
Settled(fs, day, index) ==
  \A p \in DOMAIN fs :
    /\ \E n \in Limits : fs[p].bytes <= n + RecLen
    /\ DayOf(p.time) <= day
    /\ DayOf(p.time) = day => p.index <= index
    /\ DayOf(p.time) = day /\ p.index = index => \E n \in Limits : fs[p].bytes <= n

\* The same but for the file last written, of which _curWriteLen tells.
SizesGood ==
  \A p \in DOMAIN files :
    /\ \E n \in Limits : files[p].bytes <= n + RecLen
    /\ DayOf(p.time) <= curFileCreateDay
    /\ DayOf(p.time) = curFileCreateDay => p.index <= curFileIndex
    /\ DayOf(p.time) = curFileCreateDay /\ p.index = curFileIndex =>
         files[p].bytes <= curWriteLen \/ \E n \in Limits : files[p].bytes <= n

\* The day of the files is one of which a record was popped.
DayPopped ==
  curFileCreateDay = 0 \/ \E i \in DOMAIN popped : DayOf(popped[i]) = curFileCreateDay

SizeInv == DayPopped /\ (InDayOrder => SizesGood)

LEMMA LimitInForce ==
  ASSUME Inv
  PROVE  LimitBytes(set.limitsize) \in Limits /\ LimitBytes(set.limitsize) \in Nat
BY LimitFacts DEF Inv, Calling

\* Before a file whose limit is reached is written again there is a next number.
LEMMA SettledByLimit ==
  ASSUME Inv, SizesGood, ~NeedChangeFile
  PROVE  Settled(files, curFileCreateDay, curFileIndex)
<1> SUFFICES ASSUME NEW p \in DOMAIN files, files[p].bytes <= curWriteLen
             PROVE  \E n \in Limits : files[p].bytes <= n
  BY DEF SizesGood, Settled
<1>1. PICK n \in Limits : n = LimitBytes(set.limitsize) /\ n \in Nat
  BY LimitInForce
<1>2. curWriteLen \in Nat /\ curWriteLen <= n
  BY <1>1 DEF Inv, TypeOK, NeedChangeFile
<1>3. files[p].bytes \in Nat
  <2>1. files[p] \in File
    BY DEF Inv, TypeOK
  <2> QED
    BY <2>1 DEF File
<1> QED
  BY <1>1, <1>2, <1>3

\* Whatever its day, a popped record is one of those popped.
LEMMA PoppedStays ==
  ASSUME Inv, NEW t \in Nat, Pop(t)
  PROVE  /\ \A i \in DOMAIN popped :
              i \in DOMAIN popped' /\ popped'[i] = popped[i] /\ i <= Len(popped) + 1
         /\ Len(popped) + 1 \in DOMAIN popped' /\ popped'[Len(popped) + 1] = t
<1>1. popped \in Seq(Nat) /\ popped' = Append(popped, t)
  BY DEF Inv, TypeOK, Pop
<1>2. /\ Append(popped, t) \in Seq(Nat) /\ Len(Append(popped, t)) = Len(popped) + 1
      /\ \A i \in 1..Len(popped) : Append(popped, t)[i] = popped[i]
      /\ Append(popped, t)[Len(popped) + 1] = t
      /\ Len(popped) \in Nat /\ DOMAIN popped = 1..Len(popped)
  BY <1>1, AppendProperties, LenProperties
<1>3. DOMAIN popped' = 1..(Len(popped) + 1)
  BY <1>1, <1>2, LenProperties
<1> QED
  BY <1>1, <1>2, <1>3

\* The records popped before this one are of no later day.
LEMMA DaysBefore ==
  ASSUME Inv, NEW t \in Nat, Pop(t), InDayOrder'
  PROVE  InDayOrder /\ \A i \in DOMAIN popped : DayOf(popped[i]) <= DayOf(t)
<1>1. /\ \A i \in DOMAIN popped :
           i \in DOMAIN popped' /\ popped'[i] = popped[i] /\ i <= Len(popped) + 1
      /\ Len(popped) + 1 \in DOMAIN popped' /\ popped'[Len(popped) + 1] = t
  BY PoppedStays
<1>2. \A i, j \in DOMAIN popped' : i <= j => DayOf(popped'[i]) <= DayOf(popped'[j])
  BY DEF InDayOrder, DayOf
<1> QED
  BY <1>1, <1>2 DEF InDayOrder

\* Days that come in order are opened in order.
LEMMA LaterDay ==
  ASSUME Inv, NEW t \in Nat, ~Sameday(t), curFileCreateDay <= DayOf(t)
  PROVE  curFileCreateDay < DayOf(t)
<1>1. /\ DayOf(t) \in Nat /\ DayOf(t) <= t /\ t < DayOf(t) + Day /\ curFileCreateDay \in Nat
      /\ Day \in Nat
  BY DayOfType, FileAssumption DEF Inv, TypeOK
<1>2. ~(t >= curFileCreateDay /\ t - curFileCreateDay < Day)
  BY DEF Sameday
<1> QED
  BY <1>1, <1>2

\* openLogger chooses a path behind all the files that are full.
LEMMA OpensSettled ==
  ASSUME Inv, DayPopped, SizesGood, NEW t \in Nat, Pop(t), InDayOrder'
  PROVE  Settled(files, DayOf(t), NextIndex(t))
<1>1. /\ curFileCreateDay \in Nat /\ curFileCreateDay % Day = 0 /\ curFileIndex \in Nat
      /\ DOMAIN files \subseteq Path /\ DayOf(t) \in Nat
  BY DayOfType DEF Inv, TypeOK
<1>2. \A p \in DOMAIN files : DayOf(p.time) \in Nat /\ p.index \in Nat
  BY <1>1, DayOfType DEF Path
<1>3. CASE ~Sameday(t)
  <2>1. curFileCreateDay <= DayOf(t)
    BY <1>1, DaysBefore DEF DayPopped
  <2>2. curFileCreateDay < DayOf(t)
    BY <1>3, <2>1, LaterDay
  <2>3. \A p \in DOMAIN files : DayOf(p.time) < DayOf(t)
    BY <1>1, <1>2, <2>2 DEF SizesGood
  <2> QED
    BY <1>1, <1>2, <2>3 DEF SizesGood, Settled
<1>4. CASE Sameday(t) /\ NeedChangeFile
  <2>1. DayOf(t) = curFileCreateDay /\ NextIndex(t) = curFileIndex + 1
    BY <1>1, <1>4, SamedayIsDay DEF Sameday, NextIndex
  <2>2. \A p \in DOMAIN files :
          DayOf(p.time) = DayOf(t) => p.index <= NextIndex(t) /\ p.index # NextIndex(t)
    BY <1>1, <1>2, <2>1 DEF SizesGood
  <2> QED
    BY <2>1, <2>2 DEF SizesGood, Settled
<1>5. CASE Sameday(t) /\ ~NeedChangeFile
  <2>1. DayOf(t) = curFileCreateDay /\ NextIndex(t) = curFileIndex
    BY <1>1, <1>5, SamedayIsDay DEF Sameday, NextIndex
  <2> QED
    BY <1>5, <2>1, SettledByLimit
<1> QED
  BY <1>3, <1>4, <1>5

\* A record is written to a file that is not beyond its limit.
LEMMA WriteSettled ==
  ASSUME NEW fs, fs \in [DOMAIN fs -> File], NEW p \in DOMAIN fs, NEW t \in Nat,
         NEW n \in 0..RecLen,
         Settled(fs, curFileCreateDay', curFileIndex'),
         NEW m \in Limits, fs[p].bytes <= m,
         files' = Written(fs, p, t, n), curWriteLen' = (fs[p].bytes + RecLen) % Word
  PROVE  SizesGood'
<1>1. /\ DOMAIN files' = DOMAIN fs /\ \A q \in DOMAIN fs : q # p => files'[q] = fs[q]
      /\ files'[p].bytes = fs[p].bytes + n
  BY WrittenFile
<1>2. PICK b \in Nat : b = fs[p].bytes
  <2>1. fs[p] \in File
    OBVIOUS
  <2> QED
    BY <2>1 DEF File
<1>3. /\ m \in Nat /\ RecLen \in Nat /\ m + RecLen < Word /\ n \in Nat /\ n <= RecLen /\ b <= m
      /\ Word \in Nat \ {0}
  BY <1>2, LimitFacts, FileAssumption
<1>4. b + RecLen \in 0..(Word - 1)
  BY <1>2, <1>3
<1>5. curWriteLen' = b + RecLen
  <2>1. PICK w \in 0..(Word - 1) : w = b + RecLen
    BY <1>4
  <2>2. w = (Word * 0) + w
    BY <1>3, <2>1
  <2>3. w % Word = w
    BY <1>3, <2>1, <2>2, Remainder
  <2> QED
    BY <1>2, <2>1, <2>3
<1>6. files'[p].bytes <= m + RecLen /\ files'[p].bytes <= curWriteLen'
  BY <1>1, <1>2, <1>3, <1>5
<1>7. \A q \in DOMAIN fs :
        /\ \E k \in Limits : files'[q].bytes <= k + RecLen
        /\ DayOf(q.time) <= curFileCreateDay'
        /\ DayOf(q.time) = curFileCreateDay' => q.index <= curFileIndex'
        /\ DayOf(q.time) = curFileCreateDay' /\ q.index = curFileIndex' =>
             files'[q].bytes <= curWriteLen' \/ \E k \in Limits : files'[q].bytes <= k
  <2> SUFFICES ASSUME NEW q \in DOMAIN fs
               PROVE  /\ \E k \in Limits : files'[q].bytes <= k + RecLen
                      /\ DayOf(q.time) <= curFileCreateDay'
                      /\ DayOf(q.time) = curFileCreateDay' => q.index <= curFileIndex'
                      /\ DayOf(q.time) = curFileCreateDay' /\ q.index = curFileIndex' =>
                           \/ files'[q].bytes <= curWriteLen'
                           \/ \E k \in Limits : files'[q].bytes <= k
    OBVIOUS
  <2>1. CASE q = p
    BY <1>6, <2>1 DEF Settled
  <2>2. CASE q # p
    BY <1>1, <2>2 DEF Settled
  <2> QED
    BY <2>1, <2>2
<1> QED
  BY <1>1, <1>7 DEF SizesGood, DayOf, Limits, LimitBytes, Limitsize

\* A step that writes nothing and leaves the numbers in use.
LEMMA SizesSame ==
  ASSUME SizeInv, UNCHANGED <<curFileCreateDay, curFileIndex, curWriteLen, files, popped>>
  PROVE  SizeInv'
BY DEF SizeInv, SizesGood, DayPopped, InDayOrder, DayOf, Limits, LimitBytes, Limitsize

LEMMA PopUnwrittenSizes ==
  ASSUME Inv, SizeInv, NEW t \in Nat, PopUnwritten(t)
  PROVE  SizeInv'
<1>1. Pop(t) /\ UNCHANGED fileVars
  BY DEF PopUnwritten
<1>2. DayPopped'
  BY <1>1, PoppedStays DEF SizeInv, DayPopped, fileVars, DayOf
<1>3. ASSUME InDayOrder' PROVE SizesGood'
  <2>1. SizesGood
    BY <1>1, <1>3, DaysBefore DEF SizeInv
  <2> QED
    BY <1>1, <2>1 DEF SizesGood, fileVars, DayOf, Limits, LimitBytes, Limitsize
<1> QED
  BY <1>2, <1>3 DEF SizeInv

LEMMA PopOpenFailsSizes ==
  ASSUME Inv, SizeInv, NEW t \in Nat, PopOpenFails(t)
  PROVE  SizeInv'
<1>1. /\ Pop(t) /\ UNCHANGED files /\ curWriteLen' = 0
      /\ curFileIndex' = NextIndex(t) /\ curFileCreateDay' = DayOf(t)
  BY DEF PopOpenFails
<1>2. DayPopped'
  BY <1>1, PoppedStays DEF DayPopped, DayOf
<1>3. ASSUME InDayOrder' PROVE SizesGood'
  <2>1. SizesGood
    BY <1>1, <1>3, DaysBefore DEF SizeInv
  <2>2. Settled(files, DayOf(t), NextIndex(t))
    BY <1>1, <1>3, <2>1, OpensSettled DEF SizeInv
  <2>3. Settled(files, curFileCreateDay', curFileIndex')
    BY <1>1, <2>2
  <2> QED
    BY <1>1, <2>3 DEF SizesGood, Settled, DayOf, Limits, LimitBytes, Limitsize
<1> QED
  BY <1>2, <1>3 DEF SizeInv

LEMMA PopAppendsSizes ==
  ASSUME Inv, SizeInv, NEW t \in Nat, NEW n \in 0..RecLen, PopAppends(t, n)
  PROVE  SizeInv'
<1>1. /\ Pop(t) /\ handle # NoFile /\ ~NeedChangeFile
      /\ UNCHANGED <<curFileCreateDay, curFileIndex>>
      /\ files' = Written(files, handle, t, n) /\ curWriteLen' = (curWriteLen + RecLen) % Word
  BY DEF PopAppends, StaysOpen, Write
<1>2. DayPopped'
  BY <1>1, PoppedStays DEF SizeInv, DayPopped, DayOf
<1>3. ASSUME InDayOrder' PROVE SizesGood'
  <2>1. SizesGood
    BY <1>1, <1>3, DaysBefore DEF SizeInv
  <2>2. Settled(files, curFileCreateDay', curFileIndex')
    BY <1>1, <2>1, SettledByLimit
  <2>3. /\ handle \in DOMAIN files /\ curWriteLen = files[handle].bytes % Word
        /\ files \in [DOMAIN files -> File]
    BY <1>1 DEF Inv, TypeOK, Writing, CounterExact
  <2>4. PICK b \in Nat : b = files[handle].bytes
    BY <2>3 DEF File
  <2>5. curWriteLen = b
    <3>1. PICK m \in Limits : b <= m + RecLen
      BY <2>1, <2>3, <2>4 DEF SizesGood
    <3>2. b \in 0..(Word - 1) /\ Word \in Nat \ {0}
      BY <3>1, LimitFacts, FileAssumption
    <3>3. b = (Word * 0) + b
      BY <3>2
    <3>4. b % Word = b
      BY <3>2, <3>3, Remainder
    <3> QED
      BY <2>3, <2>4, <3>4
  <2>6. PICK m \in Limits : files[handle].bytes <= m
    <3>1. PICK m \in Limits : m = LimitBytes(set.limitsize) /\ m \in Nat
      BY LimitInForce
    <3>2. curWriteLen <= m
      BY <1>1, <2>5, <3>1 DEF NeedChangeFile
    <3> QED
      BY <2>4, <2>5, <3>2
  <2>7. curWriteLen' = (files[handle].bytes + RecLen) % Word
    BY <1>1, <2>4, <2>5
  <2> QED
    BY <1>1, <2>2, <2>3, <2>6, <2>7, WriteSettled
<1> QED
  BY <1>2, <1>3 DEF SizeInv

LEMMA PopOpensSizes ==
  ASSUME Inv, SizeInv, NEW t \in Nat, NEW n \in 0..RecLen, PopOpens(t, n)
  PROVE  SizeInv'
<1>0. PICK p : p = PathFor(t)
  OBVIOUS
<1>d. PICK fs : fs = DiskWith(p)
  OBVIOUS
<1>1. /\ Pop(t) /\ curFileIndex' = NextIndex(t) /\ curFileCreateDay' = DayOf(t)
      /\ files' = Written(fs, p, t, n) /\ curWriteLen' = (OpenLength(p) + RecLen) % Word
  BY <1>0, <1>d DEF PopOpens, Write
<1>2. DayPopped'
  BY <1>1, PoppedStays DEF DayPopped, DayOf
<1>3. ASSUME InDayOrder' PROVE SizesGood'
  <2>1. SizesGood
    BY <1>1, <1>3, DaysBefore DEF SizeInv
  <2>2. Settled(files, DayOf(t), NextIndex(t))
    BY <1>1, <1>3, <2>1, OpensSettled DEF SizeInv
  <2>3. p \in Path /\ p.time = t /\ p.index = NextIndex(t) /\ NextIndex(t) \in Nat
    BY <1>0, PathForType DEF PathFor
  <2>4. /\ p \in DOMAIN fs /\ fs \in [DOMAIN fs -> File] /\ OpenLength(p) = fs[p].bytes
    BY <1>0, <1>1, <1>d, DiskWithGood, PopQueue
  <2>5. \A q \in DOMAIN fs :
          (q \in DOMAIN files /\ fs[q] = files[q]) \/ (q = p /\ q \notin DOMAIN files /\ fs[q].bytes = 0)
    BY <1>d DEF DiskWith, Opened, NewFile
  <2>6. PICK m \in Limits : m \in Nat
    BY LimitInForce
  <2>7. PICK l \in Limits : fs[p].bytes <= l
    <3>1. CASE p \in DOMAIN files
      <4>1. fs[p] = files[p]
        BY <2>4, <2>5, <3>1
      <4> QED
        BY <2>2, <2>3, <3>1, <4>1 DEF Settled
    <3>2. CASE p \notin DOMAIN files
      BY <2>4, <2>5, <2>6, <3>2
    <3> QED
      BY <3>1, <3>2
  <2>8. Settled(fs, DayOf(t), NextIndex(t))
    <3> SUFFICES ASSUME NEW q \in DOMAIN fs
                 PROVE  /\ \E k \in Limits : fs[q].bytes <= k + RecLen
                        /\ DayOf(q.time) <= DayOf(t)
                        /\ DayOf(q.time) = DayOf(t) => q.index <= NextIndex(t)
                        /\ DayOf(q.time) = DayOf(t) /\ q.index = NextIndex(t) =>
                             \E k \in Limits : fs[q].bytes <= k
      BY DEF Settled
    <3>1. CASE q \in DOMAIN files /\ fs[q] = files[q]
      BY <2>2, <3>1 DEF Settled
    <3>2. CASE q = p /\ fs[q].bytes = 0
      <4>1. 0 <= m /\ 0 <= m + RecLen /\ DayOf(t) \in Nat
        BY <2>6, LimitFacts, DayOfType
      <4> QED
        BY <2>3, <3>2, <4>1
    <3> QED
      BY <2>5, <3>1, <3>2
  <2>9. /\ Settled(fs, curFileCreateDay', curFileIndex')
        /\ curWriteLen' = (fs[p].bytes + RecLen) % Word
    BY <1>1, <2>4, <2>8
  <2> QED
    BY <1>1, <2>4, <2>7, <2>9, WriteSettled
<1> QED
  BY <1>2, <1>3 DEF SizeInv

LEMMA SizesInitially == Init => SizeInv
BY DEF Init, SizeInv, DayPopped, SizesGood

LEMMA SizesNext ==
  ASSUME Inv, SizeInv, [Next]_vars
  PROVE  SizeInv'
<1>1. CASE UNCHANGED <<curFileCreateDay, curFileIndex, curWriteLen, files, popped>>
  BY <1>1, SizesSame
<1>2. CASE PopLog
  <2>1. PICK t \in Day..MaxTime :
          \/ PopUnwritten(t) \/ PopOpenFails(t)
          \/ \E n \in 0..RecLen : PopAppends(t, n) \/ PopOpens(t, n)
    BY <1>2 DEF PopLog
  <2>2. t \in Nat
    BY FileAssumption
  <2> QED
    BY <2>1, <2>2, PopUnwrittenSizes, PopOpenFailsSizes, PopAppendsSizes, PopOpensSizes
<1> QED
  BY <1>1, <1>2 DEF Next, RunStep, Tick, MakeLogData, PushLog, SetLoggerReserveTime, PopSetting,
                    RunSleeps, RunWakes, UpdateConfig, vars, fileVars

-----------------------------------------------------------------------------
(***************************************************************************)
(* The theorems                                                            *)
(***************************************************************************)
LEMMA Invariance == Spec => []Inv
<1>1. Inv /\ [Next]_vars => Inv'
  BY NextKeeps
<1> QED
  BY Initially, <1>1, PTL DEF Spec

\* Types, of the settings a text that was read in parts leaves among others.
THEOREM TypeCorrect == Spec => []TypeOK
<1>1. Inv => TypeOK
  BY DEF Inv
<1> QED
  BY Invariance, <1>1, PTL

\* What rolling goes by is the length of the open file, in the bits it has, and that
\* file is never one of those removed (openLogger, run).
THEOREM CounterIsLength == Spec => []CounterExact
<1>1. Inv => CounterExact
  BY DEF Inv, Writing
<1> QED
  BY Invariance, <1>1, PTL

\* openLogger removes no file with a record younger than the reserve time less a day.
THEOREM ReserveKept == Spec => ReserveHonoured
<1>1. Inv /\ [Next]_vars => [\A q \in DOMAIN files \ DOMAIN files' :
                               \A i \in DOMAIN files[q].recs :
                                 files[q].recs[i] + set.reserve < now + Day]_vars
  BY NextKeeps DEF OnlyOldGo
<1> QED
  BY Invariance, <1>1, PTL DEF Spec, ReserveHonoured

\* run writes a record it pops to a file of the record's day and the logger's name, or
\* an open or a write has failed.
THEOREM RecordsReachFiles == Spec => RecordReachesFile
<1> DEFINE Step ==
      \A t \in Day..MaxTime :
        Pop(t) /\ set.enable /\ set.outfile =>
          \/ failures' > failures
          \/ \E p \in DOMAIN files' :
               /\ p.name = set.name /\ DayOf(p.time) = DayOf(t)
               /\ files'[p].recs = Append(IF p \in DOMAIN files THEN files[p].recs ELSE <<>>, t)
<1>1. ASSUME Inv, [Next]_vars PROVE Step
  <2> SUFFICES ASSUME NEW t \in Day..MaxTime, Pop(t), set.enable, set.outfile PROVE Reached(t)
    BY DEF Reached
  <2>1. t \in Nat
    BY FileAssumption
  <2> QED
    BY <1>1, <2>1, PoppedReaches
<1>2. Inv /\ [Next]_vars => [Step]_vars
  BY <1>1
<1> QED
  BY Invariance, <1>2, PTL DEF Spec, RecordReachesFile

\* As long as days come in order, no file outgrows the limit by more than a record,
\* whatever closes it in between: settings, failures, the removal of old files.
THEOREM FilesKeepLimit == Spec => []LimitKept
<1>1. SizeInv => LimitKept
  BY DEF SizeInv, SizesGood, LimitKept
<1>2. Inv /\ SizeInv /\ [Next]_vars => SizeInv'
  BY SizesNext
<1> QED
  BY Invariance, SizesInitially, <1>1, <1>2, PTL DEF Spec

\* Where no two parts of the texts have the same sum and speak differently of the
\* main logger, the text whose checksum is stored is in force or under way: reading a
\* file that is being rewritten leaves nothing behind.  A sum that is met twice would
\* let updateConfig overlook a text.
THEOREM TextComesIntoForce == ASSUME NoCollision PROVE Spec => []TextInForce
<1>1. Inv /\ TextInv => TextInForce
  <2> SUFFICES ASSUME Inv, TextInv, Mentions(conf), checksum = Sum(conf)
               PROVE  LET info == SettingsOf(Wanted(conf), 0)
                      IN  /\ InForce("name") = info.name /\ InForce("limitsize") = info.limitsize
                          /\ InForce("enable") = Flag(info.enable)
                          /\ failures = 0 => InForce("outfile") = Flag(info.outfile)
    BY DEF TextInForce
  <2>1. Says(Wanted(conf))
    BY ConfIsText DEF TextInv, Looked
  <2> QED
    BY <2>1, EndsInForce DEF Says, SettingsOf
<1>2. Init => TextInv
  BY TextInitially
<1>3. Inv /\ TextInv /\ [Next]_vars => TextInv'
  BY TextNext
<1> QED
  BY Invariance, <1>1, <1>2, <1>3, PTL DEF Spec
=============================================================================
