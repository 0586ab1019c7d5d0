--------------------------- MODULE LogOrderProofs ---------------------------
(***************************************************************************)
(* Theorems about LogManager when the threads that log are stopped before  *)
(* the logger: where the memory of the records is, and in which order they *)
(* are written; for any threads, scripts, records and limit of the free    *)
(* list.                                                                   *)
(***************************************************************************)
EXTENDS LogManagerProofs

-----------------------------------------------------------------------------
(***************************************************************************)
(* Sequences without repetitions                                           *)
(***************************************************************************)
Distinct(s) == \A i, j \in DOMAIN s : s[i] = s[j] => i = j

LEMMA AppendElems ==
  ASSUME NEW S, NEW s \in Seq(S), NEW e \in S
  PROVE  /\ Range(Append(s, e)) = Range(s) \cup {e}
         /\ Distinct(s) /\ e \notin Range(s) => Distinct(Append(s, e))
<1> DEFINE a == Append(s, e)
<1>1. /\ Len(s) \in Nat /\ DOMAIN s = 1..Len(s) /\ a \in Seq(S)
      /\ Len(a) = Len(s) + 1 /\ \A i \in 1..Len(s) : a[i] = s[i]
      /\ a[Len(s) + 1] = e
  BY AppendProperties, LenProperties
<1>2. DOMAIN a = 1..(Len(s) + 1)
  BY <1>1, LenProperties
<1> HIDE DEF a
<1>3. Range(a) = Range(s) \cup {e}
  BY <1>1, <1>2 DEF Range
<1>4. ASSUME Distinct(s), e \notin Range(s) PROVE Distinct(a)
  BY <1>1, <1>2, <1>4 DEF Range, Distinct
<1> QED
  BY <1>3, <1>4 DEF a

LEMMA TailElems ==
  ASSUME NEW S, NEW s \in Seq(S), s # <<>>
  PROVE  /\ Head(s) \in Range(s) /\ Head(s) = s[1]
         /\ Distinct(s) => Distinct(Tail(s)) /\ Range(Tail(s)) = Range(s) \ {Head(s)}
         /\ Tail(s) \in Seq(S) /\ Len(Tail(s)) = Len(s) - 1 /\ Len(s) \in Nat \ {0}
         /\ DOMAIN Tail(s) = 1..(Len(s) - 1) /\ DOMAIN s = 1..Len(s)
         /\ \A i \in 1..(Len(s) - 1) : Tail(s)[i] = s[i + 1]
<1> DEFINE u == Tail(s)
<1>1. /\ Len(s) \in Nat \ {0} /\ DOMAIN s = 1..Len(s) /\ u \in Seq(S)
      /\ Len(u) = Len(s) - 1 /\ \A i \in 1..Len(u) : u[i] = s[i + 1]
  BY HeadTailProperties, LenProperties, EmptySeq
<1>2. DOMAIN u = 1..(Len(s) - 1) /\ Head(s) = s[1]
  BY <1>1, LenProperties
<1> HIDE DEF u
<1>3. Head(s) \in Range(s)
  BY <1>1, <1>2 DEF Range
<1>4. ASSUME Distinct(s) PROVE Distinct(u)
  <2> SUFFICES ASSUME NEW i \in 1..(Len(s) - 1), NEW j \in 1..(Len(s) - 1), u[i] = u[j]
               PROVE  i = j
    BY <1>2 DEF Distinct
  <2>1. i + 1 \in DOMAIN s /\ j + 1 \in DOMAIN s
    BY <1>1
  <2>2. s[i + 1] = s[j + 1]
    BY <1>1
  <2>3. i + 1 = j + 1
    BY <1>4, <2>1, <2>2 DEF Distinct
  <2> QED
    BY <1>1, <2>3
<1>5. ASSUME Distinct(s) PROVE Range(u) = Range(s) \ {Head(s)}
  <2>1. ASSUME NEW x \in Range(u) PROVE x \in Range(s) \ {Head(s)}
    <3>1. PICK i \in 1..(Len(s) - 1) : x = s[i + 1]
      BY <1>1, <1>2 DEF Range
    <3>2. i + 1 \in DOMAIN s /\ 1 \in DOMAIN s /\ i + 1 # 1
      BY <1>1
    <3> QED
      BY <1>2, <1>5, <3>1, <3>2 DEF Range, Distinct
  <2>2. ASSUME NEW x \in Range(s), x # Head(s) PROVE x \in Range(u)
    <3>1. PICK i \in 1..Len(s) : x = s[i]
      BY <1>1 DEF Range
    <3>2. i # 1 /\ i - 1 \in 1..(Len(s) - 1) /\ (i - 1) + 1 = i
      BY <1>1, <1>2, <2>2, <3>1
    <3>3. u[i - 1] = s[i]
      BY <1>1, <3>2
    <3> QED
      BY <1>2, <3>1, <3>2, <3>3 DEF Range
  <2> QED
    BY <2>1, <2>2
<1> QED
  BY <1>1, <1>2, <1>3, <1>4, <1>5 DEF u

LEMMA FrontElems ==
  ASSUME NEW S, NEW s \in Seq(S), s # <<>>
  PROVE  /\ Last(s) \in Range(s)
         /\ Distinct(s) => Distinct(Front(s)) /\ Range(Front(s)) = Range(s) \ {Last(s)}
<1> DEFINE u == Front(s)
           n == Len(s) - 1
<1>1. Len(s) \in Nat \ {0} /\ DOMAIN s = 1..Len(s) /\ \A i \in 1..Len(s) : s[i] \in S
  BY LenProperties, EmptySeq, ElementOfSeq
<1>2. n \in Nat /\ Len(s) = n + 1 /\ Last(s) = s[n + 1]
  BY <1>1 DEF Last
<1>3. u = SubSeq(s, 1, n)
  BY DEF Front
<1> HIDE DEF n, u
<1>4. \A i \in 1..n : s[i] \in S
  BY <1>1, <1>2
<1>5. /\ u \in Seq(S) /\ Len(u) = (IF 1 <= n THEN n - 1 + 1 ELSE 0)
      /\ \A i \in 1..(n - 1 + 1) : u[i] = s[1 + i - 1]
  BY <1>2, <1>3, <1>4, SubSeqProperties
<1>6. Len(u) = n /\ \A i \in 1..n : u[i] = s[i]
  BY <1>2, <1>5
<1>7. DOMAIN u = 1..n /\ DOMAIN s = 1..(n + 1)
  BY <1>1, <1>2, <1>5, <1>6, LenProperties
<1>8. Last(s) \in Range(s)
  BY <1>2, <1>7 DEF Range
<1>9. ASSUME Distinct(s) PROVE Distinct(u)
  BY <1>2, <1>6, <1>7, <1>9 DEF Distinct
<1>10. ASSUME Distinct(s) PROVE Range(u) = Range(s) \ {Last(s)}
  <2>1. ASSUME NEW x \in Range(u) PROVE x \in Range(s) \ {Last(s)}
    <3>1. PICK i \in 1..n : x = s[i]
      BY <1>6, <1>7 DEF Range
    <3>2. i \in DOMAIN s /\ n + 1 \in DOMAIN s /\ i # n + 1
      BY <1>2, <1>7
    <3> QED
      BY <1>2, <1>10, <3>1, <3>2 DEF Range, Distinct
  <2>2. ASSUME NEW x \in Range(s), x # Last(s) PROVE x \in Range(u)
    <3>1. PICK i \in 1..(n + 1) : x = s[i]
      BY <1>7 DEF Range
    <3>2. i \in 1..n
      BY <1>2, <2>2, <3>1
    <3> QED
      BY <1>6, <1>7, <3>1, <3>2 DEF Range
  <2> QED
    BY <2>1, <2>2
<1> QED
  BY <1>8, <1>9, <1>10 DEF u

\* A record occurs once in a sequence without repetitions, or not at all.
LEMMA OccursOnce ==
  ASSUME NEW S, NEW s \in Seq(S), Distinct(s), NEW r
  PROVE  Cardinality({i \in 1..Len(s) : s[i] = r}) = IF r \in Range(s) THEN 1 ELSE 0
<1>1. DOMAIN s = 1..Len(s)
  BY LenProperties
<1>2. CASE r \in Range(s)
  <2>1. PICK k \in DOMAIN s : s[k] = r
    BY <1>2 DEF Range
  <2>2. {i \in 1..Len(s) : s[i] = r} = {k}
    BY <1>1, <2>1 DEF Distinct
  <2> QED
    BY <1>2, <2>2, FS_Singleton
<1>3. CASE r \notin Range(s)
  <2>1. {i \in 1..Len(s) : s[i] = r} = {}
    BY <1>1, <1>3 DEF Range
  <2> QED
    BY <1>3, <2>1, FS_EmptySet
<1> QED
  BY <1>2, <1>3

-----------------------------------------------------------------------------
(***************************************************************************)
(* The queue and its cache are one line of records                         *)
(***************************************************************************)
Line == _logsCache \o _logs

LEMMA LineType == TypeOK => Line \in Seq(Records)
BY ConcatProperties DEF TypeOK, Line

LEMMA LineParts ==
  ASSUME TypeOK, Distinct(Line)
  PROVE  /\ Distinct(_logs) /\ Distinct(_logsCache)
         /\ Range(_logs) \cap Range(_logsCache) = {}
         /\ Range(Line) = Range(_logs) \cup Range(_logsCache)
<1> DEFINE c == Len(_logsCache)
           l == Len(_logs)
<1>1. _logs \in Seq(Records) /\ _logsCache \in Seq(Records)
  BY DEF TypeOK
<1>2. c \in Nat /\ DOMAIN _logsCache = 1..c /\ l \in Nat /\ DOMAIN _logs = 1..l
  BY <1>1, LenProperties
<1>3. /\ Line \in Seq(Records) /\ Len(Line) = c + l
      /\ \A i \in 1..(c + l) : Line[i] = IF i <= c THEN _logsCache[i] ELSE _logs[i - c]
  BY <1>1, ConcatProperties DEF Line
<1>4. DOMAIN Line = 1..(c + l)
  BY <1>3, LenProperties
<1> HIDE DEF c, l
<1>5. \A i \in 1..c : i \in DOMAIN Line /\ Line[i] = _logsCache[i]
  BY <1>2, <1>3, <1>4
<1>6. \A i \in 1..l : c + i \in DOMAIN Line /\ Line[c + i] = _logs[i]
  <2> TAKE i \in 1..l
  <2>1. c + i \in 1..(c + l) /\ ~(c + i <= c) /\ (c + i) - c = i
    BY <1>2
  <2> QED
    BY <1>3, <1>4, <2>1
<1>7. Distinct(_logsCache)
  BY <1>2, <1>5 DEF Distinct
<1>8. Distinct(_logs)
  <2> SUFFICES ASSUME NEW i \in 1..l, NEW j \in 1..l, _logs[i] = _logs[j] PROVE i = j
    BY <1>2 DEF Distinct
  <2>1. c + i = c + j
    BY <1>6 DEF Distinct
  <2> QED
    BY <1>2, <2>1
<1>9. Range(_logs) \cap Range(_logsCache) = {}
  <2> SUFFICES ASSUME NEW i \in 1..l, NEW j \in 1..c, _logs[i] = _logsCache[j] PROVE FALSE
    BY <1>2 DEF Range
  <2>1. c + i = j
    BY <1>5, <1>6 DEF Distinct
  <2> QED
    BY <1>2, <2>1
<1>10. Range(Line) = Range(_logs) \cup Range(_logsCache)
  <2>1. ASSUME NEW x \in Range(Line) PROVE x \in Range(_logs) \cup Range(_logsCache)
    <3>1. PICK i \in 1..(c + l) : x = Line[i]
      BY <1>4 DEF Range
    <3>2. CASE i <= c
      BY <1>2, <1>3, <3>1, <3>2 DEF Range
    <3>3. CASE i > c
      <4>1. i - c \in 1..l /\ x = _logs[i - c]
        BY <1>2, <1>3, <3>1, <3>3
      <4> QED
        BY <1>2, <4>1 DEF Range
    <3> QED
      BY <1>2, <3>2, <3>3
  <2>2. Range(_logs) \subseteq Range(Line) /\ Range(_logsCache) \subseteq Range(Line)
    BY <1>2, <1>5, <1>6 DEF Range
  <2> QED
    BY <2>1, <2>2
<1> QED
  BY <1>7, <1>8, <1>9, <1>10

\* What is pushed goes to the end of the line, what is popped comes from its front.
LEMMA LineGrows ==
  ASSUME TypeOK, NEW r \in Records, _logs' = Append(_logs, r), UNCHANGED _logsCache
  PROVE  Line' = Append(Line, r)
<1>1. _logs \in Seq(Records) /\ _logsCache \in Seq(Records) /\ <<r>> \in Seq(Records)
  BY DEF TypeOK
<1>2. Line \in Seq(Records)
  BY LineType
<1>3. Append(_logs, r) = _logs \o <<r>> /\ Append(Line, r) = Line \o <<r>>
  BY <1>1, <1>2, AppendIsConcat
<1>4. (_logsCache \o _logs) \o <<r>> = _logsCache \o (_logs \o <<r>>)
  BY <1>1, ConcatAssociative
<1> QED
  BY <1>3, <1>4 DEF Line

LEMMA LineShrinks ==
  ASSUME TypeOK, PopLog
  PROVE  /\ Line # <<>> /\ hand' = [hand EXCEPT ![Log4z] = Head(Line)]
         /\ Line' = Tail(Line)
<1>1. _logs \in Seq(Records) /\ _logsCache \in Seq(Records)
  BY DEF TypeOK
<1>2. CASE _logsCache # <<>> /\ hand' = [hand EXCEPT ![Log4z] = Head(_logsCache)]
           /\ _logsCache' = Tail(_logsCache) /\ UNCHANGED _logs
  <2> DEFINE h == Head(_logsCache)
             u == Tail(_logsCache)
  <2>1. h \in Records /\ u \in Seq(Records) /\ _logsCache = <<h>> \o u /\ <<h>> \in Seq(Records)
    BY <1>1, <1>2, HeadTailProperties
  <2> HIDE DEF h, u
  <2>2. Line = <<h>> \o (u \o _logs)
    BY <1>1, <2>1, ConcatAssociative DEF Line
  <2>3. u \o _logs \in Seq(Records)
    BY <1>1, <2>1, ConcatProperties
  <2>4. Line # <<>> /\ Head(Line) = h /\ Tail(Line) = u \o _logs
    <3> DEFINE v == u \o _logs
    <3>1. v \in Seq(Records)
      BY <2>3
    <3> HIDE DEF v
    <3>2. <<h>> \o v # <<>> /\ Head(<<h>> \o v) = h /\ Tail(<<h>> \o v) = v
      BY <2>1, <3>1
    <3> QED
      BY <2>2, <3>2 DEF v
  <2> QED
    BY <1>2, <2>4 DEF Line, h, u
<1>3. CASE _logsCache = <<>> /\ _logs # <<>> /\ hand' = [hand EXCEPT ![Log4z] = Head(_logs)]
           /\ _logsCache' = Tail(_logs) /\ _logs' = <<>>
  <2>1. Line = _logs
    BY <1>1, <1>3, ConcatEmptySeq DEF Line
  <2>2. Tail(_logs) \in Seq(Records)
    BY <1>1, <1>3, HeadTailProperties
  <2>3. Line' = Tail(_logs)
    BY <1>3, <2>2, ConcatEmptySeq DEF Line
  <2> QED
    BY <1>3, <2>1, <2>3
<1> QED
  BY <1>2, <1>3 DEF PopLog

-----------------------------------------------------------------------------
(***************************************************************************)
(* Every record has one owner                                              *)
(***************************************************************************)
\* Records in the line L, on the free list F and in the hands hd are apart, and are
\* together the records A.
Apart(L, F, hd, A) ==
  /\ L \cap F = {}
  /\ \A t \in Threads : hd[t] \notin L \cup F
  /\ \A t, u \in Threads : hd[t] = hd[u] /\ hd[t] # NoRecord => t = u
  /\ \A r \in Records : r \in A <=> r \in L \/ r \in F \/ \E t \in Threads : hd[t] = r

Hands == [Threads -> Records \cup {NoRecord}]

\* What leaves a thread's hands goes to the line, to the free list or away.
LEMMA Gives ==
  ASSUME NEW L \in SUBSET Records, NEW F \in SUBSET Records, NEW A \in SUBSET Records,
         NEW hd \in Hands, NEW t \in Threads, hd[t] \in Records, Apart(L, F, hd, A)
  PROVE  LET rest == [hd EXCEPT ![t] = NoRecord]
         IN  /\ Apart(L \cup {hd[t]}, F, rest, A)
             /\ Apart(L, F \cup {hd[t]}, rest, A)
             /\ Apart(L, F, rest, A \ {hd[t]})
<1> DEFINE rest == [hd EXCEPT ![t] = NoRecord]
<1>1. rest[t] = NoRecord /\ \A u \in Threads \ {t} : rest[u] = hd[u]
  BY DEF Hands
<1>2. NoRecord \notin Records
  BY LogAssumption
<1> HIDE DEF rest
<1>3. \A u \in Threads \ {t} : hd[u] # hd[t]
  BY <1>2 DEF Apart
<1>4. \A u \in Threads : rest[u] \notin L \cup F \cup {hd[t]}
  BY <1>1, <1>2, <1>3 DEF Apart
<1>5. \A u, v \in Threads : rest[u] = rest[v] /\ rest[u] # NoRecord => u = v
  BY <1>1 DEF Apart
<1>6. \A r \in Records : (\E u \in Threads : hd[u] = r) <=>
                         (r = hd[t] \/ \E u \in Threads : rest[u] = r)
  BY <1>1, <1>2
<1>7. hd[t] \notin L \cup F /\ hd[t] \in A
  BY DEF Apart
<1>8. Apart(L \cup {hd[t]}, F, rest, A)
  BY <1>4, <1>5, <1>6, <1>7 DEF Apart
<1>9. Apart(L, F \cup {hd[t]}, rest, A)
  BY <1>4, <1>5, <1>6, <1>7 DEF Apart
<1>10. Apart(L, F, rest, A \ {hd[t]})
  BY <1>4, <1>5, <1>6, <1>7 DEF Apart
<1> QED
  BY <1>8, <1>9, <1>10 DEF rest

\* What comes into empty hands comes from the line, from the free list or is new.
LEMMA Takes ==
  ASSUME NEW L \in SUBSET Records, NEW F \in SUBSET Records, NEW A \in SUBSET Records,
         NEW hd \in Hands, NEW t \in Threads, hd[t] = NoRecord, Apart(L, F, hd, A),
         NEW r \in Records
  PROVE  LET held == [hd EXCEPT ![t] = r]
         IN  /\ r \in L => Apart(L \ {r}, F, held, A)
             /\ r \in F => Apart(L, F \ {r}, held, A)
             /\ r \notin A => Apart(L, F, held, A \cup {r})
<1> DEFINE held == [hd EXCEPT ![t] = r]
<1>1. held[t] = r /\ \A u \in Threads \ {t} : held[u] = hd[u]
  BY DEF Hands
<1>2. NoRecord \notin Records
  BY LogAssumption
<1> HIDE DEF held
<1>3. \A q \in Records : (\E u \in Threads : held[u] = q) <=>
                         (q = r \/ \E u \in Threads : hd[u] = q)
  BY <1>1, <1>2
<1>4. ASSUME \A u \in Threads : hd[u] # r
      PROVE  \A u, v \in Threads : held[u] = held[v] /\ held[u] # NoRecord => u = v
  BY <1>1, <1>4 DEF Apart
<1>5. r \in L \cup F \/ r \notin A => \A u \in Threads : hd[u] # r
  BY DEF Apart
<1>6. ASSUME r \in L PROVE Apart(L \ {r}, F, held, A)
  BY <1>1, <1>3, <1>4, <1>5, <1>6 DEF Apart
<1>7. ASSUME r \in F PROVE Apart(L, F \ {r}, held, A)
  BY <1>1, <1>3, <1>4, <1>5, <1>7 DEF Apart
<1>8. ASSUME r \notin A PROVE Apart(L, F, held, A \cup {r})
  BY <1>1, <1>3, <1>4, <1>5, <1>8 DEF Apart
<1> QED
  BY <1>6, <1>7, <1>8 DEF held

\* A thread that is not on its way with a record holds none.
EmptyHanded == \A t \in Threads : pc[t] \notin WithRecord => hand[t] = NoRecord

\* Before start() and while stop() empties the free list the logger's thread does not run.
Phases ==
  /\ mpc = "init" => pc[Log4z] = "none"
  /\ mpc \in {"draining", "popping"} => pc[Log4z] = "ended"

Free == Range(_freeLogDatas)

\* Between DrainDeletes and DrainPops the last entry of the free list is deleted already.
Allocated == IF mpc = "popping" THEN heap \cup {Last(_freeLogDatas)} ELSE heap

Owned ==
  /\ Distinct(Line) /\ Distinct(_freeLogDatas)
  /\ Apart(Range(Line), Free, hand, Allocated)
  /\ mpc = "popping" => _freeLogDatas # <<>> /\ Last(_freeLogDatas) \notin heap

Quiet == TypeInv /\ StoppedIdle /\ EmptyHanded /\ Phases

LEMMA PlaceTypes ==
  ASSUME TypeInv
  PROVE  /\ Range(Line) \subseteq Records /\ Free \subseteq Records
         /\ heap \subseteq Records /\ hand \in Hands
<1>1. \A s \in Seq(Records) : Range(s) \subseteq Records
  BY ElementOfSeq, LenProperties DEF Range
<1>2. Line \in Seq(Records)
  BY LineType DEF TypeInv
<1> QED
  BY <1>1, <1>2 DEF TypeInv, TypeOK, Free, Hands

\* No thread but the one in stop() takes a step while the free list is emptied.
LEMMA OnlyMain ==
  ASSUME Quiet, mpc \in {"draining", "popping"}
  PROVE  /\ \A p \in Producers : ~ProducerStep(p)
         /\ \A t \in Threads : ~RecordStep(t)
         /\ ~LoggerStep
<1>1. pc[Log4z] = "ended" /\ ~_runing /\ Idle
  BY DEF Quiet, Phases, StoppedIdle
<1>2. \A p \in Producers : ~ProducerStep(p)
  BY <1>1, LogAssumption
  DEF Quiet, TypeInv, Idle, TypeOK, ProducerStep, PrePushLog, Make, EnableLogger, HotChange,
      HotChangePushes, NextCall
<1>3. \A t \in Threads : ~RecordStep(t)
  BY <1>1 DEF Idle, Threads, RecordStep, PushLogTests, PushLog, FreeLogData, FreeLogDataKeeps
<1>4. ~LoggerStep
  BY <1>1
  DEF LoggerStep, RunStarts, Announces, PopLog, OnHotChange, WriteLog, RunSleeps, RunWakes
<1> QED
  BY <1>2, <1>3, <1>4

LEMMA InitQuiet == Init => Quiet
<1> SUFFICES ASSUME Init PROVE EmptyHanded /\ Phases
  BY InitType, InitStopped DEF Quiet
<1> QED
  BY DEF Init, EmptyHanded, Phases, Threads

\* A thread that fills its record takes it into empty hands.
LEMMA FillsEmpty ==
  ASSUME Quiet, NEW t \in Threads, NEW r \in Records, NEW c, NEW at \in WithRecord,
         Filled(t, r, c), Goes(t, at)
  PROVE  EmptyHanded'
BY DEF Quiet, TypeInv, TypeOK, EmptyHanded, Filled, Goes

LEMMA EmptyHandedStep ==
  ASSUME Quiet, [Next]_vars
  PROVE  EmptyHanded'
<1> USE DEF Quiet, TypeInv, TypeOK, EmptyHanded, WithRecord
<1>0. Log4z \in Threads /\ Producers \subseteq Threads
  BY DEF Threads
<1>1. CASE UNCHANGED vars
  BY <1>1 DEF vars
<1>2. ASSUME NEW t \in Threads, RecordStep(t) PROVE EmptyHanded'
  BY <1>2
  DEF RecordStep, PushLogTests, PushLog, Enqueued, FreeLogData, FreeLogDataKeeps, Goes,
      Resumes
<1>3. ASSUME NEW p \in Producers, ProducerStep(p) PROVE EmptyHanded'
  <2>1. CASE PrePushLog(p) \/ EnableLogger(p)
    BY <1>0, <2>1 DEF PrePushLog, EnableLogger, NextCall, Goes
  <2>2. ASSUME NEW r \in Records, Make(p, r) PROVE EmptyHanded'
    <3> HIDE DEF EmptyHanded, Quiet
    <3> QED
      BY <1>0, <2>2, FillsEmpty DEF Make
  <2>3. CASE HotChange(p)
    <3> HIDE DEF EmptyHanded, Quiet
    <3>1. CASE UNCHANGED <<pc, hand>>
      BY <3>1 DEF EmptyHanded, Quiet
    <3>2. CASE ~UNCHANGED <<pc, hand>>
      BY <1>0, <2>3, <3>2, FillsEmpty DEF HotChange
    <3> QED
      BY <3>1, <3>2
  <2>4. CASE HotChangePushes(p)
    BY <1>0, <2>4 DEF HotChangePushes, Enqueued, Goes, Resumes
  <2> QED
    BY <1>3, <2>1, <2>2, <2>3, <2>4 DEF ProducerStep
<1>4. CASE LoggerStep
  <2>1. CASE Announces
    <3>1. CASE UNCHANGED hand
      BY <1>0, <2>1, <3>1 DEF Announces, Goes
    <3>2. ASSUME NEW r \in Records, Filled(Log4z, r, Blank), Goes(Log4z, "made")
          PROVE EmptyHanded'
      <4> HIDE DEF EmptyHanded, Quiet
      <4> QED
        BY <1>0, <3>2, FillsEmpty
    <3> QED
      BY <2>1, <3>1, <3>2 DEF Announces
  <2>2. CASE PopLog
    BY <1>0, <2>2 DEF PopLog, Goes
  <2>3. CASE RunStarts \/ OnHotChange \/ WriteLog \/ RunSleeps \/ RunWakes
    BY <1>0, <2>3 DEF RunStarts, OnHotChange, WriteLog, RunSleeps, RunWakes, Goes
  <2> QED
    BY <1>4, <2>1, <2>2, <2>3 DEF LoggerStep
<1>5. CASE MainStep
  <2>1. CASE Start
    BY <1>0, <2>1 DEF Start, Goes, Phases
  <2>2. CASE ~Start
    BY <1>5, <2>2
    DEF MainStep, StartReturns, Stop, Joins, DrainDeletes, DrainPops, StopReturns, memVars
  <2> QED
    BY <2>1, <2>2
<1> QED
  BY <1>1, <1>2, <1>3, <1>4, <1>5 DEF Next

LEMMA PhasesStep ==
  ASSUME Quiet, [Next]_vars
  PROVE  Phases'
<1> USE DEF Quiet, TypeInv, TypeOK, Phases
<1>0. Log4z \in Threads
  BY DEF Threads
<1>1. CASE UNCHANGED vars
  BY <1>1 DEF vars
<1>2. CASE UNCHANGED mpc
  <2>1. ASSUME Next PROVE pc[Log4z] \in {"none", "ended"} => pc'[Log4z] = pc[Log4z]
    <3>1. ASSUME NEW t \in Threads, RecordStep(t)
          PROVE  pc[Log4z] \in {"none", "ended"} => pc'[Log4z] = pc[Log4z]
      BY <1>0, <3>1
      DEF RecordStep, PushLogTests, PushLog, Enqueued, FreeLogData, FreeLogDataKeeps, Goes
    <3>2. ASSUME NEW p \in Producers, ProducerStep(p) PROVE pc'[Log4z] = pc[Log4z]
      BY <3>2, ProducerLeaves
    <3>3. ASSUME LoggerStep PROVE pc[Log4z] \notin {"none", "ended"}
      BY <3>3
      DEF LoggerStep, RunStarts, Announces, PopLog, OnHotChange, WriteLog, RunSleeps,
          RunWakes
    <3>4. ~MainStep
      BY <1>2
      DEF MainStep, Start, StartReturns, Stop, Joins, DrainDeletes, DrainPops, StopReturns
    <3> QED
      BY <2>1, <3>1, <3>2, <3>3, <3>4 DEF Next
  <2> QED
    BY <1>1, <1>2, <2>1
<1>3. CASE MainStep
  BY <1>0, <1>3
  DEF MainStep, Start, StartReturns, Stop, Joins, DrainDeletes, DrainPops, StopReturns, Goes
<1>4. ASSUME Next, ~MainStep PROVE UNCHANGED mpc
  BY <1>4
  DEF Next, ProducerStep, PrePushLog, Make, EnableLogger, HotChange, HotChangePushes,
      RecordStep, PushLogTests, PushLog, FreeLogData, FreeLogDataKeeps, LoggerStep,
      RunStarts, Announces, PopLog, OnHotChange, WriteLog, RunSleeps, RunWakes
<1> QED
  BY <1>1, <1>2, <1>3, <1>4

LEMMA QuietStep ==
  ASSUME StopWhenIdle, Quiet, [Next]_vars
  PROVE  Quiet'
BY StepType, StepStopped, EmptyHandedStep, PhasesStep DEF Quiet

\* A step that touches neither the queue nor the memory.
LEMMA OwnedStays ==
  ASSUME Owned, UNCHANGED <<_logs, _logsCache, _freeLogDatas, heap, hand>>,
         mpc' = "popping" <=> mpc = "popping"
  PROVE  Owned'
BY DEF Owned, Line, Free, Allocated

\* A thread that makes a record becomes its owner.
LEMMA Owns ==
  ASSUME Quiet, Owned, mpc # "popping", mpc' = mpc, NEW t \in Threads, hand[t] = NoRecord,
         NEW r \in Records, MakeLogData(r), hand' = [hand EXCEPT ![t] = r],
         UNCHANGED <<_logs, _logsCache>>
  PROVE  Owned'
<1>1. /\ Range(Line) \subseteq Records /\ Free \subseteq Records
      /\ heap \subseteq Records /\ hand \in Hands /\ Apart(Range(Line), Free, hand, heap)
  BY PlaceTypes DEF Quiet, Owned, Allocated
<1>2. Line' = Line /\ Distinct(Line)
  BY DEF Line, Owned
<1>3. CASE _freeLogDatas # <<>> /\ r = Last(_freeLogDatas)
           /\ _freeLogDatas' = Front(_freeLogDatas) /\ UNCHANGED heap
  <2>1. /\ Last(_freeLogDatas) \in Free
        /\ Distinct(_freeLogDatas') /\ Free' = Free \ {r}
    BY <1>3, FrontElems DEF Quiet, TypeInv, TypeOK, Owned, Free
  <2>2. Apart(Range(Line), Free \ {r}, hand', heap)
    BY <1>1, <1>3, <2>1, Takes
  <2> QED
    BY <1>2, <1>3, <2>1, <2>2 DEF Owned, Allocated
<1>4. CASE r \notin heap /\ heap' = heap \cup {r} /\ UNCHANGED _freeLogDatas
  <2>1. Apart(Range(Line), Free, hand', heap')
    BY <1>1, <1>4, Takes
  <2> QED
    BY <1>2, <1>4, <2>1 DEF Owned, Allocated, Free
<1> QED
  BY <1>3, <1>4 DEF MakeLogData

\* A record that is pushed passes from its thread to the line.
LEMMA OwnedPush ==
  ASSUME Quiet, Owned, mpc # "popping", mpc' = mpc, NEW t \in Threads, hand[t] \in Records,
         Enqueued(t), UNCHANGED <<_logsCache, _freeLogDatas, heap>>
  PROVE  Owned' /\ Line' = Append(Line, hand[t])
<1>1. /\ Range(Line) \subseteq Records /\ Free \subseteq Records
      /\ heap \subseteq Records /\ hand \in Hands /\ Apart(Range(Line), Free, hand, heap)
  BY PlaceTypes DEF Quiet, Owned, Allocated
<1>2. Line' = Append(Line, hand[t])
  BY LineGrows DEF Enqueued, Quiet, TypeInv
<1>3. Line \in Seq(Records)
  BY LineType DEF Quiet, TypeInv
<1>4. hand[t] \notin Range(Line)
  BY <1>1 DEF Apart
<1>5. Range(Line') = Range(Line) \cup {hand[t]} /\ Distinct(Line')
  BY <1>2, <1>3, <1>4, AppendElems DEF Owned
<1>6. Apart(Range(Line) \cup {hand[t]}, Free, [hand EXCEPT ![t] = NoRecord], heap)
  BY <1>1, Gives
<1>7. Apart(Range(Line'), Free, hand', heap)
  BY <1>5, <1>6 DEF Enqueued
<1> QED
  BY <1>2, <1>5, <1>7 DEF Owned, Allocated, Free

\* A record that is freed passes to the free list or goes.
LEMMA OwnedFree ==
  ASSUME Quiet, Owned, mpc # "popping", NEW t \in Threads,
         FreeLogData(t) \/ FreeLogDataKeeps(t)
  PROVE  Owned'
<1> USE DEF Quiet, TypeInv, TypeOK
<1>1. /\ Range(Line) \subseteq Records /\ Free \subseteq Records
      /\ heap \subseteq Records /\ hand \in Hands /\ Apart(Range(Line), Free, hand, heap)
  BY PlaceTypes DEF Owned, Allocated
<1>2. hand[t] \in Records
  BY DEF HoldsRecord, WithRecord, FreeLogData, FreeLogDataKeeps
<1>3. CASE FreeLogData(t) /\ KeepsRecord
  BY <1>3, OwnedStays DEF FreeLogData, setVars, queueVars
<1>4. CASE FreeLogData(t) /\ ~KeepsRecord
  <2>1. Apart(Range(Line), Free, [hand EXCEPT ![t] = NoRecord], heap \ {hand[t]})
    BY <1>1, <1>2, Gives
  <2>2. Apart(Range(Line), Free, hand', heap')
    BY <1>4, <2>1 DEF FreeLogData
  <2> QED
    BY <1>4, <2>2 DEF FreeLogData, queueVars, Owned, Line, Free, Allocated
<1>5. CASE FreeLogDataKeeps(t)
  <2>1. hand[t] \notin Free
    BY <1>1 DEF Apart
  <2>2. Free' = Free \cup {hand[t]} /\ Distinct(_freeLogDatas')
    BY <1>2, <1>5, <2>1, AppendElems DEF FreeLogDataKeeps, Free, Owned
  <2>3. Apart(Range(Line), Free', hand', heap)
    BY <1>1, <1>2, <1>5, <2>2, Gives DEF FreeLogDataKeeps
  <2> QED
    BY <1>5, <2>2, <2>3 DEF FreeLogDataKeeps, queueVars, Owned, Line, Allocated
<1> QED
  BY <1>3, <1>4, <1>5

\* The record that is popped passes from the line to the logger's thread.
LEMMA OwnedPop ==
  ASSUME Quiet, Owned, mpc # "popping", PopLog
  PROVE  Owned'
<1>1. /\ Range(Line) \subseteq Records /\ Free \subseteq Records
      /\ heap \subseteq Records /\ hand \in Hands /\ Apart(Range(Line), Free, hand, heap)
  BY PlaceTypes DEF Quiet, Owned, Allocated
<1>2. /\ Line # <<>> /\ hand' = [hand EXCEPT ![Log4z] = Head(Line)]
      /\ Line' = Tail(Line)
  BY LineShrinks DEF Quiet, TypeInv
<1>3. Line \in Seq(Records) /\ Log4z \in Threads /\ hand[Log4z] = NoRecord
  BY LineType DEF Quiet, TypeInv, Threads, EmptyHanded, WithRecord, PopLog
<1>4. /\ Head(Line) \in Range(Line)
      /\ Distinct(Line') /\ Range(Line') = Range(Line) \ {Head(Line)}
  BY <1>2, <1>3, TailElems DEF Owned
<1>5. Apart(Range(Line) \ {Head(Line)}, Free, [hand EXCEPT ![Log4z] = Head(Line)], heap)
  BY <1>1, <1>3, <1>4, Takes
<1>6. Apart(Range(Line'), Free, hand', heap)
  BY <1>2, <1>4, <1>5
<1> QED
  BY <1>4, <1>6 DEF Owned, Allocated, Free, PopLog, memVars

\* stop() empties the free list, one record after the other.
LEMMA OwnedMain ==
  ASSUME Quiet, Owned, MainStep
  PROVE  Owned'
<1>1. CASE Start \/ StartReturns \/ Stop \/ Joins \/ StopReturns
  BY <1>1, OwnedStays
  DEF Start, StartReturns, Stop, Joins, StopReturns, memVars, queueVars, setVars
<1>2. CASE DrainDeletes
  <2>1. Last(_freeLogDatas) \in Free
    BY <1>2, FrontElems DEF DrainDeletes, Quiet, TypeInv, TypeOK, Free
  <2>2. Free \subseteq Records
    BY PlaceTypes DEF Quiet
  <2>3. Last(_freeLogDatas) \in heap
    BY <1>2, <2>1, <2>2 DEF DrainDeletes, Owned, Allocated, Apart
  <2>4. heap' \cup {Last(_freeLogDatas)} = heap
    BY <1>2, <2>3 DEF DrainDeletes
  <2> QED
    BY <1>2, <2>4 DEF DrainDeletes, queueVars, Owned, Line, Free, Allocated
<1>3. CASE DrainPops
  <2>1. _freeLogDatas # <<>> /\ Last(_freeLogDatas) \notin heap
    BY <1>3 DEF DrainPops, Owned
  <2>2. /\ Last(_freeLogDatas) \in Free
        /\ Distinct(Front(_freeLogDatas))
        /\ Range(Front(_freeLogDatas)) = Free \ {Last(_freeLogDatas)}
    BY <2>1, FrontElems DEF Quiet, TypeInv, TypeOK, Owned, Free
  <2>3. Apart(Range(Line), Free, hand, heap \cup {Last(_freeLogDatas)})
    BY <1>3 DEF DrainPops, Owned, Allocated
  <2>4. Apart(Range(Line), Free \ {Last(_freeLogDatas)}, hand, heap)
    BY <2>1, <2>2, <2>3 DEF Apart
  <2> QED
    BY <1>3, <2>1, <2>2, <2>4 DEF DrainPops, queueVars, Owned, Line, Free, Allocated
<1> QED
  BY <1>1, <1>2, <1>3 DEF MainStep

LEMMA OwnedStep ==
  ASSUME Quiet, Owned, [Next]_vars
  PROVE  Owned'
<1> USE DEF Quiet, TypeInv, TypeOK
<1>0. Log4z \in Threads /\ Producers \subseteq Threads
  BY DEF Threads
<1>1. CASE UNCHANGED vars
  BY <1>1, OwnedStays DEF vars, queueVars, memVars
<1>2. CASE MainStep
  BY <1>2, OwnedMain
<1>3. ASSUME NEW t \in Threads, RecordStep(t) PROVE Owned'
  <2>1. mpc # "popping"
    BY <1>3, OnlyMain
  <2>2. CASE PushLogTests(t)
    BY <2>2, OwnedStays DEF PushLogTests, queueVars, memVars
  <2>3. CASE PushLog(t)
    <3>1. hand[t] \in Records
      BY <2>3 DEF HoldsRecord, WithRecord, PushLog
    <3> QED
      BY <2>1, <2>3, <3>1, OwnedPush DEF PushLog, memVars
  <2> QED
    BY <1>3, <2>1, <2>2, <2>3, OwnedFree DEF RecordStep
<1>4. ASSUME NEW p \in Producers, ProducerStep(p) PROVE Owned'
  <2>1. mpc # "popping"
    BY <1>4, OnlyMain
  <2>2. CASE PrePushLog(p) \/ EnableLogger(p)
    BY <2>2, OwnedStays DEF PrePushLog, EnableLogger, queueVars, memVars
  <2>3. ASSUME NEW r \in Records, Make(p, r) PROVE Owned'
    <3>1. hand[p] = NoRecord
      BY <1>0, <2>3 DEF Make, EmptyHanded, WithRecord
    <3> QED
      BY <1>0, <2>1, <2>3, <3>1, Owns DEF Make, Filled, queueVars
  <2>4. CASE HotChange(p)
    <3>1. CASE UNCHANGED <<memVars, pc, hand>>
      BY <2>4, <3>1, OwnedStays DEF HotChange, queueVars, memVars
    <3>2. ASSUME NEW r \in Records, MakeLogData(r), Filled(p, r, ThisCall(p, "disable"))
          PROVE  Owned'
      <4>1. hand[p] = NoRecord
        BY <1>0, <2>4 DEF HotChange, NextCall, EmptyHanded, WithRecord
      <4> QED
        BY <1>0, <2>1, <2>4, <3>2, <4>1, Owns DEF HotChange, Filled, queueVars
    <3> QED
      BY <2>4, <3>1, <3>2 DEF HotChange
  <2>5. CASE HotChangePushes(p)
    <3>1. hand[p] \in Records
      BY <1>0, <2>5 DEF HoldsRecord, WithRecord, HotChangePushes
    <3> QED
      BY <1>0, <2>1, <2>5, <3>1, OwnedPush DEF HotChangePushes, memVars
  <2> QED
    BY <1>4, <2>2, <2>3, <2>4, <2>5 DEF ProducerStep
<1>5. CASE LoggerStep
  <2>1. mpc # "popping"
    BY <1>5, OnlyMain
  <2>2. CASE Announces
    <3>1. CASE UNCHANGED <<memVars, hand>>
      BY <2>2, <3>1, OwnedStays DEF Announces, queueVars, memVars
    <3>2. ASSUME NEW r \in Records, MakeLogData(r), Filled(Log4z, r, Blank)
          PROVE  Owned'
      <4>1. hand[Log4z] = NoRecord
        BY <1>0, <2>2 DEF Announces, EmptyHanded, WithRecord
      <4> QED
        BY <1>0, <2>1, <2>2, <3>2, <4>1, Owns DEF Announces, Filled, queueVars
    <3> QED
      BY <2>2, <3>1, <3>2 DEF Announces
  <2>3. CASE PopLog
    BY <2>1, <2>3, OwnedPop
  <2>4. CASE RunStarts \/ OnHotChange \/ WriteLog \/ RunSleeps \/ RunWakes
    BY <2>4, OwnedStays
    DEF RunStarts, OnHotChange, WriteLog, RunSleeps, RunWakes, queueVars, memVars
  <2> QED
    BY <1>5, <2>2, <2>3, <2>4 DEF LoggerStep
<1> QED
  BY <1>1, <1>2, <1>3, <1>4, <1>5 DEF Next

LEMMA InitOwned == Init => Owned
<1> SUFFICES ASSUME Init PROVE Owned
  OBVIOUS
<1>1. Line = <<>> /\ Distinct(<<>>) /\ Range(<<>>) = {}
  <2>1. Line = <<>>
    BY ConcatEmptySeq, EmptySeq DEF Init, Line
  <2> QED
    BY <2>1 DEF Distinct, Range
<1>2. hand = [t \in Threads |-> NoRecord] /\ heap = {} /\ _freeLogDatas = <<>>
      /\ mpc = "init"
  BY DEF Init
<1>3. Apart({}, {}, hand, {})
  BY <1>2, LogAssumption DEF Apart
<1> QED
  BY <1>1, <1>2, <1>3 DEF Owned, Free, Allocated

\* One owner, one place.
LEMMA PlacesCount ==
  ASSUME Quiet, Owned, mpc # "popping", NEW r \in Records
  PROVE  PlacesOf(r) = IF r \in heap THEN 1 ELSE 0
<1> DEFINE once(c) == IF c THEN 1 ELSE 0
           held == \E t \in Threads : hand[t] = r
<1>1. /\ Distinct(_logs) /\ Distinct(_logsCache) /\ Distinct(_freeLogDatas)
      /\ Range(_logs) \cap Range(_logsCache) = {}
      /\ Range(Line) = Range(_logs) \cup Range(_logsCache)
  BY LineParts DEF Quiet, TypeInv, Owned
<1>2. /\ _logs \in Seq(Records) /\ _logsCache \in Seq(Records)
      /\ _freeLogDatas \in Seq(Records)
  BY DEF Quiet, TypeInv, TypeOK
<1>3. Cardinality({i \in 1..Len(_logs) : _logs[i] = r}) = once(r \in Range(_logs))
  BY <1>1, <1>2, OccursOnce
<1>4. Cardinality({i \in 1..Len(_logsCache) : _logsCache[i] = r}) = once(r \in Range(_logsCache))
  BY <1>1, <1>2, OccursOnce
<1>5. Cardinality({i \in 1..Len(_freeLogDatas) : _freeLogDatas[i] = r}) = once(r \in Free)
  BY <1>1, <1>2, OccursOnce DEF Free
<1>6. Cardinality({t \in Threads : hand[t] = r}) = once(held)
  <2>1. CASE held
    <3>1. PICK t \in Threads : hand[t] = r
      BY <2>1
    <3>2. {u \in Threads : hand[u] = r} = {t}
      BY <3>1, LogAssumption DEF Owned, Apart
    <3> QED
      BY <2>1, <3>2, FS_Singleton
  <2>2. CASE ~held
    <3>1. {u \in Threads : hand[u] = r} = {}
      BY <2>2
    <3> QED
      BY <2>2, <3>1, FS_EmptySet
  <2> QED
    BY <2>1, <2>2
<1>7. /\ r \in heap <=> \/ r \in Range(_logs) \/ r \in Range(_logsCache)
                        \/ r \in Free \/ held
      /\ ~(r \in Range(Line) /\ r \in Free)
      /\ held => r \notin Range(Line) /\ r \notin Free
  BY <1>1 DEF Owned, Apart, Allocated
<1>8. PlacesOf(r) = once(r \in Range(_logs)) + once(r \in Range(_logsCache))
                      + once(r \in Free) + once(held)
  BY <1>3, <1>4, <1>5, <1>6 DEF PlacesOf
<1> HIDE DEF held
<1> QED
  BY <1>1, <1>7, <1>8

\* When the threads that log end before the logger is stopped, as the program's do, every
\* allocated record is in exactly one place at all times (makeLogData, pushLog, popLog,
\* freeLogData, stop): no record is leaked, used by two threads or deleted twice.
THEOREM RecordsHaveOnePlace ==
  ASSUME StopWhenIdle
  PROVE  Spec => []OnePlace
<1> DEFINE Inv == Quiet /\ Owned
<1>1. Init => Inv
  BY InitQuiet, InitOwned
<1>2. Inv /\ [Next]_vars => Inv'
  BY QuietStep, OwnedStep
<1>3. Inv => OnePlace
  BY PlacesCount DEF OnePlace
<1> QED
  BY <1>1, <1>2, <1>3, PTL DEF Spec

-----------------------------------------------------------------------------
(***************************************************************************)
(* The records of a thread stay in order                                   *)
(***************************************************************************)
Older(a, b) == a.by = b.by => a.n < b.n

\* The call that c is of has been made: when threads are at the places at and have begun
\* the calls made, what they will push from now on is of later calls.
PastAt(c, at, made) ==
  IF c.by = Log4z THEN at[Log4z] \notin {"none", "start", "announce", "made", "pushing"}
  ELSE /\ c.n <= made[c.by]
       /\ at[c.by] \in {"checked", "made", "pushing", "hotpush"} => c.n < made[c.by]

Past(c) == PastAt(c, pc, calls)

\* What thread t holds when it is about to push.
Current(t, what) == [by |-> t, n |-> IF t = Log4z THEN 0 ELSE calls[t], what |-> what]

Making ==
  \A t \in Threads :
    /\ pc[t] \in {"made", "pushing"} => content[hand[t]] = Current(t, "log")
    /\ t \in Producers /\ pc[t] = "hotpush" => content[hand[t]] = Current(t, "disable")

\* First comes what is written, then what the logger's thread holds, then the line.
Queued ==
  /\ \A i, j \in DOMAIN written : i < j => Older(written[i], written[j])
  /\ \A i, j \in DOMAIN Line : i < j => Older(content[Line[i]], content[Line[j]])
  /\ \A w \in Range(written), r \in Range(Line) : Older(w, content[r])
  /\ \A w \in Range(written) : Past(w)
  /\ \A r \in Range(Line) : Past(content[r])

Handled ==
  pc[Log4z] = "handle" =>
    /\ Past(content[hand[Log4z]])
    /\ \A w \in Range(written) : Older(w, content[hand[Log4z]])
    /\ \A r \in Range(Line) : Older(content[hand[Log4z]], content[r])

Ordered == Making /\ Queued /\ Handled

\* A call that has been made stays so.
LEMMA PastKept ==
  ASSUME Quiet, [Next]_vars, NEW c \in Contents, PastAt(c, pc, calls)
  PROVE  PastAt(c, pc', calls')
<1> USE DEF Quiet, TypeInv, TypeOK
<1>0. /\ Log4z \in Threads /\ Producers \subseteq Threads /\ Log4z \notin Producers
      /\ c.by \in Threads /\ c.n \in Nat
  BY ThreadAssumption DEF Threads, Contents
<1>1. CASE UNCHANGED vars
  BY <1>1 DEF vars
<1>2. ASSUME NEW t \in Threads, RecordStep(t) PROVE PastAt(c, pc', calls')
  <2>1. UNCHANGED calls
    BY <1>2 DEF RecordStep, PushLogTests, PushLog, FreeLogData, FreeLogDataKeeps
  <2>2. /\ \A u \in Threads \ {t} : pc'[u] = pc[u]
        /\ pc[t] \in {"made", "pushing", "discard", "keeping"}
        /\ pc'[t] \in {"pushing", "discard", "keeping", Resumes(t)}
        /\ pc'[t] = "pushing" => pc[t] = "made"
    <3>1. CASE PushLogTests(t)
      BY <3>1 DEF PushLogTests, Goes, Resumes
    <3>2. CASE PushLog(t)
      BY <3>2 DEF PushLog, Enqueued, Goes, Resumes
    <3>3. CASE FreeLogData(t)
      BY <3>3 DEF FreeLogData, Goes, Resumes
    <3>4. CASE FreeLogDataKeeps(t)
      BY <3>4 DEF FreeLogDataKeeps, Goes, Resumes
    <3> QED
      BY <1>2, <3>1, <3>2, <3>3, <3>4 DEF RecordStep
  <2> QED
    BY <1>0, <2>1, <2>2 DEF PastAt, Resumes
<1>3. ASSUME NEW p \in Producers, ProducerStep(p) PROVE PastAt(c, pc', calls')
  <2>1. \A u \in Threads \ {p} : pc'[u] = pc[u]
    BY <1>0, <1>3
    DEF ProducerStep, PrePushLog, Make, EnableLogger, HotChange, HotChangePushes, NextCall,
        Enqueued, Goes
  <2>2. CASE \E what \in Calls : NextCall(p, what)
    <3>1. calls[p] \in Nat /\ calls' = [calls EXCEPT ![p] = @ + 1]
      BY <2>2 DEF NextCall
    <3>2. \A q \in Producers \ {p} : calls'[q] = calls[q]
      BY <3>1
    <3>3. calls'[p] = calls[p] + 1
      BY <3>1
    <3>4. CASE c.by = p
      <4>1. c.n <= calls[p]
        BY <1>0, <3>4 DEF PastAt
      <4>2. c.n < calls'[p] /\ c.n <= calls'[p]
        BY <1>0, <3>1, <3>3, <4>1
      <4> QED
        BY <1>0, <3>4, <4>2 DEF PastAt
    <3>5. CASE c.by # p
      BY <1>0, <2>1, <3>2, <3>5 DEF PastAt, Threads
    <3> QED
      BY <3>4, <3>5
  <2>3. CASE (\E r \in Records : Make(p, r)) \/ HotChangePushes(p)
    <3>1. UNCHANGED calls /\ ((pc'[p] = "made" /\ pc[p] = "checked") \/ pc'[p] = "idle")
      BY <1>0, <2>3 DEF Make, HotChangePushes, Enqueued, Goes, Resumes
    <3> QED
      BY <1>0, <2>1, <3>1 DEF PastAt
  <2> QED
    BY <1>3, <2>2, <2>3 DEF ProducerStep, PrePushLog, EnableLogger, HotChange, Calls
<1>4. CASE LoggerStep
  <2>1. UNCHANGED calls /\ \A u \in Threads \ {Log4z} : pc'[u] = pc[u]
    BY <1>0, <1>4
    DEF LoggerStep, RunStarts, Announces, PopLog, OnHotChange, WriteLog, RunSleeps, RunWakes,
        Goes
  <2>2. pc[Log4z] \notin {"none", "start", "announce", "made", "pushing"} =>
          pc'[Log4z] \notin {"none", "start", "announce", "made", "pushing"}
    BY <1>0, <1>4
    DEF LoggerStep, RunStarts, Announces, PopLog, OnHotChange, WriteLog, RunSleeps, RunWakes,
        Goes
  <2> QED
    BY <1>0, <2>1, <2>2 DEF PastAt
<1>5. CASE MainStep
  <2>1. CASE Start
    <3>1. pc[Log4z] = "none" /\ UNCHANGED calls /\ \A u \in Threads \ {Log4z} : pc'[u] = pc[u]
      BY <2>1 DEF Start, Phases, Goes
    <3> QED
      BY <1>0, <3>1 DEF PastAt
  <2>2. CASE ~Start
    BY <1>5, <2>2
    DEF MainStep, StartReturns, Stop, Joins, DrainDeletes, DrainPops, StopReturns
  <2> QED
    BY <2>1, <2>2
<1> QED
  BY <1>1, <1>2, <1>3, <1>4, <1>5 DEF Next

\* The record that is made is nobody's, so that no other changes.
LEMMA OthersKept ==
  ASSUME Quiet, Owned, NEW t \in Threads, NEW r \in Records, NEW c, MakeLogData(r),
         Filled(t, r, c), mpc # "popping"
  PROVE  /\ r \notin Range(Line) /\ \A u \in Threads : hand[u] # r
         /\ \A x \in Records \ {r} : content'[x] = content[x]
         /\ content'[r] = c /\ hand'[t] = r
         /\ \A u \in Threads \ {t} : hand'[u] = hand[u]
<1>1. r \in Free \/ r \notin heap
  BY FrontElems DEF Quiet, TypeInv, TypeOK, MakeLogData, Free
<1>2. r \notin Range(Line) /\ \A u \in Threads : hand[u] # r
  BY <1>1 DEF Owned, Apart, Allocated
<1> QED
  BY <1>2 DEF Quiet, TypeInv, TypeOK, Filled

\* A thread that makes its record fills it with the call it is at.
LEMMA MakingFilled ==
  ASSUME Quiet, Owned, Making, NEW t \in Threads, NEW r \in Records, NEW c, NEW at,
         MakeLogData(r), Filled(t, r, c), Goes(t, at), mpc # "popping",
         \A u \in Producers \ {t} : calls'[u] = calls[u],
         \/ at = "made" /\ c = Current(t, "log")'
         \/ at = "hotpush" /\ c = Current(t, "disable")'
  PROVE  Making'
<1>1. pc'[t] = at /\ \A u \in Threads \ {t} : pc'[u] = pc[u]
  BY DEF Goes, Quiet, TypeInv, TypeOK
<1>2. /\ content'[r] = c /\ hand'[t] = r
      /\ \A u \in Threads \ {t} : hand'[u] = hand[u] /\ hand[u] # r
      /\ \A x \in Records \ {r} : content'[x] = content[x]
  BY OthersKept
<1>3. \A u \in Threads \ {t} : pc[u] \in WithRecord => content'[hand'[u]] = content[hand[u]]
  BY <1>2 DEF Quiet, TypeInv, HoldsRecord
<1> QED
  BY <1>1, <1>2, <1>3 DEF Making, Current, WithRecord, Threads

LEMMA MakingStep ==
  ASSUME Quiet, Owned, Making, [Next]_vars
  PROVE  Making'
<1> USE DEF Quiet, TypeInv, TypeOK
<1>0. Log4z \in Threads /\ Producers \subseteq Threads /\ Log4z \notin Producers
  BY ThreadAssumption DEF Threads
<1>1. CASE UNCHANGED vars
  BY <1>1 DEF vars, memVars, Making, Current
<1>2. ASSUME NEW t \in Threads, RecordStep(t) PROVE Making'
  <2>1. CASE PushLogTests(t)
    BY <2>1 DEF PushLogTests, memVars, Making, Current, Goes
  <2>2. CASE ~PushLogTests(t)
    <3>1. /\ UNCHANGED <<content, calls>> /\ pc'[t] \notin {"made", "pushing", "hotpush"}
          /\ \A u \in Threads \ {t} : pc'[u] = pc[u] /\ hand'[u] = hand[u]
      BY <1>2, <2>2
      DEF RecordStep, PushLog, Enqueued, FreeLogData, FreeLogDataKeeps, Goes, Resumes, memVars
    <3> QED
      BY <3>1 DEF Making, Current
  <2> QED
    BY <2>1, <2>2
<1>3. ASSUME NEW p \in Producers, ProducerStep(p) PROVE Making'
  <2>1. mpc # "popping"
    BY <1>3, OnlyMain
  <2>2. CASE \/ PrePushLog(p) \/ EnableLogger(p) \/ HotChangePushes(p)
             \/ HotChange(p) /\ UNCHANGED <<memVars, pc, hand>>
    <3>1. /\ UNCHANGED content /\ pc'[p] \notin {"made", "pushing", "hotpush"}
          /\ \A u \in Threads \ {p} : pc'[u] = pc[u] /\ hand'[u] = hand[u]
          /\ \A u \in Producers \ {p} : calls'[u] = calls[u]
      BY <1>0, <2>2
      DEF PrePushLog, EnableLogger, HotChangePushes, HotChange, NextCall, Enqueued, Goes,
          Resumes, memVars
    <3>2. ASSUME NEW u \in Threads, pc'[u] \in {"made", "pushing", "hotpush"}
          PROVE  /\ pc'[u] = pc[u] /\ hand'[u] = hand[u] /\ content' = content
                 /\ u \in Producers => calls'[u] = calls[u]
      BY <3>1, <3>2
    <3> QED
      BY <3>2 DEF Making, Current, Threads
  <2>3. ASSUME NEW r \in Records, Make(p, r) PROVE Making'
    <3>1. UNCHANGED calls /\ [by |-> p, n |-> calls[p], what |-> "log"] = Current(p, "log")'
      BY <1>0, <2>3 DEF Make, Current
    <3> QED
      BY <1>0, <2>1, <2>3, <3>1, MakingFilled DEF Make
  <2>4. ASSUME HotChange(p), NEW r \in Records, MakeLogData(r),
               Filled(p, r, ThisCall(p, "disable")), Goes(p, "hotpush")
        PROVE  Making'
    <3>1. \A u \in Producers \ {p} : calls'[u] = calls[u]
      BY <2>4 DEF HotChange, NextCall
    <3>2. ThisCall(p, "disable") = Current(p, "disable")'
      BY <1>0 DEF ThisCall, Current
    <3> QED
      BY <1>0, <2>1, <2>4, <3>1, <3>2, MakingFilled
  <2> QED
    BY <1>3, <2>2, <2>3, <2>4 DEF ProducerStep, HotChange
<1>4. CASE LoggerStep
  <2>1. mpc # "popping" /\ UNCHANGED calls
    BY <1>4, OnlyMain
    DEF LoggerStep, RunStarts, Announces, PopLog, OnHotChange, WriteLog, RunSleeps, RunWakes
  <2>2. ASSUME NEW r \in Records, MakeLogData(r), Filled(Log4z, r, Blank), Goes(Log4z, "made")
        PROVE  Making'
    <3>1. Blank = Current(Log4z, "log")'
      BY DEF Blank, Current
    <3> QED
      BY <1>0, <2>1, <2>2, <3>1, MakingFilled
  <2>3. CASE /\ UNCHANGED content /\ pc'[Log4z] \notin {"made", "pushing", "hotpush"}
             /\ \A u \in Threads \ {Log4z} : pc'[u] = pc[u] /\ hand'[u] = hand[u]
    BY <2>1, <2>3 DEF Making, Current
  <2>4. CASE Announces
    <3>1. CASE UNCHANGED <<memVars, hand>> /\ Goes(Log4z, "loop")
      BY <1>0, <2>3, <3>1 DEF memVars, Goes
    <3> QED
      BY <2>2, <2>4, <3>1 DEF Announces
  <2>5. CASE RunStarts \/ PopLog \/ OnHotChange \/ WriteLog \/ RunSleeps \/ RunWakes
    BY <1>0, <2>3, <2>5
    DEF RunStarts, PopLog, OnHotChange, WriteLog, RunSleeps, RunWakes, Goes, memVars
  <2> QED
    BY <1>4, <2>4, <2>5 DEF LoggerStep
<1>5. CASE MainStep
  <2>1. CASE Start
    BY <1>0, <2>1 DEF Start, Goes, Making, Current, memVars
  <2>2. CASE ~Start
    BY <1>5, <2>2
    DEF MainStep, StartReturns, Stop, Joins, DrainDeletes, DrainPops, StopReturns, memVars,
        Making, Current
  <2> QED
    BY <2>1, <2>2
<1> QED
  BY <1>1, <1>2, <1>3, <1>4, <1>5 DEF Next

LEMMA HeldContents ==
  ASSUME Quiet
  PROVE  /\ \A w \in Range(written) : w \in Contents
         /\ \A x \in Range(Line) : x \in Records /\ content[x] \in Contents
         /\ pc[Log4z] = "handle" => content[hand[Log4z]] \in Contents
<1>1. \A w \in Range(written) : w \in Contents
  BY ElementOfSeq, LenProperties DEF Quiet, TypeInv, TypeOK, Range
<1>2. Range(Line) \subseteq Records
  BY PlaceTypes DEF Quiet
<1>3. pc[Log4z] = "handle" => hand[Log4z] \in Records
  BY DEF Quiet, TypeInv, HoldsRecord, WithRecord, Threads
<1> QED
  BY <1>1, <1>2, <1>3 DEF Quiet, TypeInv, TypeOK

\* A step that moves no record of the line and writes nothing.
LEMMA QueuedStays ==
  ASSUME Quiet, Queued, Handled, [Next]_vars, written' = written, Line' = Line,
         \A x \in Range(Line) : content'[x] = content[x],
         pc'[Log4z] = "handle" => /\ pc[Log4z] = "handle" /\ hand'[Log4z] = hand[Log4z]
                                  /\ content'[hand[Log4z]] = content[hand[Log4z]]
  PROVE  Queued' /\ Handled'
<1>1. /\ \A w \in Range(written) : w \in Contents
      /\ \A x \in Range(Line) : x \in Records /\ content[x] \in Contents
      /\ pc[Log4z] = "handle" => content[hand[Log4z]] \in Contents
  BY HeldContents
<1>2. \A c \in Contents : PastAt(c, pc, calls) => PastAt(c, pc', calls')
  BY PastKept
<1>3. \A i \in DOMAIN Line : Line[i] \in Range(Line)
  BY DEF Range
<1>4. Queued'
  <2>1. \A i, j \in DOMAIN written' : i < j => Older(written'[i], written'[j])
    BY DEF Queued
  <2>2. \A i, j \in DOMAIN Line' : i < j => Older(content'[Line'[i]], content'[Line'[j]])
    BY <1>3 DEF Queued
  <2>3. \A w \in Range(written'), r \in Range(Line') : Older(w, content'[r])
    BY DEF Queued
  <2>4. /\ \A w \in Range(written') : PastAt(w, pc', calls')
        /\ \A r \in Range(Line') : PastAt(content'[r], pc', calls')
    BY <1>1, <1>2 DEF Queued, Past
  <2> QED
    BY <2>1, <2>2, <2>3, <2>4 DEF Queued, Past
<1>5. Handled'
  BY <1>1, <1>2 DEF Handled, Past
<1> QED
  BY <1>4, <1>5

\* What a thread pushes is younger than what it has pushed before.
LEMMA QueuedPush ==
  ASSUME Quiet, Owned, Ordered, [Next]_vars, NEW t \in Threads,
         pc[t] = "pushing" \/ (t \in Producers /\ pc[t] = "hotpush"),
         Enqueued(t), UNCHANGED <<_logsCache, written, content, calls>>
  PROVE  Queued' /\ Handled'
<1> DEFINE h == hand[t]
           n == Len(Line)
<1>0. /\ Log4z \in Threads /\ Producers \subseteq Threads /\ Log4z \notin Producers
      /\ calls \in [Producers -> Nat]
  BY ThreadAssumption DEF Threads, Quiet, TypeInv, TypeOK
<1>1. h \in Records /\ (content[h] = Current(t, "log") \/ content[h] = Current(t, "disable"))
  BY DEF Ordered, Making, Quiet, TypeInv, HoldsRecord, WithRecord
<1>2. pc'[t] = Resumes(t) /\ \A u \in Threads \ {t} : pc'[u] = pc[u] /\ hand'[u] = hand[u]
  BY DEF Enqueued, Goes, Quiet, TypeInv, TypeOK
<1>3. \A c \in Contents : PastAt(c, pc, calls) => Older(c, content[h])
  <2> SUFFICES ASSUME NEW c \in Contents, PastAt(c, pc, calls), c.by = t
               PROVE  c.n < content[h].n
    BY <1>1 DEF Older, Current
  <2>1. t \in Producers
    BY <1>0 DEF PastAt, Threads
  <2> QED
    BY <1>0, <1>1, <2>1 DEF PastAt, Current
<1>4. PastAt(content[h], pc', calls')
  <2>1. CASE t = Log4z
    BY <1>1, <1>2, <2>1 DEF Current, PastAt, Resumes
  <2>2. CASE t \in Producers
    BY <1>0, <1>1, <1>2, <2>2 DEF Current, PastAt, Resumes
  <2> QED
    BY <2>1, <2>2 DEF Threads
<1>5. Line' = Append(Line, h) /\ Line \in Seq(Records)
  BY LineGrows, LineType, <1>1 DEF Enqueued, Quiet, TypeInv
<1>6. /\ n \in Nat /\ DOMAIN Line = 1..n /\ DOMAIN Line' = 1..(n + 1)
      /\ \A i \in 1..n : Line'[i] = Line[i]
      /\ Line'[n + 1] = h
      /\ Range(Line') = Range(Line) \cup {h}
  BY <1>1, <1>5, AppendProperties, AppendElems, LenProperties
<1>7. /\ \A w \in Range(written) : w \in Contents
      /\ \A x \in Range(Line) : content[x] \in Contents
      /\ pc[Log4z] = "handle" => content[hand[Log4z]] \in Contents
  BY HeldContents
<1>8. \A c \in Contents : PastAt(c, pc, calls) => PastAt(c, pc', calls')
  BY PastKept
<1> HIDE DEF h, n
<1>9. Queued'
  <2>1. \A i, j \in DOMAIN written' : i < j => Older(written'[i], written'[j])
    BY DEF Ordered, Queued
  <2>2. ASSUME NEW i \in 1..(n + 1), NEW j \in 1..(n + 1), i < j
        PROVE  Older(content'[Line'[i]], content'[Line'[j]])
    <3>1. i \in 1..n /\ Line'[i] = Line[i] /\ Line[i] \in Range(Line)
      BY <1>6, <2>2 DEF Range
    <3>2. CASE j = n + 1
      BY <1>3, <1>6, <1>7, <3>1, <3>2 DEF Ordered, Queued, Past
    <3>3. CASE j \in 1..n
      BY <1>6, <2>2, <3>1, <3>3 DEF Ordered, Queued
    <3> QED
      BY <1>6, <3>2, <3>3
  <2>3. \A w \in Range(written'), r \in Range(Line') : Older(w, content'[r])
    BY <1>3, <1>6, <1>7 DEF Ordered, Queued, Past
  <2>4. /\ \A w \in Range(written') : PastAt(w, pc', calls')
        /\ \A r \in Range(Line') : PastAt(content'[r], pc', calls')
    BY <1>4, <1>6, <1>7, <1>8 DEF Ordered, Queued, Past
  <2> QED
    BY <1>6, <2>1, <2>2, <2>3, <2>4 DEF Queued, Past
<1>10. Handled'
  <2> SUFFICES ASSUME pc'[Log4z] = "handle" PROVE Handled'
    BY DEF Handled
  <2>1. t # Log4z /\ pc[Log4z] = "handle" /\ hand'[Log4z] = hand[Log4z]
    BY <1>0, <1>2 DEF Resumes
  <2>2. /\ Past(content[hand[Log4z]])
        /\ \A w \in Range(written) : Older(w, content[hand[Log4z]])
        /\ \A r \in Range(Line) : Older(content[hand[Log4z]], content[r])
    BY <2>1 DEF Ordered, Handled
  <2> QED
    BY <1>3, <1>6, <1>7, <1>8, <2>1, <2>2 DEF Handled, Past
<1> QED
  BY <1>9, <1>10

\* What is popped is the oldest of the line.
LEMMA QueuedPop ==
  ASSUME Quiet, Ordered, [Next]_vars, PopLog
  PROVE  Queued' /\ Handled'
<1> DEFINE h == Head(Line)
           n == Len(Line) - 1
<1>0. Log4z \in Threads
  BY DEF Threads
<1>1. Line # <<>> /\ hand' = [hand EXCEPT ![Log4z] = h] /\ Line' = Tail(Line)
  BY LineShrinks DEF Quiet, TypeInv
<1>2. Line \in Seq(Records)
  BY LineType DEF Quiet, TypeInv
<1>3. /\ n \in Nat /\ DOMAIN Line = 1..(n + 1) /\ DOMAIN Line' = 1..n
      /\ \A i \in 1..n : Line'[i] = Line[i + 1]
      /\ h = Line[1] /\ h \in Range(Line)
  BY <1>1, <1>2, TailElems
<1>4. hand'[Log4z] = h /\ UNCHANGED <<content, written, calls>>
  BY <1>0, <1>1 DEF PopLog, memVars, Quiet, TypeInv, TypeOK
<1>5. /\ \A w \in Range(written) : w \in Contents
      /\ \A x \in Range(Line) : content[x] \in Contents
  BY HeldContents
<1>6. \A c \in Contents : PastAt(c, pc, calls) => PastAt(c, pc', calls')
  BY PastKept
<1> HIDE DEF h, n
<1>7. \A i \in 1..n : i + 1 \in DOMAIN Line /\ 1 \in DOMAIN Line /\ 1 < i + 1
  BY <1>3
<1>8. \A r \in Range(Line') : r \in Range(Line) /\ Older(content[h], content[r])
  <2> TAKE r \in Range(Line')
  <2>1. PICK i \in 1..n : r = Line[i + 1]
    BY <1>3 DEF Range
  <2> QED
    BY <1>3, <1>7, <2>1 DEF Ordered, Queued, Range
<1>9. Queued'
  <2>1. \A i, j \in DOMAIN written' : i < j => Older(written'[i], written'[j])
    BY <1>4 DEF Ordered, Queued
  <2>2. ASSUME NEW i \in 1..n, NEW j \in 1..n, i < j
        PROVE  Older(content'[Line'[i]], content'[Line'[j]])
    <3>1. i + 1 < j + 1
      BY <1>3, <2>2
    <3> QED
      BY <1>3, <1>4, <1>7, <3>1 DEF Ordered, Queued
  <2>3. \A w \in Range(written'), r \in Range(Line') : Older(w, content'[r])
    BY <1>4, <1>8 DEF Ordered, Queued
  <2>4. /\ \A w \in Range(written') : PastAt(w, pc', calls')
        /\ \A r \in Range(Line') : PastAt(content'[r], pc', calls')
    BY <1>4, <1>5, <1>6, <1>8 DEF Ordered, Queued, Past
  <2> QED
    BY <1>3, <2>1, <2>2, <2>3, <2>4 DEF Queued, Past
<1>10. Handled'
  BY <1>3, <1>4, <1>5, <1>6, <1>8 DEF Ordered, Queued, Handled, Past
<1> QED
  BY <1>9, <1>10

\* What is written is older than the line and younger than what was written before.
LEMMA QueuedWrite ==
  ASSUME Quiet, Ordered, [Next]_vars, WriteLog
  PROVE  Queued' /\ Handled'
<1> DEFINE c == content[hand[Log4z]]
           n == Len(written)
<1>0. Log4z \in Threads
  BY DEF Threads
<1>1. /\ pc[Log4z] = "handle" /\ pc'[Log4z] = "discard" /\ Line' = Line
      /\ UNCHANGED <<content, calls>>
  BY <1>0 DEF WriteLog, Goes, Line, memVars, Quiet, TypeInv, TypeOK
<1>2. Handled'
  BY <1>1 DEF Handled
<1>3. CASE written' = written
  BY <1>1, <1>3, QueuedStays DEF Ordered
<1>4. CASE written' = Append(written, c)
  <2>1. c \in Contents /\ written \in Seq(Contents)
    BY <1>0, <1>1 DEF Quiet, TypeInv, TypeOK, HoldsRecord, WithRecord
  <2>2. /\ n \in Nat /\ DOMAIN written = 1..n /\ DOMAIN written' = 1..(n + 1)
        /\ \A i \in 1..n : written'[i] = written[i]
        /\ written'[n + 1] = c
        /\ Range(written') = Range(written) \cup {c}
    BY <1>4, <2>1, AppendProperties, AppendElems, LenProperties
  <2>3. /\ Past(c)
        /\ \A w \in Range(written) : Older(w, c)
        /\ \A r \in Range(Line) : Older(c, content[r])
    BY <1>1 DEF Ordered, Handled
  <2>4. /\ \A w \in Range(written) : w \in Contents
        /\ \A x \in Range(Line) : content[x] \in Contents
    BY HeldContents
  <2>5. \A d \in Contents : PastAt(d, pc, calls) => PastAt(d, pc', calls')
    BY PastKept
  <2> HIDE DEF c, n
  <2>6. ASSUME NEW i \in 1..(n + 1), NEW j \in 1..(n + 1), i < j
        PROVE  Older(written'[i], written'[j])
    <3>1. i \in 1..n /\ written'[i] = written[i] /\ written[i] \in Range(written)
      BY <2>2, <2>6 DEF Range
    <3>2. CASE j = n + 1
      BY <2>2, <2>3, <3>1, <3>2
    <3>3. CASE j \in 1..n
      BY <2>2, <2>6, <3>1, <3>3 DEF Ordered, Queued
    <3> QED
      BY <2>2, <3>2, <3>3
  <2>7. \A i, j \in DOMAIN Line' : i < j => Older(content'[Line'[i]], content'[Line'[j]])
    BY <1>1 DEF Ordered, Queued
  <2>8. \A w \in Range(written'), r \in Range(Line') : Older(w, content'[r])
    BY <1>1, <2>2, <2>3 DEF Ordered, Queued
  <2>9. /\ \A w \in Range(written') : PastAt(w, pc', calls')
        /\ \A r \in Range(Line') : PastAt(content'[r], pc', calls')
    BY <1>1, <2>1, <2>2, <2>3, <2>4, <2>5 DEF Ordered, Queued, Past
  <2> QED
    BY <1>2, <2>2, <2>6, <2>7, <2>8, <2>9 DEF Queued, Past
<1> QED
  BY <1>3, <1>4 DEF WriteLog

LEMMA OrderedStep ==
  ASSUME Quiet, Owned, Ordered, [Next]_vars
  PROVE  Ordered'
<1> USE DEF Quiet, TypeInv, TypeOK
<1>0. /\ Log4z \in Threads /\ Producers \subseteq Threads /\ Log4z \notin Producers
      /\ Queued /\ Handled
      /\ pc[Log4z] = "handle" => hand[Log4z] \in Records
      /\ \A x \in Range(Line) : x \in Records
  BY ThreadAssumption, HeldContents DEF Threads, Ordered, HoldsRecord, WithRecord
<1> SUFFICES Queued' /\ Handled'
  BY MakingStep DEF Ordered
<1>1. CASE /\ UNCHANGED <<_logs, _logsCache, content, written>>
           /\ pc'[Log4z] = "handle" => pc[Log4z] = "handle" /\ hand'[Log4z] = hand[Log4z]
  BY <1>0, <1>1, QueuedStays DEF Line
<1>2. ASSUME NEW t \in Threads, NEW r \in Records, NEW c, NEW at \in {"made", "hotpush"},
             MakeLogData(r), Filled(t, r, c), Goes(t, at), mpc # "popping",
             UNCHANGED <<_logs, _logsCache, written>>
      PROVE  Queued' /\ Handled'
  <2>1. /\ r \notin Range(Line) /\ \A u \in Threads : hand[u] # r
        /\ \A x \in Records \ {r} : content'[x] = content[x]
        /\ \A u \in Threads \ {t} : hand'[u] = hand[u]
    BY <1>2, OthersKept
  <2>2. pc'[t] = at /\ \A u \in Threads \ {t} : pc'[u] = pc[u]
    BY <1>2 DEF Goes
  <2> QED
    BY <1>0, <1>2, <2>1, <2>2, QueuedStays DEF Line
<1>3. CASE UNCHANGED vars
  BY <1>1, <1>3 DEF vars, memVars, queueVars
<1>4. ASSUME NEW t \in Threads, RecordStep(t) PROVE Queued' /\ Handled'
  <2>1. CASE PushLog(t)
    BY <2>1, QueuedPush DEF PushLog, memVars
  <2>2. CASE ~PushLog(t)
    <3>1. /\ UNCHANGED <<_logs, _logsCache, content, written>>
          /\ pc'[t] # "handle" /\ \A u \in Threads \ {t} : pc'[u] = pc[u] /\ hand'[u] = hand[u]
      BY <1>4, <2>2
      DEF RecordStep, PushLogTests, FreeLogData, FreeLogDataKeeps, Goes, Resumes, queueVars,
          memVars
    <3> QED
      BY <1>0, <1>1, <3>1
  <2> QED
    BY <2>1, <2>2
<1>5. ASSUME NEW p \in Producers, ProducerStep(p) PROVE Queued' /\ Handled'
  <2>1. mpc # "popping"
    BY <1>5, OnlyMain
  <2>2. CASE \/ PrePushLog(p) \/ EnableLogger(p)
             \/ HotChange(p) /\ UNCHANGED <<memVars, pc, hand>>
    <3>1. /\ UNCHANGED <<_logs, _logsCache, content, written, hand>>
          /\ pc'[Log4z] = pc[Log4z]
      BY <1>0, <2>2
      DEF PrePushLog, EnableLogger, HotChange, NextCall, Goes, queueVars, memVars
    <3> QED
      BY <1>1, <3>1
  <2>3. ASSUME NEW r \in Records, Make(p, r) PROVE Queued' /\ Handled'
    BY <1>0, <1>2, <2>1, <2>3 DEF Make, queueVars
  <2>4. ASSUME HotChange(p), NEW r \in Records, MakeLogData(r),
               Filled(p, r, ThisCall(p, "disable")), Goes(p, "hotpush")
        PROVE  Queued' /\ Handled'
    BY <1>0, <1>2, <2>1, <2>4 DEF HotChange, queueVars
  <2>5. CASE HotChangePushes(p)
    BY <1>0, <2>5, QueuedPush DEF HotChangePushes, memVars
  <2> QED
    BY <1>5, <2>2, <2>3, <2>4, <2>5 DEF ProducerStep, HotChange
<1>6. CASE LoggerStep
  <2>1. mpc # "popping"
    BY <1>6, OnlyMain
  <2>2. CASE Announces
    <3>1. CASE UNCHANGED <<memVars, hand>> /\ Goes(Log4z, "loop")
      BY <1>0, <1>1, <2>2, <3>1 DEF Announces, Goes, memVars, queueVars
    <3>2. ASSUME NEW r \in Records, MakeLogData(r), Filled(Log4z, r, Blank),
                 Goes(Log4z, "made")
          PROVE  Queued' /\ Handled'
      BY <1>0, <1>2, <2>1, <2>2, <3>2 DEF Announces, queueVars
    <3> QED
      BY <2>2, <3>1, <3>2 DEF Announces
  <2>3. CASE PopLog
    BY <2>3, QueuedPop
  <2>4. CASE WriteLog
    BY <2>4, QueuedWrite
  <2>5. CASE RunStarts \/ OnHotChange \/ RunSleeps \/ RunWakes
    <3>1. UNCHANGED <<_logs, _logsCache, content, written>> /\ pc'[Log4z] # "handle"
      BY <1>0, <2>5
      DEF RunStarts, OnHotChange, RunSleeps, RunWakes, Goes, memVars, queueVars
    <3> QED
      BY <1>1, <3>1
  <2> QED
    BY <1>6, <2>2, <2>3, <2>4, <2>5 DEF LoggerStep
<1>7. CASE MainStep
  <2>1. /\ UNCHANGED <<_logs, _logsCache, content, written, hand>>
        /\ pc'[Log4z] = "handle" => pc[Log4z] = "handle"
    BY <1>0, <1>7
    DEF MainStep, Start, StartReturns, Stop, Joins, DrainDeletes, DrainPops, StopReturns,
        Goes, memVars, queueVars
  <2> QED
    BY <1>1, <2>1
<1> QED
  BY <1>3, <1>4, <1>5, <1>6, <1>7 DEF Next

LEMMA InitOrdered == Init => Ordered
<1> SUFFICES ASSUME Init PROVE Ordered
  OBVIOUS
<1>1. Line = <<>> /\ written = <<>>
  BY ConcatEmptySeq, EmptySeq DEF Init, Line
<1>2. Queued
  BY <1>1 DEF Queued, Range
<1> QED
  BY <1>2 DEF Init, Ordered, Making, Handled, Threads

\* The records a thread logged are written in the order it logged them, each at most once
\* (pushLog, popLog with its cache, run), whatever the other threads do and although the
\* memory of the records is used again.
THEOREM WrittenInOrder ==
  ASSUME StopWhenIdle
  PROVE  Spec => []InOrder
<1> DEFINE Inv == Quiet /\ Owned /\ Ordered
<1>1. Init => Inv
  BY InitQuiet, InitOwned, InitOrdered
<1>2. Inv /\ [Next]_vars => Inv'
  BY QuietStep, OwnedStep, OrderedStep
<1>3. Inv => InOrder
  <2>1. TypeOK => DOMAIN written = 1..Len(written)
    BY LenProperties DEF TypeOK
  <2> QED
    BY <2>1 DEF Quiet, TypeInv, Ordered, Queued, Older, InOrder
<1> QED
  BY <1>1, <1>2, <1>3, PTL DEF Spec

-----------------------------------------------------------------------------
(***************************************************************************)
(* A setting takes effect between the records around it                    *)
(***************************************************************************)
NoEnable == \A p \in Producers : \A k \in 1..Len(Script[p]) : Script[p][k] # "enable"

\* Where a record is that still has its effect to come.
UnderWay(r) ==
  \/ r \in Range(Line)
  \/ \E p \in Producers : pc[p] = "hotpush" /\ hand[p] = r
  \/ pc[Log4z] = "handle" /\ hand[Log4z] = r

Pending(p, k) ==
  \E r \in Records : UnderWay(r) /\ content[r] = [by |-> p, n |-> k, what |-> "disable"]

\* Either the logger is disabled, or what disables it is under way.
Disabled ==
  \A p \in Producers : \A k \in 1..calls[p] :
    Script[p][k] = "disable" => ~_enable \/ Pending(p, k)

Applied ==
  \A w \in Range(written) : w.by \in Producers =>
    \A k \in 1..(w.n - 1) : Script[w.by][k] # "disable"

\* A setting under way stays so until it takes effect.
LEMMA StaysUnderWay ==
  ASSUME Quiet, Owned, [Next]_vars, NEW r \in Records, UnderWay(r),
         content[r].what = "disable", ~OnHotChange
  PROVE  UnderWay(r)' /\ content'[r] = content[r]
<1> USE DEF Quiet, TypeInv, TypeOK
<1>0. /\ Log4z \in Threads /\ Producers \subseteq Threads /\ Log4z \notin Producers
      /\ r # NoRecord
  BY ThreadAssumption, LogAssumption DEF Threads
<1>1. CASE UNCHANGED vars
  BY <1>1 DEF vars, memVars, queueVars, UnderWay, Line
<1>2. ASSUME NEW t \in Threads, NEW q \in Records, NEW c, NEW at \in {"made", "hotpush"},
             MakeLogData(q), Filled(t, q, c), Goes(t, at), mpc # "popping",
             pc[t] \notin {"hotpush", "handle"}, UNCHANGED <<_logs, _logsCache>>
      PROVE  UnderWay(r)' /\ content'[r] = content[r]
  <2>1. /\ q \notin Range(Line) /\ \A u \in Threads : hand[u] # q
        /\ \A x \in Records \ {q} : content'[x] = content[x]
        /\ \A u \in Threads \ {t} : hand'[u] = hand[u]
    BY <1>2, OthersKept
  <2>2. \A u \in Threads \ {t} : pc'[u] = pc[u]
    BY <1>2 DEF Goes
  <2>3. r # q
    BY <1>0, <2>1 DEF UnderWay
  <2>4. Line' = Line
    BY <1>2 DEF Line
  <2> QED
    BY <1>0, <1>2, <2>1, <2>2, <2>3, <2>4 DEF UnderWay
<1>3. ASSUME NEW t \in Threads, Enqueued(t), hand[t] \in Records,
             UNCHANGED <<_logsCache, content>>
      PROVE  UnderWay(r)' /\ content'[r] = content[r]
  <2>1. Line' = Append(Line, hand[t]) /\ Line \in Seq(Records)
    BY <1>3, LineGrows, LineType DEF Enqueued
  <2>2. Range(Line') = Range(Line) \cup {hand[t]}
    BY <1>3, <2>1, AppendElems
  <2>3. \A u \in Threads \ {t} : pc'[u] = pc[u] /\ hand'[u] = hand[u]
    BY <1>3 DEF Enqueued, Goes
  <2> QED
    BY <1>0, <1>3, <2>2, <2>3 DEF UnderWay
<1>4. ASSUME NEW t \in Threads, UNCHANGED <<_logs, _logsCache, content>>,
             pc[t] \notin {"hotpush", "handle"},
             \A u \in Threads \ {t} : pc'[u] = pc[u] /\ hand'[u] = hand[u]
      PROVE  UnderWay(r)' /\ content'[r] = content[r]
  BY <1>0, <1>4 DEF UnderWay, Line
<1>5. ASSUME NEW t \in Threads, RecordStep(t) PROVE UnderWay(r)' /\ content'[r] = content[r]
  <2>1. CASE PushLog(t)
    <3>1. hand[t] \in Records /\ Enqueued(t) /\ UNCHANGED <<_logsCache, content>>
      BY <2>1 DEF PushLog, memVars, HoldsRecord, WithRecord
    <3> QED
      BY <1>3, <3>1
  <2>2. CASE ~PushLog(t)
    <3>1. /\ UNCHANGED <<_logs, _logsCache, content>>
          /\ pc[t] \notin {"hotpush", "handle"}
          /\ \A u \in Threads \ {t} : pc'[u] = pc[u] /\ hand'[u] = hand[u]
      BY <1>5, <2>2
      DEF RecordStep, PushLogTests, FreeLogData, FreeLogDataKeeps, Goes, queueVars, memVars
    <3> QED
      BY <1>4, <3>1
  <2> QED
    BY <2>1, <2>2
<1>6. ASSUME NEW p \in Producers, ProducerStep(p)
      PROVE  UnderWay(r)' /\ content'[r] = content[r]
  <2>1. mpc # "popping"
    BY <1>6, OnlyMain
  <2>2. CASE \/ PrePushLog(p) \/ EnableLogger(p)
             \/ HotChange(p) /\ UNCHANGED <<memVars, pc, hand>>
    <3>1. /\ UNCHANGED <<_logs, _logsCache, content>> /\ pc[p] = "idle"
          /\ \A u \in Threads \ {p} : pc'[u] = pc[u] /\ hand'[u] = hand[u]
      BY <1>0, <2>2
      DEF PrePushLog, EnableLogger, HotChange, NextCall, Goes, queueVars, memVars
    <3> QED
      BY <1>0, <1>4, <3>1
  <2>3. ASSUME NEW q \in Records, Make(p, q) PROVE UnderWay(r)' /\ content'[r] = content[r]
    BY <1>0, <1>2, <2>1, <2>3 DEF Make, queueVars
  <2>4. ASSUME HotChange(p), NEW q \in Records, MakeLogData(q),
               Filled(p, q, ThisCall(p, "disable")), Goes(p, "hotpush")
        PROVE  UnderWay(r)' /\ content'[r] = content[r]
    BY <1>0, <1>2, <2>1, <2>4 DEF HotChange, NextCall, queueVars
  <2>5. CASE HotChangePushes(p)
    <3>1. hand[p] \in Records /\ Enqueued(p) /\ UNCHANGED <<_logsCache, content>>
      BY <1>0, <2>5 DEF HotChangePushes, memVars, HoldsRecord, WithRecord
    <3> QED
      BY <1>0, <1>3, <3>1
  <2> QED
    BY <1>6, <2>2, <2>3, <2>4, <2>5 DEF ProducerStep, HotChange
<1>7. CASE LoggerStep
  <2>1. mpc # "popping"
    BY <1>7, OnlyMain
  <2>2. CASE Announces
    <3>1. CASE UNCHANGED <<memVars, hand>> /\ Goes(Log4z, "loop")
      BY <1>0, <1>4, <2>2, <3>1 DEF Announces, Goes, memVars, queueVars
    <3>2. ASSUME NEW q \in Records, MakeLogData(q), Filled(Log4z, q, Blank),
                 Goes(Log4z, "made")
          PROVE  UnderWay(r)' /\ content'[r] = content[r]
      BY <1>0, <1>2, <2>1, <2>2, <3>2 DEF Announces, queueVars
    <3> QED
      BY <2>2, <3>1, <3>2 DEF Announces
  <2>3. CASE PopLog
    <3>1. /\ Line # <<>> /\ hand' = [hand EXCEPT ![Log4z] = Head(Line)]
          /\ Line' = Tail(Line) /\ Line \in Seq(Records)
      BY <2>3, LineShrinks, LineType
    <3>2. Range(Line') = Range(Line) \ {Head(Line)}
      BY <3>1, TailElems DEF Owned
    <3>3. /\ hand'[Log4z] = Head(Line) /\ pc[Log4z] = "loop" /\ pc'[Log4z] = "handle"
          /\ UNCHANGED content
          /\ \A u \in Threads \ {Log4z} : pc'[u] = pc[u] /\ hand'[u] = hand[u]
      BY <1>0, <2>3, <3>1 DEF PopLog, Goes, memVars
    <3> QED
      BY <1>0, <3>2, <3>3 DEF UnderWay
  <2>4. CASE WriteLog
    <3>1. /\ pc[Log4z] = "handle" /\ hand[Log4z] # r
          /\ UNCHANGED <<_logs, _logsCache, content, hand>>
          /\ \A u \in Threads \ {Log4z} : pc'[u] = pc[u]
      BY <2>4 DEF WriteLog, Goes, memVars
    <3> QED
      BY <1>0, <3>1 DEF UnderWay, Line
  <2>5. CASE RunStarts \/ RunSleeps \/ RunWakes
    <3>1. /\ UNCHANGED <<_logs, _logsCache, content, hand>> /\ pc[Log4z] # "handle"
          /\ pc[Log4z] # "hotpush" /\ \A u \in Threads \ {Log4z} : pc'[u] = pc[u]
      BY <2>5 DEF RunStarts, RunSleeps, RunWakes, Goes, memVars, queueVars
    <3> QED
      BY <1>0, <1>4, <3>1
  <2> QED
    BY <1>7, <2>2, <2>3, <2>4, <2>5 DEF LoggerStep
<1>8. CASE MainStep
  <2>1. CASE Start
    <3>1. /\ UNCHANGED <<_logs, _logsCache, content, hand>> /\ pc[Log4z] = "none"
          /\ \A u \in Threads \ {Log4z} : pc'[u] = pc[u]
      BY <2>1 DEF Start, Phases, Goes, memVars, queueVars
    <3> QED
      BY <1>0, <1>4, <3>1
  <2>2. CASE ~Start
    BY <1>8, <2>2
    DEF MainStep, StartReturns, Stop, Joins, DrainDeletes, DrainPops, StopReturns, memVars,
        queueVars, UnderWay, Line
  <2> QED
    BY <2>1, <2>2
<1> QED
  BY <1>1, <1>5, <1>6, <1>7, <1>8 DEF Next

\* A thread begins its calls itself, one after the other.
LEMMA CallsStep ==
  ASSUME TypeOK, [Next]_vars, NEW p \in Producers, calls'[p] # calls[p]
  PROVE  /\ ProducerStep(p) /\ calls'[p] = calls[p] + 1
         /\ \E what \in Calls : NextCall(p, what)
<1>1. ~UNCHANGED calls
  OBVIOUS
<1>2. PICK q \in Producers : ProducerStep(q)
  BY <1>1
  DEF Next, vars, RecordStep, PushLogTests, PushLog, FreeLogData, FreeLogDataKeeps,
      LoggerStep, RunStarts, Announces, PopLog, OnHotChange, WriteLog, RunSleeps, RunWakes,
      MainStep, Start, StartReturns, Stop, Joins, DrainDeletes, DrainPops, StopReturns
<1>3. \E what \in Calls : NextCall(q, what)
  BY <1>1, <1>2
  DEF ProducerStep, PrePushLog, Make, EnableLogger, HotChange, HotChangePushes, Calls
<1>4. calls' = [calls EXCEPT ![q] = @ + 1]
  BY <1>3 DEF NextCall
<1>5. q = p
  BY <1>4 DEF TypeOK
<1> QED
  BY <1>2, <1>3, <1>4, <1>5 DEF TypeOK

\* When no thread enables the logger, it stays disabled.
LEMMA StaysDisabled ==
  ASSUME TypeOK, NoEnable, [Next]_vars, ~_enable
  PROVE  ~_enable'
<1>1. \A p \in Producers : ~EnableLogger(p)
  <2> SUFFICES ASSUME NEW p \in Producers, EnableLogger(p) PROVE FALSE
    OBVIOUS
  <2>1. calls[p] \in Nat /\ calls[p] < Len(Script[p]) /\ Script[p][calls[p] + 1] = "enable"
    BY DEF EnableLogger, NextCall, TypeOK
  <2>2. Len(Script[p]) \in Nat
    BY LogAssumption, LenProperties
  <2>3. calls[p] + 1 \in 1..Len(Script[p])
    BY <2>1, <2>2
  <2> QED
    BY <2>1, <2>3 DEF NoEnable
<1>2. CASE UNCHANGED vars
  BY <1>2 DEF vars, setVars
<1>3. ASSUME NEW p \in Producers, ProducerStep(p) PROVE ~_enable'
  BY <1>1, <1>3
  DEF ProducerStep, PrePushLog, Make, HotChange, HotChangePushes, setVars
<1>4. ASSUME NEW t \in Threads, RecordStep(t) PROVE ~_enable'
  BY <1>4
  DEF RecordStep, PushLogTests, PushLog, FreeLogData, FreeLogDataKeeps, setVars
<1>5. CASE LoggerStep \/ MainStep
  BY <1>5
  DEF LoggerStep, RunStarts, Announces, PopLog, OnHotChange, WriteLog, RunSleeps, RunWakes,
      MainStep, Start, StartReturns, Stop, Joins, DrainDeletes, DrainPops, StopReturns, setVars
<1> QED
  BY <1>2, <1>3, <1>4, <1>5 DEF Next

LEMMA DisabledStep ==
  ASSUME Quiet, Owned, NoEnable, Disabled, [Next]_vars
  PROVE  Disabled'
<1> SUFFICES ASSUME NEW p \in Producers, NEW k \in 1..calls'[p],
                    Script[p][k] = "disable", _enable'
             PROVE  Pending(p, k)'
  BY DEF Disabled
<1>0. /\ TypeOK /\ calls[p] \in Nat /\ _enable
      /\ Producers \subseteq Threads
  BY StaysDisabled DEF Quiet, TypeInv, TypeOK, Threads
<1>1. CASE k \in 1..calls[p]
  <2>1. PICK r \in Records : /\ UnderWay(r)
                             /\ content[r] = [by |-> p, n |-> k, what |-> "disable"]
    BY <1>0, <1>1 DEF Disabled, Pending
  <2>2. ~OnHotChange
    BY DEF OnHotChange
  <2>3. UnderWay(r)' /\ content'[r] = content[r]
    BY <2>1, <2>2, StaysUnderWay
  <2> QED
    BY <2>1, <2>3 DEF Pending
<1>2. CASE k \notin 1..calls[p]
  <2>1. calls'[p] # calls[p]
    BY <1>2
  <2>2. /\ ProducerStep(p) /\ calls'[p] = calls[p] + 1
        /\ \E what \in Calls : NextCall(p, what)
    BY <1>0, <2>1, CallsStep
  <2>3. k = calls[p] + 1
    BY <1>0, <1>2, <2>2
  <2>4. HotChange(p)
    BY <2>1, <2>2, <2>3
    DEF ProducerStep, PrePushLog, Make, EnableLogger, HotChange, HotChangePushes, NextCall
  <2>5. PICK r \in Records : /\ MakeLogData(r) /\ Filled(p, r, ThisCall(p, "disable"))
                             /\ Goes(p, "hotpush")
    BY <2>4 DEF HotChange
  <2>6. mpc # "popping"
    BY <2>2, OnlyMain
  <2>7. content'[r] = ThisCall(p, "disable") /\ hand'[p] = r
    BY <1>0, <2>5, <2>6, OthersKept
  <2>8. pc'[p] = "hotpush"
    BY <1>0, <2>5 DEF Goes, TypeOK
  <2>9. UnderWay(r)'
    BY <2>7, <2>8 DEF UnderWay
  <2> QED
    BY <2>2, <2>3, <2>7, <2>9 DEF Pending, ThisCall
<1> QED
  BY <1>1, <1>2

LEMMA AppliedStep ==
  ASSUME Quiet, Owned, Ordered, Disabled, Applied, [Next]_vars
  PROVE  Applied'
<1>0. /\ Log4z \in Threads /\ Producers \subseteq Threads /\ Log4z \notin Producers
      /\ written \in Seq(Contents)
  BY ThreadAssumption DEF Threads, Quiet, TypeInv, TypeOK
<1>1. CASE written' = written
  BY <1>1 DEF Applied
<1>2. CASE WriteLog /\ _enable /\ written' = Append(written, content[hand[Log4z]])
  <2> DEFINE c == content[hand[Log4z]]
  <2>1. c \in Contents /\ c.what = "log" /\ Past(c) /\ pc[Log4z] = "handle"
        /\ \A x \in Range(Line) : Older(c, content[x])
    BY <1>2, HeldContents DEF WriteLog, Ordered, Handled
  <2>2. Range(written') = Range(written) \cup {c}
    BY <1>0, <1>2, <2>1, AppendElems
  <2> HIDE DEF c
  <2>3. ASSUME c.by \in Producers, NEW k \in 1..(c.n - 1), Script[c.by][k] = "disable"
        PROVE  FALSE
    <3>1. c.n \in Nat /\ c.n <= calls[c.by] /\ calls[c.by] \in Nat
      BY <1>0, <2>1, <2>3 DEF Past, PastAt, Contents, Quiet, TypeInv, TypeOK
    <3>2. k \in 1..calls[c.by] /\ k < c.n
      BY <3>1
    <3>3. PICK r \in Records : /\ UnderWay(r)
                               /\ content[r] = [by |-> c.by, n |-> k, what |-> "disable"]
      BY <1>2, <2>3, <3>2 DEF Disabled, Pending
    <3>4. r \notin Range(Line)
      BY <2>1, <3>1, <3>2, <3>3 DEF Older
    <3>5. hand[Log4z] # r
      BY <2>1, <3>3 DEF c
    <3>6. PICK p \in Producers : pc[p] = "hotpush" /\ hand[p] = r
      BY <3>3, <3>4, <3>5 DEF UnderWay
    <3>7. content[r] = [by |-> p, n |-> calls[p], what |-> "disable"]
      BY <1>0, <3>6 DEF Ordered, Making, Current
    <3>8. p = c.by /\ calls[p] = k
      BY <3>3, <3>7
    <3> QED
      BY <3>1, <3>2, <3>8
  <2> QED
    BY <2>2, <2>3 DEF Applied
<1>3. written' = written \/ WriteLog
  BY DEF Next, vars, ProducerStep, PrePushLog, Make, EnableLogger, HotChange, HotChangePushes,
      RecordStep, PushLogTests, PushLog, FreeLogData, FreeLogDataKeeps, LoggerStep,
      RunStarts, Announces, PopLog, OnHotChange, RunSleeps, RunWakes, MainStep, Start,
      StartReturns, Stop, Joins, DrainDeletes, DrainPops, StopReturns
<1> QED
  BY <1>1, <1>2, <1>3 DEF WriteLog

\* Nothing that a thread logs after it disabled the logger is written, although the
\* setting goes through the queue and takes effect later (hotChange, onHotChange), as long
\* as no thread enables the logger again.
THEOREM SettingsApplyInOrder ==
  ASSUME StopWhenIdle
  PROVE  Spec => []SettingsInOrder
<1> DEFINE Inv == Quiet /\ Owned /\ Ordered /\ (NoEnable => Disabled /\ Applied)
<1>1. Init => Inv
  <2> SUFFICES ASSUME Init PROVE Disabled /\ Applied
    BY InitQuiet, InitOwned, InitOrdered
  <2> QED
    BY DEF Init, Disabled, Applied, Range
<1>2. Inv /\ [Next]_vars => Inv'
  BY QuietStep, OwnedStep, OrderedStep, DisabledStep, AppliedStep DEF NoEnable
<1>3. Inv => SettingsInOrder
  <2>1. TypeOK => DOMAIN written = 1..Len(written)
    BY LenProperties DEF TypeOK
  <2> QED
    BY <2>1 DEF Quiet, TypeInv, NoEnable, Applied, Range, SettingsInOrder
<1> QED
  BY <1>1, <1>2, <1>3, PTL DEF Spec

-----------------------------------------------------------------------------
(***************************************************************************)
(* The status counters                                                     *)
(***************************************************************************)
LEMMA LineFinite ==
  ASSUME TypeOK
  PROVE  IsFiniteSet(Waiting) /\ Cardinality(Waiting) \in Nat
<1>1. ASSUME NEW s \in Seq(Records) PROVE IsFiniteSet(Range(s))
  <2>1. Len(s) \in Nat /\ DOMAIN s = 1..Len(s)
    BY LenProperties
  <2>2. IsFiniteSet(1..Len(s))
    BY <2>1, FS_Interval
  <2>3. s \in Surjection(1..Len(s), Range(s))
    BY <2>1 DEF Range, Surjection
  <2> QED
    BY <2>2, <2>3, FS_Surjection
<1>2. IsFiniteSet(Range(_logs) \cup Range(_logsCache))
  BY <1>1, FS_Union DEF TypeOK
<1>3. Waiting \subseteq Range(_logs) \cup Range(_logsCache)
  BY DEF Waiting
<1> QED
  BY <1>2, <1>3, FS_Subset, FS_CardinalityType

LEMMA WaitingLine == TypeOK /\ Owned => Waiting = {r \in Range(Line) : IsGeneral(r)}
BY LineParts DEF Owned, Waiting

\* What the logger's thread is about to count.
Handling == IF pc[Log4z] = "handle" /\ IsGeneral(hand[Log4z]) THEN 1 ELSE 0

\* A step that moves no record of the line and counts nothing.
LEMMA CountersStay ==
  ASSUME CountersAgree, Waiting' = Waiting, Handling' = Handling, UNCHANGED <<pushes, pops>>
  PROVE  CountersAgree'
BY DEF CountersAgree, Handling

LEMMA CountersStep ==
  ASSUME Quiet, Owned, Ordered, CountersAgree, [Next]_vars, Quiet', Owned'
  PROVE  CountersAgree'
<1> USE DEF Quiet, TypeInv, TypeOK
<1>0. /\ Log4z \in Threads /\ Producers \subseteq Threads /\ Log4z \notin Producers
      /\ pushes \in Nat /\ pops \in Nat
      /\ Cardinality(Waiting) \in Nat /\ IsFiniteSet(Waiting)
      /\ Waiting = {r \in Range(Line) : IsGeneral(r)}
      /\ Waiting' = {r \in Range(Line') : IsGeneral(r)'}
      /\ Range(Line) \subseteq Records
      /\ pushes = pops + Cardinality(Waiting) + Handling
  <2>1. Log4z \in Threads /\ Producers \subseteq Threads /\ Log4z \notin Producers
    BY ThreadAssumption DEF Threads
  <2>2. Waiting' = {r \in Range(Line') : IsGeneral(r)'}
    <3> HIDE DEF Quiet, TypeInv, TypeOK
    <3>1. TypeOK'
      BY DEF Quiet, TypeInv
    <3>2. (TypeOK /\ Owned => Waiting = {r \in Range(Line) : IsGeneral(r)})'
      BY WaitingLine, PTL
    <3> QED
      BY <3>1, <3>2
  <2>3. pushes = pops + Cardinality(Waiting) + Handling
    BY DEF CountersAgree, Handling
  <2> QED
    BY <2>1, <2>2, <2>3, LineFinite, WaitingLine, PlaceTypes
<1>1. CASE /\ UNCHANGED <<_logs, _logsCache, content, pushes, pops>>
           /\ pc'[Log4z] = "handle" <=> pc[Log4z] = "handle"
           /\ pc'[Log4z] = "handle" => hand'[Log4z] = hand[Log4z]
  BY <1>1, CountersStay DEF Waiting, Handling, IsGeneral
<1>2. ASSUME NEW t \in Threads, NEW r \in Records, NEW c, NEW at \in {"made", "hotpush"},
             MakeLogData(r), Filled(t, r, c), Goes(t, at), mpc # "popping", pc[t] # "handle",
             UNCHANGED queueVars
      PROVE  CountersAgree'
  <2>1. /\ r \notin Range(Line) /\ \A u \in Threads : hand[u] # r
        /\ \A x \in Records \ {r} : content'[x] = content[x]
        /\ \A u \in Threads \ {t} : hand'[u] = hand[u]
    BY <1>2, OthersKept
  <2>2. pc'[t] = at /\ \A u \in Threads \ {t} : pc'[u] = pc[u]
    BY <1>2 DEF Goes
  <2>3. Line' = Line /\ UNCHANGED <<pushes, pops>>
    BY <1>2 DEF Line, queueVars
  <2>4. Waiting' = Waiting
    <3> HIDE DEF Quiet, TypeInv, TypeOK
    <3>1. \A x \in Range(Line) : content'[x] = content[x]
      BY <1>0, <2>1
    <3>2. \A x \in Range(Line) : IsGeneral(x)' <=> IsGeneral(x)
      BY <3>1 DEF IsGeneral
    <3>3. Waiting = {x \in Range(Line) : IsGeneral(x)}
      BY <1>0
    <3>4. Waiting' = {x \in Range(Line) : IsGeneral(x)'}
      BY <1>0, <2>3
    <3> QED
      BY <3>2, <3>3, <3>4
  <2>5. Handling' = Handling
    <3>1. pc[Log4z] = "handle" => hand[Log4z] \in Records
      BY <1>0 DEF HoldsRecord, WithRecord
    <3> QED
      BY <1>0, <1>2, <2>1, <2>2, <3>1, SMTT(30) DEF Handling, IsGeneral
  <2> QED
    BY <2>3, <2>4, <2>5, CountersStay
<1>3. ASSUME NEW t \in Threads, Enqueued(t), hand[t] \in Records, pc[t] # "handle",
             UNCHANGED <<_logsCache, content, pops>>
      PROVE  /\ Handling' = Handling
             /\ IsGeneral(hand[t]) => Cardinality(Waiting') = Cardinality(Waiting) + 1
             /\ ~IsGeneral(hand[t]) => Waiting' = Waiting
  <2>1. Line' = Append(Line, hand[t]) /\ Line \in Seq(Records)
    BY <1>3, LineGrows, LineType DEF Enqueued
  <2>2. Range(Line') = Range(Line) \cup {hand[t]}
    BY <1>3, <2>1, AppendElems
  <2>3. hand[t] \notin Range(Line)
    BY DEF Owned, Apart
  <2>4. pc'[t] # "handle" /\ \A u \in Threads \ {t} : pc'[u] = pc[u] /\ hand'[u] = hand[u]
    BY <1>3 DEF Enqueued, Goes, Resumes
  <2>5. Handling' = Handling
    BY <1>0, <1>3, <2>4 DEF Handling, IsGeneral
  <2>6. ASSUME ~IsGeneral(hand[t]) PROVE Waiting' = Waiting
    BY <1>0, <1>3, <2>2, <2>6 DEF IsGeneral
  <2>7. ASSUME IsGeneral(hand[t]) PROVE Cardinality(Waiting') = Cardinality(Waiting) + 1
    <3>1. Waiting' = Waiting \cup {hand[t]} /\ hand[t] \notin Waiting
      BY <1>0, <1>3, <2>2, <2>3, <2>7 DEF IsGeneral
    <3>2. Cardinality(Waiting \cup {hand[t]}) = Cardinality(Waiting) + 1
      BY <1>0, <3>1, FS_AddElement
    <3> QED
      BY <3>1, <3>2
  <2> QED
    BY <2>5, <2>6, <2>7
<1>4. CASE UNCHANGED vars
  BY <1>1, <1>4 DEF vars, memVars, queueVars
<1>5. ASSUME NEW t \in Threads, RecordStep(t) PROVE CountersAgree'
  <2>1. CASE PushLog(t)
    <3>1. /\ hand[t] \in Records /\ Enqueued(t) /\ pc[t] = "pushing" /\ pushes' = pushes + 1
          /\ UNCHANGED <<_logsCache, content, pops>>
      BY <2>1 DEF PushLog, memVars, HoldsRecord, WithRecord
    <3>2. IsGeneral(hand[t])
      <4>1. content[hand[t]] = Current(t, "log")
        BY <3>1 DEF Ordered, Making
      <4> QED
        BY <4>1 DEF Current, IsGeneral
    <3>3. Handling' = Handling /\ Cardinality(Waiting') = Cardinality(Waiting) + 1
      BY <1>3, <3>1, <3>2
    <3>4. pushes' = pops' + Cardinality(Waiting') + Handling'
      BY <1>0, <3>1, <3>3, SMTT(30) DEF Handling
    <3> QED
      BY <3>4 DEF CountersAgree, Handling
  <2>2. CASE ~PushLog(t)
    <3>1. /\ UNCHANGED <<_logs, _logsCache, content, pushes, pops>>
          /\ pc[t] # "handle" /\ pc'[t] # "handle"
          /\ \A u \in Threads \ {t} : pc'[u] = pc[u] /\ hand'[u] = hand[u]
      BY <1>5, <2>2
      DEF RecordStep, PushLogTests, FreeLogData, FreeLogDataKeeps, Goes, Resumes, queueVars,
          memVars
    <3> QED
      BY <1>0, <1>1, <3>1
  <2> QED
    BY <2>1, <2>2
<1>6. ASSUME NEW p \in Producers, ProducerStep(p) PROVE CountersAgree'
  <2>1. mpc # "popping"
    BY <1>6, OnlyMain
  <2>2. CASE \/ PrePushLog(p) \/ EnableLogger(p)
             \/ HotChange(p) /\ UNCHANGED <<memVars, pc, hand>>
    <3>1. /\ UNCHANGED <<_logs, _logsCache, content, pushes, pops, hand>>
          /\ pc'[Log4z] = pc[Log4z]
      BY <1>0, <2>2
      DEF PrePushLog, EnableLogger, HotChange, NextCall, Goes, queueVars, memVars
    <3> QED
      BY <1>1, <3>1
  <2>3. ASSUME NEW r \in Records, Make(p, r) PROVE CountersAgree'
    BY <1>0, <1>2, <2>1, <2>3 DEF Make
  <2>4. ASSUME HotChange(p), NEW r \in Records, MakeLogData(r),
               Filled(p, r, ThisCall(p, "disable")), Goes(p, "hotpush")
        PROVE  CountersAgree'
    BY <1>0, <1>2, <2>1, <2>4 DEF HotChange, NextCall
  <2>5. CASE HotChangePushes(p)
    <3>1. /\ hand[p] \in Records /\ Enqueued(p) /\ pc[p] = "hotpush"
          /\ UNCHANGED <<_logsCache, content, pushes, pops>>
      BY <1>0, <2>5 DEF HotChangePushes, memVars, HoldsRecord, WithRecord
    <3>2. ~IsGeneral(hand[p])
      <4>1. content[hand[p]] = Current(p, "disable")
        BY <1>0, <3>1 DEF Ordered, Making
      <4> QED
        BY <4>1 DEF Current, IsGeneral
    <3> QED
      BY <1>0, <1>3, <3>1, <3>2, CountersStay
  <2> QED
    BY <1>6, <2>2, <2>3, <2>4, <2>5 DEF ProducerStep, HotChange
<1>7. CASE LoggerStep
  <2>1. mpc # "popping"
    BY <1>7, OnlyMain
  <2>2. CASE Announces
    <3>1. CASE UNCHANGED <<memVars, hand>> /\ Goes(Log4z, "loop")
      BY <1>0, <1>1, <2>2, <3>1 DEF Announces, Goes, memVars, queueVars
    <3>2. ASSUME NEW r \in Records, MakeLogData(r), Filled(Log4z, r, Blank),
                 Goes(Log4z, "made")
          PROVE  CountersAgree'
      BY <1>0, <1>2, <2>1, <2>2, <3>2 DEF Announces
    <3> QED
      BY <2>2, <3>1, <3>2 DEF Announces
  <2>3. CASE PopLog
    <3> DEFINE h == Head(Line)
    <3>1. /\ Line # <<>> /\ hand' = [hand EXCEPT ![Log4z] = h]
          /\ Line' = Tail(Line) /\ Line \in Seq(Records)
      BY <2>3, LineShrinks, LineType
    <3>2. Range(Line') = Range(Line) \ {h} /\ h \in Range(Line)
      BY <3>1, TailElems DEF Owned
    <3>3. /\ hand'[Log4z] = h /\ pc[Log4z] = "loop" /\ pc'[Log4z] = "handle"
          /\ UNCHANGED <<content, pushes, pops>>
      BY <1>0, <2>3, <3>1 DEF PopLog, Goes, memVars
    <3> HIDE DEF h
    <3>4. CASE IsGeneral(h)
      <4>1. Waiting' = Waiting \ {h} /\ h \in Waiting
        BY <1>0, <3>2, <3>3, <3>4 DEF IsGeneral
      <4>2. Cardinality(Waiting \ {h}) = Cardinality(Waiting) - 1
        BY <1>0, <4>1, FS_RemoveElement
      <4>3. Handling = 0 /\ Handling' = 1
        BY <3>3, <3>4 DEF Handling, IsGeneral
      <4>4. Cardinality(Waiting') = Cardinality(Waiting) - 1
        BY <4>1, <4>2
      <4>5. pushes' = pops' + Cardinality(Waiting') + Handling'
        BY <1>0, <3>3, <4>3, <4>4
      <4> QED
        BY <4>5 DEF CountersAgree, Handling
    <3>5. CASE ~IsGeneral(h)
      <4>1. Waiting' = Waiting
        BY <1>0, <3>2, <3>3, <3>5 DEF IsGeneral
      <4>2. Handling = 0 /\ Handling' = 0
        BY <3>3, <3>5 DEF Handling, IsGeneral
      <4> QED
        BY <3>3, <4>1, <4>2, CountersStay
    <3> QED
      BY <3>4, <3>5
  <2>4. CASE WriteLog
    <3>1. /\ pc[Log4z] = "handle" /\ IsGeneral(hand[Log4z]) /\ pc'[Log4z] # "handle"
          /\ UNCHANGED <<_logs, _logsCache, content, pushes>> /\ pops' = pops + 1
      BY <1>0, <2>4 DEF WriteLog, Goes, memVars, IsGeneral
    <3>2. Waiting' = Waiting
      BY <3>1 DEF Waiting, IsGeneral
    <3>3. Handling = 1 /\ Handling' = 0
      BY <3>1 DEF Handling, IsGeneral
    <3>4. Cardinality(Waiting') = Cardinality(Waiting)
      BY <3>2
    <3>5. pushes' = pops' + Cardinality(Waiting') + Handling'
      BY <1>0, <3>1, <3>3, <3>4
    <3> QED
      BY <3>5 DEF CountersAgree, Handling
  <2>5. CASE OnHotChange
    <3>1. /\ pc[Log4z] = "handle" /\ ~IsGeneral(hand[Log4z]) /\ pc'[Log4z] # "handle"
          /\ UNCHANGED <<_logs, _logsCache, content, pushes, pops>>
      BY <1>0, <2>5 DEF OnHotChange, Goes, memVars, queueVars, IsGeneral
    <3>2. Waiting' = Waiting /\ Handling = 0 /\ Handling' = 0
      BY <3>1 DEF Waiting, Handling, IsGeneral
    <3> QED
      BY <3>1, <3>2, CountersStay
  <2>6. CASE RunStarts \/ RunSleeps \/ RunWakes
    <3>1. /\ UNCHANGED <<_logs, _logsCache, content, pushes, pops>>
          /\ pc[Log4z] # "handle" /\ pc'[Log4z] # "handle"
      BY <1>0, <2>6 DEF RunStarts, RunSleeps, RunWakes, Goes, memVars, queueVars
    <3> QED
      BY <1>1, <3>1
  <2> QED
    BY <1>7, <2>2, <2>3, <2>4, <2>5, <2>6 DEF LoggerStep
<1>8. CASE MainStep
  <2>1. /\ UNCHANGED <<_logs, _logsCache, content, pushes, pops, hand>>
        /\ pc'[Log4z] = "handle" <=> pc[Log4z] = "handle"
    BY <1>0, <1>8
    DEF MainStep, Start, StartReturns, Stop, Joins, DrainDeletes, DrainPops, StopReturns,
        Goes, Phases, memVars, queueVars
  <2> QED
    BY <1>1, <2>1
<1> QED
  BY <1>4, <1>5, <1>6, <1>7, <1>8 DEF Next

\* The counters of what was pushed and popped (pushLog, run) differ by exactly the records
\* in the queue, in its cache and in the hands of the logger's thread, although settings
\* take the same way and are counted by neither.
THEOREM CountersStayExact ==
  ASSUME StopWhenIdle
  PROVE  Spec => []CountersAgree
<1> DEFINE Inv == Quiet /\ Owned /\ Ordered /\ CountersAgree
<1>1. Init => Inv
  <2> SUFFICES ASSUME Init PROVE CountersAgree
    BY InitQuiet, InitOwned, InitOrdered
  <2>1. Waiting = {} /\ pc[Log4z] # "handle"
    BY DEF Init, Waiting, Range, Threads
  <2> QED
    BY <2>1, FS_EmptySet DEF Init, CountersAgree
<1>2. Inv /\ [Next]_vars => Inv'
  BY QuietStep, OwnedStep, OrderedStep, CountersStep
<1>3. Inv => CountersAgree
  OBVIOUS
<1> QED
  BY <1>1, <1>2, <1>3, PTL DEF Spec
=============================================================================
