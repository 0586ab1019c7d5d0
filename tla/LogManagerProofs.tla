-------------------------- MODULE LogManagerProofs --------------------------
(***************************************************************************)
(* Theorems about LogManager, for any threads, scripts, records and limit  *)
(* of the free list.                                                       *)
(***************************************************************************)
EXTENDS LogManager, TLAPS, FiniteSetTheorems, SequenceTheorems

\* A thread on its way with a record holds one.
WithRecord == {"made", "pushing", "discard", "keeping", "hotpush", "handle"}
HoldsRecord == \A t \in Threads : pc[t] \in WithRecord => hand[t] \in Records

TypeInv == TypeOK /\ HoldsRecord

\* The free list without its last record, and that record.
LEMMA LastOfList ==
  ASSUME NEW S, NEW s \in Seq(S), s # <<>>
  PROVE  /\ Front(s) \in Seq(S) /\ Len(Front(s)) = Len(s) - 1
         /\ Last(s) \in S
<1>1. Len(s) \in Nat \ {0} /\ \A i \in 1..Len(s) : s[i] \in S
  BY EmptySeq, ElementOfSeq
<1> DEFINE n == Len(s) - 1
<1>2. n \in Nat /\ \A i \in 1..n : s[i] \in S
  BY <1>1
<1>3. SubSeq(s, 1, n) \in Seq(S) /\ Len(SubSeq(s, 1, n)) = n
  <2> HIDE DEF n
  <2>1. /\ SubSeq(s, 1, n) \in Seq(S)
        /\ Len(SubSeq(s, 1, n)) = IF 1 <= n THEN n - 1 + 1 ELSE 0
    BY <1>2, SubSeqProperties
  <2> QED
    BY <1>2, <2>1
<1> QED
  BY <1>1, <1>3 DEF Front, Last

\* makeLogData returns a record and does not make the free list longer.
LEMMA MakeType ==
  ASSUME TypeOK, NEW r \in Records, MakeLogData(r)
  PROVE  /\ _freeLogDatas' \in Seq(Records) /\ heap' \subseteq Records
         /\ Len(_freeLogDatas') <= Len(_freeLogDatas)
<1>1. CASE _freeLogDatas # <<>> /\ _freeLogDatas' = Front(_freeLogDatas) /\ UNCHANGED heap
  <2>1. _freeLogDatas \in Seq(Records) /\ Len(_freeLogDatas) \in Nat
    BY EmptySeq DEF TypeOK
  <2>2. /\ Front(_freeLogDatas) \in Seq(Records)
        /\ Len(Front(_freeLogDatas)) = Len(_freeLogDatas) - 1
    BY <1>1, <2>1, LastOfList
  <2> QED
    BY <1>1, <2>1, <2>2 DEF TypeOK
<1>2. CASE heap' = heap \cup {r} /\ UNCHANGED _freeLogDatas
  BY <1>2 DEF TypeOK
<1> QED
  BY <1>1, <1>2 DEF MakeLogData

LEMMA BlankType == Blank \in Contents
  BY DEF Blank, Contents, Threads

LEMMA InitType == Init => TypeInv
<1> SUFFICES ASSUME Init PROVE TypeInv
  OBVIOUS
<1>1. content \in [Records -> Contents]
  BY BlankType DEF Init
<1>2. pc \in [Threads -> {"none", "idle"}]
  BY DEF Init
<1>3. HoldsRecord
  BY <1>2 DEF HoldsRecord, WithRecord
<1>4. hand \in [Threads -> Records \cup {NoRecord}] /\ calls \in [Producers -> Nat]
  BY DEF Init
<1>5. /\ _logs \in Seq(Records) /\ _logsCache \in Seq(Records)
      /\ _freeLogDatas \in Seq(Records) /\ written \in Seq(Contents)
  BY EmptySeq DEF Init
<1> QED
  BY <1>1, <1>2, <1>3, <1>4, <1>5 DEF Init, TypeInv, TypeOK

\* A thread that has made a record holds it.
LEMMA FilledType ==
  ASSUME TypeInv, NEW t \in Threads, NEW r \in Records, NEW c \in Contents,
         NEW at \in WithRecord, MakeLogData(r), Filled(t, r, c), Goes(t, at),
         UNCHANGED <<_runing, queueVars, mpc, written>>, _enable' \in BOOLEAN,
         calls' \in [Producers -> Nat]
  PROVE  TypeInv'
<1>1. content' \in [Records -> Contents] /\ hand' \in [Threads -> Records \cup {NoRecord}]
  BY DEF TypeInv, TypeOK, Filled
<1>2. HoldsRecord'
  BY DEF TypeInv, TypeOK, HoldsRecord, Filled, Goes
<1>3. _freeLogDatas' \in Seq(Records) /\ heap' \subseteq Records
  BY MakeType DEF TypeInv
<1> QED
  BY <1>1, <1>2, <1>3 DEF TypeInv, TypeOK, Goes, WithRecord, queueVars

\* Every step of a thread with a record keeps the types.
LEMMA RecordStepType ==
  ASSUME TypeInv, NEW t \in Threads, RecordStep(t)
  PROVE  TypeInv'
<1> USE DEF TypeInv, TypeOK, HoldsRecord, WithRecord, Goes, Resumes, setVars, queueVars, memVars
<1>1. CASE PushLogTests(t)
  BY <1>1 DEF PushLogTests
<1>2. CASE PushLog(t)
  BY <1>2 DEF PushLog, Enqueued
<1>3. CASE FreeLogData(t)
  BY <1>3 DEF FreeLogData
<1>4. CASE FreeLogDataKeeps(t)
  BY <1>4 DEF FreeLogDataKeeps
<1> QED
  BY <1>1, <1>2, <1>3, <1>4 DEF RecordStep

\* Every step of a thread that calls the logger keeps the types.
LEMMA ProducerStepType ==
  ASSUME TypeInv, NEW p \in Producers, ProducerStep(p)
  PROVE  TypeInv'
<1> USE DEF TypeInv, setVars, queueVars, memVars
<1>0. p \in Threads
  BY DEF Threads
<1>1. CASE PrePushLog(p)
  <2>1. CASE Goes(p, "checked")
    BY <1>0, <1>1, <2>1 DEF TypeOK, HoldsRecord, WithRecord, Goes, PrePushLog, NextCall
  <2>2. CASE UNCHANGED pc
    BY <1>1, <2>2 DEF TypeOK, HoldsRecord, PrePushLog, NextCall
  <2> QED
    BY <1>1, <2>1, <2>2 DEF PrePushLog
<1>2. ASSUME NEW r \in Records, Make(p, r) PROVE TypeInv'
  <2>1. [by |-> p, n |-> calls[p], what |-> "log"] \in Contents
    BY <1>0 DEF TypeOK, Contents
  <2> QED
    BY <1>0, <1>2, <2>1, FilledType DEF Make, WithRecord, TypeOK
<1>3. CASE EnableLogger(p)
  BY <1>3 DEF TypeOK, HoldsRecord, EnableLogger, NextCall
<1>4. CASE HotChange(p)
  <2>1. calls' \in [Producers -> Nat] /\ calls'[p] \in Nat
    BY <1>4 DEF TypeOK, HotChange, NextCall
  <2>2. ThisCall(p, "disable") \in Contents
    BY <1>0, <2>1 DEF ThisCall, Contents
  <2>3. CASE ~_runing /\ _enable' = FALSE /\ UNCHANGED <<memVars, pc, hand>>
    BY <1>4, <2>1, <2>3 DEF TypeOK, HoldsRecord, HotChange
  <2>4. ASSUME NEW r \in Records, MakeLogData(r), Filled(p, r, ThisCall(p, "disable")),
               Goes(p, "hotpush"), UNCHANGED _enable
        PROVE  TypeInv'
    BY <1>0, <1>4, <2>1, <2>2, <2>4, FilledType DEF HotChange, WithRecord, TypeOK
  <2> QED
    BY <1>4, <2>3, <2>4 DEF HotChange
<1>5. CASE HotChangePushes(p)
  BY <1>0, <1>5
  DEF TypeOK, HoldsRecord, WithRecord, Goes, Resumes, HotChangePushes, Enqueued
<1> QED
  BY <1>1, <1>2, <1>3, <1>4, <1>5 DEF ProducerStep

\* Every step of run() keeps the types.
LEMMA LoggerStepType ==
  ASSUME TypeInv, LoggerStep
  PROVE  TypeInv'
<1> USE DEF TypeInv, setVars, queueVars, memVars
<1>0. Log4z \in Threads
  BY DEF Threads
<1>1. CASE RunStarts
  BY <1>0, <1>1 DEF TypeOK, HoldsRecord, WithRecord, Goes, RunStarts
<1>2. CASE Announces
  <2>1. CASE Goes(Log4z, "loop") /\ UNCHANGED <<memVars, hand>>
    BY <1>0, <1>2, <2>1 DEF TypeOK, HoldsRecord, WithRecord, Goes, Announces
  <2>2. ASSUME NEW r \in Records, MakeLogData(r), Filled(Log4z, r, Blank),
               Goes(Log4z, "made")
        PROVE  TypeInv'
    BY <1>0, <1>2, <2>2, BlankType, FilledType DEF Announces, WithRecord, TypeOK
  <2> QED
    BY <1>2, <2>1, <2>2 DEF Announces
<1>3. CASE PopLog
  <2>1. /\ hand' \in [Threads -> Records \cup {NoRecord}] /\ hand'[Log4z] \in Records
        /\ _logs' \in Seq(Records) /\ _logsCache' \in Seq(Records)
    <3>1. ASSUME NEW s \in Seq(Records), s # <<>>,
                 hand' = [hand EXCEPT ![Log4z] = Head(s)], _logsCache' = Tail(s)
          PROVE  /\ hand' \in [Threads -> Records \cup {NoRecord}]
                 /\ hand'[Log4z] \in Records /\ _logsCache' \in Seq(Records)
      <4>1. Head(s) \in Records /\ Tail(s) \in Seq(Records)
        BY <3>1, HeadTailProperties
      <4> QED
        BY <1>0, <3>1, <4>1 DEF TypeOK
    <3>2. CASE _logsCache # <<>> /\ UNCHANGED _logs
      BY <1>3, <3>1, <3>2 DEF TypeOK, PopLog
    <3>3. CASE _logs # <<>> /\ _logs' = <<>>
      BY <1>3, <3>1, <3>3, EmptySeq DEF TypeOK, PopLog
    <3> QED
      BY <1>3, <3>2, <3>3 DEF PopLog
  <2>2. \A t \in Threads \ {Log4z} : hand'[t] = hand[t]
    BY <1>0, <1>3 DEF TypeOK, PopLog
  <2> QED
    BY <1>0, <1>3, <2>1, <2>2 DEF TypeOK, HoldsRecord, WithRecord, Goes, PopLog
<1>4. CASE OnHotChange
  BY <1>0, <1>4 DEF TypeOK, HoldsRecord, WithRecord, Goes, OnHotChange
<1>5. CASE WriteLog
  <2>1. hand[Log4z] \in Records
    BY <1>0, <1>5 DEF WriteLog, HoldsRecord, WithRecord
  <2>2. content[hand[Log4z]] \in Contents
    BY <2>1 DEF TypeOK
  <2> QED
    BY <1>0, <1>5, <2>1, <2>2 DEF TypeOK, HoldsRecord, WithRecord, Goes, WriteLog
<1>6. CASE RunSleeps
  BY <1>0, <1>6 DEF TypeOK, HoldsRecord, WithRecord, Goes, RunSleeps
<1>7. CASE RunWakes
  BY <1>0, <1>7 DEF TypeOK, HoldsRecord, WithRecord, Goes, RunWakes, Quits
<1> QED
  BY <1>1, <1>2, <1>3, <1>4, <1>5, <1>6, <1>7 DEF LoggerStep

\* Every step of start() and stop() keeps the types.
LEMMA MainStepType ==
  ASSUME TypeInv, MainStep
  PROVE  TypeInv'
<1> USE DEF TypeInv, TypeOK, HoldsRecord, WithRecord, setVars, queueVars, memVars
<1>1. CASE Start
  BY <1>1 DEF Start, Goes, Threads
<1>2. CASE StartReturns \/ Joins \/ StopReturns
  BY <1>2 DEF StartReturns, Joins, StopReturns
<1>3. CASE Stop
  BY <1>3 DEF Stop
<1>4. CASE DrainDeletes
  BY <1>4 DEF DrainDeletes
<1>5. CASE DrainPops
  BY <1>5, LastOfList DEF DrainPops
<1> QED
  BY <1>1, <1>2, <1>3, <1>4, <1>5 DEF MainStep

LEMMA StepType == TypeInv /\ [Next]_vars => TypeInv'
<1>1. ASSUME TypeInv, UNCHANGED vars PROVE TypeInv'
  BY <1>1 DEF TypeInv, TypeOK, HoldsRecord, vars, setVars, queueVars, memVars
<1> QED
  BY <1>1, RecordStepType, ProducerStepType, LoggerStepType, MainStepType DEF Next

\* The variables have their types in every reachable state; in particular a thread
\* that pushes or frees a record holds one (makeLogData, pushLog, freeLogData).
THEOREM TypeCorrect == Spec => []TypeOK
<1>1. TypeInv => TypeOK
  BY DEF TypeInv
<1> QED
  BY <1>1, InitType, StepType, PTL DEF Spec

-----------------------------------------------------------------------------
(***************************************************************************)
(* No record is lost when the threads that log are stopped first           *)
(***************************************************************************)
\* Once the flag is reset nobody logs any more, so the queue that the logger's thread
\* finds empty when it quits stays empty.
StoppedIdle ==
  /\ ~_runing /\ pc[Log4z] \notin {"none", "start"} => Idle
  /\ pc[Log4z] \in {"quit", "ended"} => _logsCache = <<>>
  /\ pc[Log4z] = "ended" => ~_runing /\ _logs = <<>>

LEMMA InitStopped == Init => StoppedIdle
  BY DEF Init, StoppedIdle, Threads

\* Threads that have made all their calls do nothing more.
LEMMA IdleStays ==
  ASSUME TypeOK, Idle, Next
  PROVE  Idle' /\ (LoggerStep \/ RecordStep(Log4z) \/ MainStep)
<1>1. \A p \in Producers : ~ProducerStep(p)
  BY LogAssumption
  DEF Idle, TypeOK, ProducerStep, PrePushLog, Make, EnableLogger, HotChange,
      HotChangePushes, NextCall
<1>2. \A p \in Producers : ~RecordStep(p)
  BY DEF Idle, RecordStep, PushLogTests, PushLog, FreeLogData, FreeLogDataKeeps
<1>3. LoggerStep \/ RecordStep(Log4z) \/ MainStep
  BY <1>1, <1>2 DEF Next, Threads
<1>4. UNCHANGED calls /\ \A p \in Producers : pc'[p] = pc[p]
  <2>1. CASE LoggerStep
    BY <2>1, ThreadAssumption
    DEF LoggerStep, RunStarts, Announces, PopLog, OnHotChange, WriteLog, RunSleeps,
        RunWakes, Goes, TypeOK, Threads
  <2>2. CASE RecordStep(Log4z)
    BY <2>2, ThreadAssumption
    DEF RecordStep, PushLogTests, PushLog, Enqueued, FreeLogData, FreeLogDataKeeps, Goes,
        TypeOK, Threads
  <2>3. CASE MainStep
    BY <2>3, ThreadAssumption
    DEF MainStep, Start, StartReturns, Stop, Joins, DrainDeletes, DrainPops, StopReturns,
        Goes, TypeOK, Threads
  <2> QED
    BY <1>3, <2>1, <2>2, <2>3
<1> QED
  BY <1>3, <1>4 DEF Idle

\* A step of a thread that logs leaves the flag, the cache and the logger's thread
\* alone.
LEMMA ProducerLeaves ==
  ASSUME TypeOK, NEW p \in Producers, ProducerStep(p) \/ RecordStep(p)
  PROVE  UNCHANGED <<_runing, _logsCache>> /\ pc'[Log4z] = pc[Log4z]
<1>1. p # Log4z /\ p \in Threads /\ Log4z \in Threads
  BY ThreadAssumption DEF Threads
<1>2. CASE ProducerStep(p)
  BY <1>1, <1>2
  DEF ProducerStep, PrePushLog, Make, EnableLogger, HotChange, HotChangePushes, Enqueued,
      NextCall, Goes, TypeOK, setVars, queueVars
<1>3. CASE RecordStep(p)
  BY <1>1, <1>3
  DEF RecordStep, PushLogTests, PushLog, Enqueued, FreeLogData, FreeLogDataKeeps, Goes,
      TypeOK, setVars, queueVars
<1> QED
  BY <1>2, <1>3

LEMMA StepStopped ==
  ASSUME StopWhenIdle, TypeInv, StoppedIdle, [Next]_vars
  PROVE  StoppedIdle'
<1>1. CASE UNCHANGED vars
  BY <1>1 DEF vars, setVars, queueVars, StoppedIdle, Idle
<1>2. ASSUME NEW p \in Producers, ProducerStep(p) \/ RecordStep(p), Next
      PROVE  StoppedIdle'
  <2>1. UNCHANGED <<_runing, _logsCache>> /\ pc'[Log4z] = pc[Log4z]
    BY <1>2, ProducerLeaves DEF TypeInv
  <2>2. ~Idle
    BY <1>2, LogAssumption
    DEF Idle, TypeInv, TypeOK, ProducerStep, PrePushLog, Make, EnableLogger, HotChange,
        HotChangePushes, NextCall, RecordStep, PushLogTests, PushLog, FreeLogData,
        FreeLogDataKeeps
  <2> QED
    BY <2>1, <2>2 DEF StoppedIdle
<1>3. ASSUME Next, LoggerStep PROVE StoppedIdle'
  <2>1. Idle => Idle'
    BY <1>3, IdleStays DEF TypeInv
  <2>2. Log4z \in Threads
    BY DEF Threads
  <2>3. CASE RunStarts
    BY <2>2, <2>3 DEF RunStarts, StoppedIdle, Goes, TypeInv, TypeOK
  <2>4. CASE Announces
    BY <2>1, <2>2, <2>4
    DEF Announces, StoppedIdle, Goes, TypeInv, TypeOK, setVars
  <2>5. CASE PopLog
    BY <2>1, <2>2, <2>5 DEF PopLog, StoppedIdle, Goes, TypeInv, TypeOK, setVars
  <2>6. CASE OnHotChange \/ WriteLog
    BY <2>1, <2>2, <2>6
    DEF OnHotChange, WriteLog, StoppedIdle, Goes, TypeInv, TypeOK, setVars
  <2>7. CASE RunSleeps
    BY <2>1, <2>2, <2>7
    DEF RunSleeps, StoppedIdle, Goes, TypeInv, TypeOK, setVars, queueVars
  <2>8. CASE RunWakes
    BY <2>1, <2>2, <2>8
    DEF RunWakes, Quits, StoppedIdle, Goes, TypeInv, TypeOK, queueVars
  <2> QED
    BY <1>3, <2>3, <2>4, <2>5, <2>6, <2>7, <2>8 DEF LoggerStep
<1>4. ASSUME Next, RecordStep(Log4z) PROVE StoppedIdle'
  <2>1. Idle => Idle'
    BY <1>4, IdleStays DEF TypeInv
  <2>2. Log4z \in Threads
    BY DEF Threads
  <2> QED
    BY <1>4, <2>1, <2>2
    DEF RecordStep, PushLogTests, PushLog, Enqueued, FreeLogData, FreeLogDataKeeps,
        Resumes, StoppedIdle, Goes, TypeInv, TypeOK, setVars
<1>5. ASSUME Next, MainStep PROVE StoppedIdle'
  <2>1. Idle => Idle'
    BY <1>5, IdleStays DEF TypeInv
  <2>2. Log4z \in Threads
    BY DEF Threads
  <2>3. CASE Start
    BY <2>2, <2>3 DEF Start, StoppedIdle, Goes, TypeInv, TypeOK, setVars, queueVars
  <2>4. CASE Stop
    BY <2>1, <2>4 DEF Stop, StoppedIdle, queueVars
  <2>5. CASE StartReturns \/ Joins \/ DrainDeletes \/ DrainPops \/ StopReturns
    BY <2>1, <2>5
    DEF StartReturns, Joins, DrainDeletes, DrainPops, StopReturns, StoppedIdle, setVars,
        queueVars
  <2> QED
    BY <1>5, <2>3, <2>4, <2>5 DEF MainStep
<1> QED
  BY <1>1, <1>2, <1>3, <1>4, <1>5 DEF Next, Threads

\* When the program ends the threads that log before it stops the logger, as main()
\* does, everything pushed has been popped when the logger's thread ends: "no record is
\* lost on a normal exit", under the condition that the code needs for it.
THEOREM NothingLost ==
  ASSUME StopWhenIdle
  PROVE  Spec => []NoRecordLost
<1> DEFINE Inv == TypeInv /\ StoppedIdle
<1>1. Init => Inv
  BY InitType, InitStopped
<1>2. Inv /\ [Next]_vars => Inv'
  BY StepType, StepStopped
<1>3. Inv => NoRecordLost
  BY DEF StoppedIdle, NoRecordLost
<1> QED
  BY <1>1, <1>2, <1>3, PTL DEF Spec

-----------------------------------------------------------------------------
(***************************************************************************)
(* The unlocked test of the free list                                      *)
(***************************************************************************)
LEMMA ThreadsFinite ==
  IsFiniteSet(Threads) /\ Cardinality(Threads) \in Nat /\ Cardinality(Threads) >= 1
<1>1. IsFiniteSet(Producers) /\ Log4z \notin Producers
  BY LogAssumption, ThreadAssumption
<1>2. Cardinality(Producers) \in Nat
  BY <1>1, FS_CardinalityType
<1> QED
  BY <1>1, <1>2, FS_AddElement DEF Threads

LEMMA KeepingFinite ==
  /\ IsFiniteSet(Keeping) /\ Cardinality(Keeping) \in Nat
  /\ Cardinality(Keeping) <= Cardinality(Threads)
<1>1. Keeping \subseteq Threads
  BY DEF Keeping
<1> QED
  BY <1>1, ThreadsFinite, FS_Subset, FS_CardinalityType

LEMMA KeepingFinitePrime ==
  /\ IsFiniteSet(Keeping') /\ Cardinality(Keeping') \in Nat
  /\ Cardinality(Keeping') <= Cardinality(Threads)
<1>1. Keeping' \subseteq Threads
  BY DEF Keeping
<1> QED
  BY <1>1, ThreadsFinite, FS_Subset, FS_CardinalityType

\* Only freeLogData adds a thread to those that keep, or a record to the free list.
LEMMA NoOtherKeeps ==
  ASSUME TypeInv, Next, \A t \in Threads : ~FreeLogData(t) /\ ~FreeLogDataKeeps(t)
  PROVE  Keeping' \subseteq Keeping /\ Len(_freeLogDatas') <= Len(_freeLogDatas)
<1> USE DEF TypeInv, setVars, queueVars, memVars
<1>0. Len(_freeLogDatas) \in Nat
  BY EmptySeq DEF TypeOK
<1>1. ASSUME NEW p \in Producers, ProducerStep(p)
      PROVE  Keeping' = Keeping /\ Len(_freeLogDatas') <= Len(_freeLogDatas)
  <2>1. Keeping' = Keeping
    BY <1>1
    DEF Keeping, TypeOK, Goes, ProducerStep, PrePushLog, Make, EnableLogger, HotChange,
        HotChangePushes, Enqueued, NextCall, Resumes, Threads
  <2>2. UNCHANGED _freeLogDatas \/ \E r \in Records : MakeLogData(r)
    BY <1>1
    DEF ProducerStep, PrePushLog, Make, EnableLogger, HotChange, HotChangePushes
  <2> QED
    BY <1>0, <2>1, <2>2, MakeType
<1>2. ASSUME NEW t \in Threads, RecordStep(t)
      PROVE  Keeping' = Keeping /\ Len(_freeLogDatas') <= Len(_freeLogDatas)
  BY <1>0, <1>2
  DEF Keeping, TypeOK, Goes, RecordStep, PushLogTests, PushLog, Enqueued, Resumes
<1>3. CASE LoggerStep
  <2>1. Keeping' = Keeping
    BY <1>3
    DEF Keeping, TypeOK, Goes, LoggerStep, RunStarts, Announces, PopLog, OnHotChange,
        WriteLog, RunSleeps, RunWakes, Threads
  <2>2. UNCHANGED _freeLogDatas \/ \E r \in Records : MakeLogData(r)
    BY <1>3
    DEF LoggerStep, RunStarts, Announces, PopLog, OnHotChange, WriteLog, RunSleeps, RunWakes
  <2> QED
    BY <1>0, <2>1, <2>2, MakeType
<1>4. CASE MainStep
  <2>1. CASE Start
    BY <1>0, <2>1 DEF Start, Keeping, Goes, TypeOK
  <2>2. CASE StartReturns \/ Stop \/ Joins \/ DrainDeletes \/ StopReturns
    BY <1>0, <2>2 DEF StartReturns, Stop, Joins, DrainDeletes, StopReturns, Keeping
  <2>3. CASE DrainPops
    <3>1. Keeping' = Keeping
      BY <2>3 DEF DrainPops, Keeping
    <3>2. _freeLogDatas # <<>> => Len(Front(_freeLogDatas)) = Len(_freeLogDatas) - 1
      BY LastOfList DEF TypeOK
    <3> QED
      BY <1>0, <2>3, <3>1, <3>2 DEF DrainPops
  <2> QED
    BY <1>4, <2>1, <2>2, <2>3 DEF MainStep
<1> QED
  BY <1>1, <1>2, <1>3, <1>4 DEF Next

LEMMA StepBounded ==
  ASSUME TypeInv, FreeListBounded, [Next]_vars
  PROVE  FreeListBounded'
<1>0. /\ Len(_freeLogDatas) \in Nat /\ _freeLogDatas \in Seq(Records)
      /\ FreeMax \in Nat
  BY EmptySeq, LogAssumption DEF TypeInv, TypeOK
<1>1. CASE UNCHANGED vars
  BY <1>1 DEF vars, memVars, FreeListBounded, Keeping
<1>2. ASSUME NEW t \in Threads, FreeLogData(t) PROVE FreeListBounded'
  <2>1. CASE KeepsRecord
    BY <1>0, <1>2, <2>1, ThreadsFinite, KeepingFinitePrime
    DEF FreeLogData, KeepsRecord, FreeListBounded
  <2>2. CASE ~KeepsRecord
    <3>1. Keeping' = Keeping /\ UNCHANGED _freeLogDatas
      BY <1>0, <1>2, <2>2 DEF FreeLogData, Keeping, Goes, Resumes, TypeInv, TypeOK
    <3> QED
      BY <3>1 DEF FreeListBounded
  <2> QED
    BY <2>1, <2>2
<1>3. ASSUME NEW t \in Threads, FreeLogDataKeeps(t) PROVE FreeListBounded'
  <2>1. Keeping' = Keeping \ {t} /\ t \in Keeping
    BY <1>0, <1>3 DEF FreeLogDataKeeps, Keeping, Goes, Resumes, TypeInv, TypeOK
  <2>2. Cardinality(Keeping') = Cardinality(Keeping) - 1
    BY <2>1, KeepingFinite, FS_RemoveElement
  <2>3. Len(_freeLogDatas') = Len(_freeLogDatas) + 1
    <3>1. hand[t] \in Records
      BY <1>3 DEF TypeInv, HoldsRecord, WithRecord, FreeLogDataKeeps
    <3> QED
      BY <1>0, <1>3, <3>1, AppendProperties DEF FreeLogDataKeeps
  <2> QED
    BY <1>0, <2>2, <2>3, ThreadsFinite, KeepingFinite DEF FreeListBounded
<1>4. ASSUME Next, \A t \in Threads : ~FreeLogData(t) /\ ~FreeLogDataKeeps(t)
      PROVE  FreeListBounded'
  <2>1. Len(_freeLogDatas') \in Nat
    BY <1>4, StepType, EmptySeq DEF TypeInv, TypeOK
  <2>2. Keeping' \subseteq Keeping /\ Len(_freeLogDatas') <= Len(_freeLogDatas)
    BY <1>4, NoOtherKeeps
  <2>3. Cardinality(Keeping') <= Cardinality(Keeping)
    BY <2>2, KeepingFinite, FS_Subset
  <2> QED
    BY <1>0, <2>1, <2>2, <2>3, ThreadsFinite, KeepingFinite, KeepingFinitePrime
    DEF FreeListBounded
<1> QED
  BY <1>1, <1>2, <1>3, <1>4

\* The free list exceeds its limit by at most one record a thread, although its size is
\* tested without the lock (freeLogData).
THEOREM FreeListStaysBounded == Spec => []FreeListBounded
<1> DEFINE Inv == TypeInv /\ FreeListBounded
<1>1. Init => Inv
  <2> SUFFICES ASSUME Init PROVE FreeListBounded
    BY InitType
  <2>1. Keeping = {}
    BY DEF Init, Keeping
  <2> QED
    BY <2>1, ThreadsFinite, FS_EmptySet, EmptySeq, LogAssumption DEF Init, FreeListBounded
<1>2. Inv /\ [Next]_vars => Inv'
  BY StepType, StepBounded
<1>3. Inv => FreeListBounded
  OBVIOUS
<1> QED
  BY <1>1, <1>2, <1>3, PTL DEF Spec

=============================================================================
