----------------------------- MODULE LogManager -----------------------------
(***************************************************************************)
(* LogerManager of libs/log4z.cpp: the threads of the program push records *)
(* on a queue, the logger's own thread pops and writes them, and the       *)
(* memory of the records circulates through a free list.                   *)
(*                                                                         *)
(* A step is what a thread does between two accesses to shared state that  *)
(* another thread may interleave with: the tests of _runing and of a       *)
(* logger's settings are not under a lock, the queue and the free list are *)
(* changed under theirs, and the size of the free list is tested outside.  *)
(* These unlocked reads are data races; between two calls the compiler     *)
(* cannot keep the flags in registers, and a read sees what was written.   *)
(* One logger is modelled, with its setting _enable (_level is treated the *)
(* same way by the code: relaxed at once, tightened through the queue).    *)
(***************************************************************************)
EXTENDS Integers, FiniteSets, SequencesExt

CONSTANTS
  Producers,         \* the threads that log
  Script,            \* Script[p]: the calls p makes, in order
  Records,           \* addresses of LogData (bound: never all in use)
  NoRecord,          \* a pointer to no record
  FreeMax,           \* limit of the free list (200 in the code)
  StopWhenIdle       \* the program stops its threads before it exits

Calls == {"log", "disable", "enable"}

ASSUME LogAssumption ==
  /\ IsFiniteSet(Producers)
  /\ Script \in [Producers -> Seq(Calls)]
  /\ NoRecord \notin Records
  /\ FreeMax \in Nat /\ StopWhenIdle \in BOOLEAN

Log4z   == "log4z"                   \* the logger's thread
Threads == Producers \cup {Log4z}
ASSUME ThreadAssumption == Log4z \notin Producers

VARIABLES
  _runing,           \* LogerManager::_runing
  _enable,           \* LoggerInfo::_enable
  _logs,             \* the queue
  _logsCache,        \* the queue the logger's thread has taken over
  _freeLogDatas,     \* the free list
  heap,              \* the records allocated
  content,           \* content[r]: what record r holds
  pushes, pops,      \* _ullStatusTotalPushLog, _ullStatusTotalPopLog
  pc, hand,          \* where each thread is, and the record it holds
  calls,             \* calls[p]: how many calls of its script p has begun
  mpc,               \* the thread that starts and stops the logger
  written            \* what was written, in order

queueVars == <<_logs, _logsCache, pushes, pops>>
memVars   == <<_freeLogDatas, heap, content>>
setVars   == <<_runing, _enable>>
vars == <<setVars, queueVars, memVars, pc, hand, calls, mpc, written>>

\* What a record holds: the n-th call of thread by, or the logger's own first
\* message (n = 0).
Contents == [by : Threads, n : Nat, what : {"log", "disable"}]
Blank    == [by |-> Log4z, n |-> 0, what |-> "log"]

TypeOK ==
  /\ _runing \in BOOLEAN /\ _enable \in BOOLEAN
  /\ _logs \in Seq(Records) /\ _logsCache \in Seq(Records)
  /\ _freeLogDatas \in Seq(Records)
  /\ heap \subseteq Records
  /\ content \in [Records -> Contents]
  /\ pushes \in Nat /\ pops \in Nat
  /\ pc \in [Threads -> {"idle", "checked", "made", "pushing", "discard", "keeping", "hotpush",
                         "none", "start", "announce", "loop", "handle", "quit", "ended"}]
  /\ hand \in [Threads -> Records \cup {NoRecord}]
  /\ calls \in [Producers -> Nat]
  /\ mpc \in {"init", "starting", "up", "joining", "draining", "popping", "stopped", "crashed"}
  /\ written \in Seq(Contents)

Init ==
  /\ _runing = FALSE /\ _enable = TRUE
  /\ _logs = <<>> /\ _logsCache = <<>> /\ _freeLogDatas = <<>>
  /\ heap = {}
  /\ content = [r \in Records |-> Blank]
  /\ pushes = 0 /\ pops = 0
  /\ pc = [t \in Threads |-> IF t = Log4z THEN "none" ELSE "idle"]
  /\ hand = [t \in Threads |-> NoRecord]
  /\ calls = [p \in Producers |-> 0]
  /\ mpc = "init"
  /\ written = <<>>

-----------------------------------------------------------------------------
Goes(t, at) == pc' = [pc EXCEPT ![t] = at]

(***************************************************************************)
(* The memory of the records                                               *)
(***************************************************************************)
\* makeLogData: the last record of the free list, or a new one.  (Mutant: the
\* record taken is left on the list.)
MakeLogData_NoPop(r) ==
  \/ _freeLogDatas # <<>> /\ r = Last(_freeLogDatas) /\ UNCHANGED <<_freeLogDatas, heap>>
  \/ /\ _freeLogDatas = <<>> /\ r \in Records \ heap
     /\ heap' = heap \cup {r} /\ UNCHANGED _freeLogDatas

MakeLogData(r) ==
  \/ /\ _freeLogDatas # <<>> /\ r = Last(_freeLogDatas)
     /\ _freeLogDatas' = Front(_freeLogDatas) /\ UNCHANGED heap
  \/ /\ _freeLogDatas = <<>> /\ r \in Records \ heap
     /\ heap' = heap \cup {r} /\ UNCHANGED _freeLogDatas

Filled(t, r, c) ==
  /\ hand' = [hand EXCEPT ![t] = r]
  /\ content' = [content EXCEPT ![r] = c]

\* Where a thread goes on after it has pushed or freed its record.
Resumes(t) == IF t = Log4z THEN "loop" ELSE "idle"

\* freeLogData tests the size of the free list without its lock.  (Mutant: one
\* record more is kept.)
KeepsRecord_OneMore == Len(_freeLogDatas) <= FreeMax
KeepsRecord         == Len(_freeLogDatas) < FreeMax

FreeLogData(t) ==
  /\ pc[t] = "discard"
  /\ \/ KeepsRecord /\ Goes(t, "keeping") /\ UNCHANGED <<heap, hand>>
     \/ /\ ~KeepsRecord
        /\ heap' = heap \ {hand[t]}
        /\ hand' = [hand EXCEPT ![t] = NoRecord]
        /\ Goes(t, Resumes(t))
  /\ UNCHANGED <<setVars, queueVars, _freeLogDatas, content, calls, mpc, written>>

\* ... and then puts the record there under the lock.  (Mutant: the pointer is
\* cleared first.)
FreeLogDataKeeps_Cleared(t) ==
  /\ pc[t] = "keeping"
  /\ _freeLogDatas' = Append(_freeLogDatas, NoRecord)
  /\ hand' = [hand EXCEPT ![t] = NoRecord]
  /\ Goes(t, Resumes(t))
  /\ UNCHANGED <<setVars, queueVars, heap, content, calls, mpc, written>>

FreeLogDataKeeps(t) ==
  /\ pc[t] = "keeping"
  /\ _freeLogDatas' = Append(_freeLogDatas, hand[t])
  /\ hand' = [hand EXCEPT ![t] = NoRecord]
  /\ Goes(t, Resumes(t))
  /\ UNCHANGED <<setVars, queueVars, heap, content, calls, mpc, written>>

-----------------------------------------------------------------------------
(***************************************************************************)
(* A thread that logs                                                      *)
(***************************************************************************)
NextCall(p, what) ==
  /\ pc[p] = "idle" /\ calls[p] < Len(Script[p])
  /\ Script[p][calls[p] + 1] = what
  /\ calls' = [calls EXCEPT ![p] = @ + 1]

ThisCall(p, what) == [by |-> p, n |-> calls'[p], what |-> what]

\* The macro LOG_STREAM asks prePushLog before it makes a record.
PrePushLog(p) ==
  /\ NextCall(p, "log")
  /\ IF _runing /\ _enable THEN Goes(p, "checked") ELSE UNCHANGED pc
  /\ UNCHANGED <<setVars, queueVars, memVars, hand, mpc, written>>

Make(p, r) ==
  /\ pc[p] = "checked"
  /\ MakeLogData(r)
  /\ Filled(p, r, [by |-> p, n |-> calls[p], what |-> "log"])
  /\ Goes(p, "made")
  /\ UNCHANGED <<setVars, queueVars, calls, mpc, written>>

\* pushLog tests again, without a lock, whether the record is wanted.
PushLogTests(t) ==
  /\ pc[t] = "made"
  /\ Goes(t, IF _runing /\ _enable THEN "pushing" ELSE "discard")
  /\ UNCHANGED <<setVars, queueVars, memVars, hand, calls, mpc, written>>

\* The record is put on the queue under its lock.
Enqueued(t) ==
  /\ _logs' = Append(_logs, hand[t])
  /\ hand' = [hand EXCEPT ![t] = NoRecord]
  /\ Goes(t, Resumes(t))

PushLog(t) ==
  /\ pc[t] = "pushing"
  /\ Enqueued(t)
  /\ pushes' = pushes + 1
  /\ UNCHANGED <<setVars, _logsCache, pops, memVars, calls, mpc, written>>

\* enableLogger(id, true) takes effect at once.
EnableLogger(p) ==
  /\ NextCall(p, "enable")
  /\ _enable' = TRUE
  /\ UNCHANGED <<_runing, queueVars, memVars, pc, hand, mpc, written>>

\* enableLogger(id, false) goes through hotChange: at once when the logger's
\* thread does not run, else by a record on the queue.
HotChange(p) ==
  /\ NextCall(p, "disable")
  /\ \/ /\ ~_runing
        /\ _enable' = FALSE
        /\ UNCHANGED <<memVars, pc, hand>>
     \/ /\ _runing
        /\ \E r \in Records : MakeLogData(r) /\ Filled(p, r, ThisCall(p, "disable"))
        /\ Goes(p, "hotpush")
        /\ UNCHANGED _enable
  /\ UNCHANGED <<_runing, queueVars, mpc, written>>

\* (Mutant: settings are counted as records.)
HotChangePushes_Counts(p) ==
  /\ pc[p] = "hotpush"
  /\ Enqueued(p)
  /\ pushes' = pushes + 1
  /\ UNCHANGED <<setVars, _logsCache, pops, memVars, calls, mpc, written>>

HotChangePushes(p) ==
  /\ pc[p] = "hotpush"
  /\ Enqueued(p)
  /\ UNCHANGED <<setVars, _logsCache, pushes, pops, memVars, calls, mpc, written>>

-----------------------------------------------------------------------------
(***************************************************************************)
(* The logger's thread: run()                                              *)
(***************************************************************************)
RunStarts ==
  /\ pc[Log4z] = "start"
  /\ _runing' = TRUE
  /\ Goes(Log4z, "announce")
  /\ UNCHANGED <<_enable, queueVars, memVars, hand, calls, mpc, written>>

\* The thread logs its own start like any other (one record stands for the lines
\* it logs), then posts the semaphore start() waits on.
Announces ==
  /\ pc[Log4z] = "announce"
  /\ \/ /\ _runing /\ _enable
        /\ \E r \in Records : MakeLogData(r) /\ Filled(Log4z, r, Blank)
        /\ Goes(Log4z, "made")
     \/ ~(_runing /\ _enable) /\ Goes(Log4z, "loop") /\ UNCHANGED <<memVars, hand>>
  /\ UNCHANGED <<setVars, queueVars, calls, mpc, written>>

\* popLog: from the cache, which takes over the whole queue when it is empty.
\* (Mutant: the queue is taken over from its back.)
PopLog_Back ==
  /\ pc[Log4z] = "loop"
  /\ \/ /\ _logsCache # <<>>
        /\ hand' = [hand EXCEPT ![Log4z] = Last(_logsCache)]
        /\ _logsCache' = Front(_logsCache) /\ UNCHANGED _logs
     \/ /\ _logsCache = <<>> /\ _logs # <<>>
        /\ hand' = [hand EXCEPT ![Log4z] = Last(_logs)]
        /\ _logsCache' = Front(_logs) /\ _logs' = <<>>
  /\ Goes(Log4z, "handle")
  /\ UNCHANGED <<setVars, pushes, pops, memVars, calls, mpc, written>>

PopLog ==
  /\ pc[Log4z] = "loop"
  /\ \/ /\ _logsCache # <<>>
        /\ hand' = [hand EXCEPT ![Log4z] = Head(_logsCache)]
        /\ _logsCache' = Tail(_logsCache) /\ UNCHANGED _logs
     \/ /\ _logsCache = <<>> /\ _logs # <<>>
        /\ hand' = [hand EXCEPT ![Log4z] = Head(_logs)]
        /\ _logsCache' = Tail(_logs) /\ _logs' = <<>>
  /\ Goes(Log4z, "handle")
  /\ UNCHANGED <<setVars, pushes, pops, memVars, calls, mpc, written>>

\* A setting takes effect: onHotChange.
OnHotChange ==
  /\ pc[Log4z] = "handle" /\ content[hand[Log4z]].what = "disable"
  /\ _enable' = FALSE
  /\ Goes(Log4z, "discard")
  /\ UNCHANGED <<_runing, queueVars, memVars, hand, calls, mpc, written>>

\* A record is written if the logger is enabled now; its memory is freed.
\* (Mutant: the setting is not looked at again when the record is popped.)
WriteLog_NoRecheck ==
  /\ pc[Log4z] = "handle" /\ content[hand[Log4z]].what = "log"
  /\ pops' = pops + 1
  /\ written' = Append(written, content[hand[Log4z]])
  /\ Goes(Log4z, "discard")
  /\ UNCHANGED <<setVars, _logs, _logsCache, pushes, memVars, hand, calls, mpc>>

WriteLog ==
  /\ pc[Log4z] = "handle" /\ content[hand[Log4z]].what = "log"
  /\ pops' = pops + 1
  /\ written' = IF _enable THEN Append(written, content[hand[Log4z]]) ELSE written
  /\ Goes(Log4z, "discard")
  /\ UNCHANGED <<setVars, _logs, _logsCache, pushes, memVars, hand, calls, mpc>>

\* Nothing is left to pop: files are flushed and the thread sleeps.
RunSleeps ==
  /\ pc[Log4z] = "loop" /\ _logsCache = <<>> /\ _logs = <<>>
  /\ Goes(Log4z, "quit")
  /\ UNCHANGED <<setVars, queueVars, memVars, hand, calls, mpc, written>>

\* When does the thread quit after its sleep?  (Mutant: without looking at the
\* queue once more.)
Quits_Early == ~_runing
Quits       == ~_runing /\ _logs = <<>>

RunWakes ==
  /\ pc[Log4z] = "quit"
  /\ Goes(Log4z, IF Quits THEN "ended" ELSE "loop")
  /\ _enable' = (_enable /\ ~Quits)
  /\ UNCHANGED <<_runing, queueVars, memVars, hand, calls, mpc, written>>

-----------------------------------------------------------------------------
(***************************************************************************)
(* start() and stop()                                                      *)
(***************************************************************************)
Start ==
  /\ mpc = "init"
  /\ mpc' = "starting"
  /\ Goes(Log4z, "start")
  /\ UNCHANGED <<setVars, queueVars, memVars, hand, calls, written>>

\* start() returns when the thread has posted, or after three seconds.
StartReturns ==
  /\ mpc = "starting"
  /\ mpc' = "up"
  /\ UNCHANGED <<setVars, queueVars, memVars, pc, hand, calls, written>>

\* All the threads that log have ended.
Idle == \A p \in Producers : pc[p] = "idle" /\ calls[p] = Len(Script[p])

\* stop(): does nothing unless the thread runs.  (Mutant: _runing is not reset.)
Stop_NotReset ==
  /\ mpc = "up" /\ (StopWhenIdle => Idle)
  /\ mpc' = IF _runing THEN "joining" ELSE "stopped"
  /\ UNCHANGED <<setVars, queueVars, memVars, pc, hand, calls, written>>

Stop ==
  /\ mpc = "up" /\ (StopWhenIdle => Idle)
  /\ mpc' = IF _runing THEN "joining" ELSE "stopped"
  /\ _runing' = FALSE
  /\ UNCHANGED <<_enable, queueVars, memVars, pc, hand, calls, written>>

Joins ==
  /\ mpc = "joining" /\ pc[Log4z] = "ended"
  /\ mpc' = "draining"
  /\ UNCHANGED <<setVars, queueVars, memVars, pc, hand, calls, written>>

\* The free list is emptied without its lock: delete the last record ...
DrainDeletes ==
  /\ mpc = "draining" /\ _freeLogDatas # <<>>
  /\ mpc' = "popping"
  /\ heap' = heap \ {Last(_freeLogDatas)}
  /\ UNCHANGED <<setVars, queueVars, _freeLogDatas, content, pc, hand, calls, written>>

\* ... then drop the last entry, whichever that is by now.  On an empty vector
\* pop_back wraps its size and the next delete is of no record.
DrainPops ==
  /\ mpc = "popping"
  /\ \/ /\ _freeLogDatas # <<>>
        /\ _freeLogDatas' = Front(_freeLogDatas)
        /\ mpc' = "draining"
     \/ /\ _freeLogDatas = <<>>
        /\ mpc' = "crashed"
        /\ UNCHANGED _freeLogDatas
  /\ UNCHANGED <<setVars, queueVars, heap, content, pc, hand, calls, written>>

StopReturns ==
  /\ mpc = "draining" /\ _freeLogDatas = <<>>
  /\ mpc' = "stopped"
  /\ UNCHANGED <<setVars, queueVars, memVars, pc, hand, calls, written>>

-----------------------------------------------------------------------------
\* What any thread does with the record it holds.
RecordStep(t) ==
  PushLogTests(t) \/ PushLog(t) \/ FreeLogData(t) \/ FreeLogDataKeeps(t)

ProducerStep(p) ==
  \/ PrePushLog(p) \/ (\E r \in Records : Make(p, r))
  \/ EnableLogger(p) \/ HotChange(p) \/ HotChangePushes(p)

LoggerStep ==
  RunStarts \/ Announces \/ PopLog \/ OnHotChange \/ WriteLog \/ RunSleeps \/ RunWakes

MainStep ==
  Start \/ StartReturns \/ Stop \/ Joins \/ DrainDeletes \/ DrainPops \/ StopReturns

Next ==
  /\ mpc # "crashed"
  /\ \/ \E p \in Producers : ProducerStep(p)
     \/ \E t \in Threads : RecordStep(t)
     \/ LoggerStep
     \/ MainStep

Spec == Init /\ [][Next]_vars

(***************************************************************************)
(* Fairness: the operating system runs the logger's thread and the thread  *)
(* that stops it.  Nothing is assumed of the threads that log.             *)
(***************************************************************************)
FairSpec == Spec /\ WF_vars(LoggerStep \/ RecordStep(Log4z)) /\ WF_vars(MainStep)

-----------------------------------------------------------------------------
(***************************************************************************)
(* Properties                                                              *)
(***************************************************************************)
PlacesOf(r) ==
  Cardinality({i \in 1..Len(_logs) : _logs[i] = r})
    + Cardinality({i \in 1..Len(_logsCache) : _logsCache[i] = r})
    + Cardinality({i \in 1..Len(_freeLogDatas) : _freeLogDatas[i] = r})
    + Cardinality({t \in Threads : hand[t] = r})

\* Every allocated record is in exactly one place - the queue, the cache, the
\* free list or the hands of one thread - and a record that was deleted in none:
\* memory is neither leaked nor used by two at once.
OnePlace ==
  mpc # "popping" => \A r \in Records : PlacesOf(r) = IF r \in heap THEN 1 ELSE 0

\* Records of one thread are written in the order it logged them, each once.
InOrder ==
  \A i, j \in 1..Len(written) :
    i < j /\ written[i].by = written[j].by => written[i].n < written[j].n

\* A setting is applied between the records its thread logged before and after
\* it: nothing a thread logs after it disabled the logger is written (when no
\* thread enables it again).
SettingsInOrder ==
  (\A p \in Producers : \A k \in 1..Len(Script[p]) : Script[p][k] # "enable") =>
    \A i \in 1..Len(written) : written[i].by \in Producers =>
      \A k \in 1..(written[i].n - 1) : Script[written[i].by][k] # "disable"

\* What pushLog accepted has been popped when the logger's thread ends: no record
\* and no setting is left on the queue for ever.
NoRecordLost == pc[Log4z] = "ended" => _logs = <<>> /\ _logsCache = <<>>

IsGeneral(r) == content[r].what = "log"
Waiting == {r \in Range(_logs) \cup Range(_logsCache) : IsGeneral(r)}

\* The two counters of the status interface differ by the records under way: those in
\* the queue and its cache and the one that is about to be written.
CountersAgree ==
  pushes = pops + Cardinality(Waiting)
                + IF pc[Log4z] = "handle" /\ IsGeneral(hand[Log4z]) THEN 1 ELSE 0

\* The free list exceeds its limit by no more than the threads that may have
\* passed the unlocked test together, counting the records on their way to it.
Keeping == {t \in Threads : pc[t] = "keeping"}
FreeListBounded ==
  Len(_freeLogDatas) + Cardinality(Keeping) <= FreeMax - 1 + Cardinality(Threads)

\* stop() returns, whatever the threads that log are doing (or the race on the
\* free list has crashed the process).
StopTerminates == mpc = "joining" ~> mpc \in {"stopped", "crashed"}
=============================================================================
