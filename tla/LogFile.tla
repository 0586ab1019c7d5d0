------------------------------- MODULE LogFile -------------------------------
(***************************************************************************)
(* The files of the main logger (src/src/libs/log4z.cpp): how the logger's *)
(* thread opens, rolls, writes and removes them while threads log, callers *)
(* change settings and the configuration file is rewritten.                *)
(*                                                                         *)
(* Time is counted in the minutes that file names show; time(NULL) and a   *)
(* record's time are such minutes.  What LogManager has about the queue    *)
(* and its cache is one sequence here, and the logger is never stopped.    *)
(***************************************************************************)
EXTENDS LogConfig, FiniteSets

CONSTANTS
  Threads,        \* the threads that log
  NoFile,         \* _file is NULL
  Day,            \* 24*3600 seconds
  Word,           \* 2^32
  MB,             \* 1024*1024 bytes
  RecLen,         \* the bytes of a record
  ForceReserve,   \* LOG4Z_FORCE_RESERVE_FILE_COUNT
  FirstReserve,   \* the reserve time set before the logger starts
  Reserves,       \* the reserve times callers set afterwards
  Interval,       \* _hotUpdateInterval
  Lag,            \* a record is popped this long after its time at the latest
  MaxTime, MaxRecords, MaxChanges, MaxFailures     \* bounds

ASSUME FileAssumption ==
  /\ Day \in Nat \ {0} /\ Word \in Nat \ {0} /\ MB \in Nat \ {0} /\ RecLen \in Nat
  /\ ForceReserve \in Nat /\ Interval \in Nat /\ Lag \in Nat
  /\ FirstReserve \in Nat /\ Reserves \subseteq Nat
  /\ MaxTime \in Nat /\ MaxRecords \in Nat /\ MaxChanges \in Nat /\ MaxFailures \in Nat

\* 2^32 bytes are whole megabytes, and LOG4Z_LOG_BUF_SIZE is less than one.
ASSUME LengthAssumption == Word % MB = 0 /\ RecLen < MB

\* What keeps the file in use from being removed: the logger's thread falls less
\* behind than files are kept.
ReserveTimes == Reserves \cup {FirstReserve}
ASSUME LagAssumption == \A r \in ReserveTimes : r > 0 => r >= Lag

VARIABLES
  now,                \* time(NULL)
  made,               \* made[t]: the time of the record t has still to push; 0: none
  logs,               \* _logs, then _logsCache
  at,                 \* the logger's thread: in its inner loop, or in its sleep
  lastCheckUpdate,
  set,                \* _name, _outfile, _limitsize, _enable, _logReserveTime
  curFileCreateDay, curFileIndex, curWriteLen,
  handle,             \* the path of the file that is open
  historyLogs,
  files,              \* what is on the disk: the bytes and the records of each path
  popped,             \* the times of the records that were popped (not in the code)
  changes, failures   \* counts of the settings and the faults (not in the code)

fileVars == <<curFileCreateDay, curFileIndex, curWriteLen, handle, historyLogs, files>>
vars == <<confVars, now, made, logs, at, lastCheckUpdate, set, fileVars, popped,
          changes, failures>>

-----------------------------------------------------------------------------
\* The midnight before.  (Mutant: the time itself.)
DayOf_Exact(t) == t
DayOf(t) == (t \div Day) * Day

\* setLoggerLimitsize stores 0 as the largest unsigned number.
Limitsize(n) == IF n = 0 THEN Word - 1 ELSE n % Word

\* _limitsize * 1024 * 1024, in 32 bits.
LimitBytes(n) == (n * MB) % Word

Path == [name : Nat, time : Nat, index : Nat]
File == [bytes : Nat, recs : Seq(Nat)]
NewFile == [bytes |-> 0, recs |-> <<>>]
Entry == [type : {"log", "name", "outfile", "limitsize", "enable", "reserve"}, val : Nat]
EntryOf(type, val) == [type |-> type, val |-> val]
SettingsOf(info, reserve) ==
  [name |-> info.name, outfile |-> info.outfile, limitsize |-> Limitsize(info.limitsize),
   enable |-> info.enable, reserve |-> reserve]

Flag(b) == IF b THEN 1 ELSE 0

\* config() has read the file and a reserve time is set before the thread starts.
Init ==
  /\ conf \in {v \in Versions : Mentions(v)}
  /\ unwritten = <<>> /\ edits = 0 /\ checksum = Sum(conf)
  /\ now = Day
  /\ made = [t \in Threads |-> 0]
  /\ logs = <<>>
  /\ at = "pop" /\ lastCheckUpdate = now
  /\ set = SettingsOf(Wanted(conf), FirstReserve)
  /\ curFileCreateDay = 0 /\ curFileIndex = 0 /\ curWriteLen = 0
  /\ handle = NoFile /\ historyLogs = <<>>
  /\ files = [p \in {} |-> NewFile]
  /\ popped = <<>> /\ changes = 0 /\ failures = 0

-----------------------------------------------------------------------------
(***************************************************************************)
(* Callers                                                                 *)
(***************************************************************************)
\* The times of the records that are under way.
Waiting ==
  {made[t] : t \in {u \in Threads : made[u] # 0}} \cup
  {logs[i].val : i \in {j \in DOMAIN logs : logs[j].type = "log"}}

\* The clock: the logger's thread gets to run before a record is older than Lag.
Tick ==
  /\ now < MaxTime
  /\ \A t \in Waiting : now < t + Lag
  /\ now' = now + 1
  /\ UNCHANGED <<confVars, made, logs, at, lastCheckUpdate, set, fileVars, popped,
                 changes, failures>>

\* makeLogData stamps the record, pushLog queues it: another thread's may come
\* between the two.
Logged == Len(popped) + Len(SelectSeq(logs, LAMBDA e : e.type = "log"))
                      + Cardinality({t \in Threads : made[t] # 0})

MakeLogData(t) ==
  /\ made[t] = 0 /\ Logged < MaxRecords
  /\ made' = [made EXCEPT ![t] = now]
  /\ UNCHANGED <<confVars, now, logs, at, lastCheckUpdate, set, fileVars, popped,
                 changes, failures>>

PushLog(t) ==
  /\ made[t] # 0
  /\ logs' = Append(logs, EntryOf("log", made[t]))
  /\ made' = [made EXCEPT ![t] = 0]
  /\ UNCHANGED <<confVars, now, at, lastCheckUpdate, set, fileVars, popped,
                 changes, failures>>

\* A setting of a caller goes through the queue.
SetLoggerReserveTime(r) ==
  /\ changes < MaxChanges
  /\ changes' = changes + 1
  /\ logs' = Append(logs, EntryOf("reserve", r))
  /\ UNCHANGED <<confVars, now, made, at, lastCheckUpdate, set, fileVars, popped,
                 failures>>

-----------------------------------------------------------------------------
(***************************************************************************)
(* The logger's thread: settings                                           *)
(***************************************************************************)
OnHotChange(e) ==
  set' = CASE e.type = "name"      -> [set EXCEPT !.name = e.val]
           [] e.type = "outfile"   -> [set EXCEPT !.outfile = e.val # 0]
           [] e.type = "limitsize" -> [set EXCEPT !.limitsize = e.val]
           [] e.type = "enable"    -> [set EXCEPT !.enable = e.val # 0]
           [] e.type = "reserve"   -> [set EXCEPT !.reserve = e.val]

\* run: a setting takes effect and the file is closed, to be opened under it.
\* (Mutant: the file stays open.)
PopSetting_KeepsOpen ==
  /\ at = "pop" /\ logs # <<>> /\ Head(logs).type # "log"
  /\ OnHotChange(Head(logs))
  /\ logs' = Tail(logs)
  /\ UNCHANGED <<confVars, now, made, at, lastCheckUpdate, fileVars, popped,
                 changes, failures>>

PopSetting ==
  /\ at = "pop" /\ logs # <<>> /\ Head(logs).type # "log"
  /\ OnHotChange(Head(logs))
  /\ handle' = NoFile
  /\ logs' = Tail(logs)
  /\ UNCHANGED <<confVars, now, made, at, lastCheckUpdate, curFileCreateDay, curFileIndex,
                 curWriteLen, historyLogs, files, popped, changes, failures>>

-----------------------------------------------------------------------------
(***************************************************************************)
(* The logger's thread: records.  openLogger for a record of time t        *)
(***************************************************************************)
Sameday(t) == t >= curFileCreateDay /\ t - curFileCreateDay < Day
NeedChangeFile == curWriteLen > LimitBytes(set.limitsize)

\* The file that is open goes on being used.
StaysOpen(t) == handle # NoFile /\ Sameday(t) /\ ~NeedChangeFile

\* (Mutant: a full file is closed, and the next one has its number.)
NextIndex_Same(t) == IF ~Sameday(t) THEN 0 ELSE curFileIndex

NextIndex(t) ==
  IF ~Sameday(t) THEN 0 ELSE IF NeedChangeFile THEN curFileIndex + 1 ELSE curFileIndex

PathFor(t) == [name |-> set.name, time |-> t, index |-> NextIndex(t)]

\* fopen in mode "ab" makes the file if there is none; a file that was removed is
\* a new one.
Opened(fs, p) ==
  [q \in DOMAIN fs \cup {p} |-> IF q \in DOMAIN fs THEN fs[q] ELSE NewFile]

\* The entries at the front of the list that are older than the reserve time.
\* (Mutant: the age of a file is not asked for.)
Expired_AnyAge == IF set.reserve > 0 /\ Len(historyLogs) > ForceReserve
                  THEN DOMAIN historyLogs ELSE {}

Expired ==
  IF set.reserve > 0 /\ Len(historyLogs) > ForceReserve
  THEN {i \in DOMAIN historyLogs :
          \A j \in 1..i : historyLogs[j].first + set.reserve < now}
  ELSE {}

Kept == SubSeq(historyLogs, Cardinality(Expired) + 1, Len(historyLogs))

\* The list after p was opened.
HistoryWith(p) ==
  IF set.reserve > 0 /\ (Kept = <<>> \/ Kept[Len(Kept)].second # p)
  THEN Append(Kept, [first |-> now, second |-> p])
  ELSE Kept

\* What is on the disk when p has been opened and what expired is removed.
DiskWith(p) ==
  LET gone == {historyLogs[i].second : i \in Expired}
      fs   == Opened(files, p)
  IN  [q \in DOMAIN fs \ gone |-> fs[q]]

\* n bytes of a record of time t go to p, which may have been removed meanwhile.
Written(fs, p, t, n) ==
  IF p \notin DOMAIN fs THEN fs
  ELSE [fs EXCEPT ![p] = [bytes |-> @.bytes + n,
                          recs  |-> IF n = RecLen THEN Append(@.recs, t) ELSE @.recs]]

\* (Mutant: a file that is opened is taken to be empty.)
OpenLength_Zero(p) == 0
OpenLength(p) == Opened(files, p)[p].bytes

\* The file for a record of time t is open: it was, or it is opened now.  Then
\* fwrite takes n bytes, and fewer than the record's close the file.
Write(t, p, n, fs, len) ==
  /\ files' = Written(fs, p, t, n)
  /\ curWriteLen' = (len + RecLen) % Word
  /\ \/ n = RecLen /\ handle' = p /\ UNCHANGED failures
     \/ n < RecLen /\ failures < MaxFailures
        /\ handle' = NoFile /\ failures' = failures + 1

-----------------------------------------------------------------------------
\* A record is taken off the queue.
Pop(t) ==
  /\ at = "pop" /\ logs # <<>> /\ Head(logs) = EntryOf("log", t)
  /\ logs' = Tail(logs)
  /\ popped' = Append(popped, t)
  /\ UNCHANGED <<confVars, now, made, at, lastCheckUpdate, changes>>

\* It is discarded, or shown at most.
PopUnwritten(t) ==
  /\ Pop(t)
  /\ ~set.enable \/ ~set.outfile
  /\ UNCHANGED <<set, fileVars, failures>>

\* It goes to the file that is open.
PopAppends(t, n) ==
  /\ Pop(t)
  /\ set.enable /\ set.outfile /\ StaysOpen(t)
  /\ Write(t, handle, n, files, curWriteLen)
  /\ UNCHANGED <<set, curFileCreateDay, curFileIndex, historyLogs>>

\* It goes to a file that is opened for it.
PopOpens(t, n) ==
  /\ Pop(t)
  /\ set.enable /\ set.outfile /\ ~StaysOpen(t)
  /\ curFileIndex' = NextIndex(t)
  /\ curFileCreateDay' = DayOf(t)
  /\ historyLogs' = HistoryWith(PathFor(t))
  /\ Write(t, PathFor(t), n, DiskWith(PathFor(t)), OpenLength(PathFor(t)))
  /\ UNCHANGED set

\* The file cannot be opened: the logger's output to files is turned off.
PopOpenFails(t) ==
  /\ Pop(t)
  /\ set.enable /\ set.outfile /\ ~StaysOpen(t)
  /\ failures < MaxFailures
  /\ failures' = failures + 1
  /\ curFileIndex' = NextIndex(t)
  /\ curFileCreateDay' = DayOf(t)
  /\ curWriteLen' = 0
  /\ handle' = NoFile
  /\ set' = [set EXCEPT !.outfile = FALSE]
  /\ UNCHANGED <<historyLogs, files>>

PopLog ==
  \E t \in Day..MaxTime :
    \/ PopUnwritten(t) \/ PopOpenFails(t)
    \/ \E n \in 0..RecLen : PopAppends(t, n) \/ PopOpens(t, n)

-----------------------------------------------------------------------------
\* The queue is empty: the file of a logger that is off is closed, and it sleeps.
RunSleeps ==
  /\ at = "pop" /\ logs = <<>>
  /\ at' = "sleep"
  /\ handle' = IF set.enable THEN handle ELSE NoFile
  /\ UNCHANGED <<confVars, now, made, logs, lastCheckUpdate, set, curFileCreateDay,
                 curFileIndex, curWriteLen, historyLogs, files, popped, changes, failures>>

UpdateIsDue == Interval # 0 /\ now - lastCheckUpdate > Interval

RunWakes ==
  /\ at = "sleep" /\ ~UpdateIsDue
  /\ at' = "pop"
  /\ UNCHANGED <<confVars, now, made, logs, lastCheckUpdate, set, fileVars, popped,
                 changes, failures>>

\* configFromStringImpl on an update: enabling acts at once, the rest is queued
\* behind what is there.  (Mutant: the limit is not passed on.)
Applied_NoLimit(info) ==
  (IF info.enable THEN <<>> ELSE <<EntryOf("enable", 0)>>)
  \o <<EntryOf("name", info.name), EntryOf("outfile", Flag(info.outfile))>>

Applied(info) ==
  (IF info.enable THEN <<>> ELSE <<EntryOf("enable", 0)>>)
  \o <<EntryOf("name", info.name), EntryOf("outfile", Flag(info.outfile)),
       EntryOf("limitsize", Limitsize(info.limitsize))>>

UpdateConfig ==
  /\ at = "sleep" /\ UpdateIsDue
  /\ at' = "pop" /\ lastCheckUpdate' = now
  /\ checksum' = Sum(conf)
  /\ IF Sum(conf) # checksum /\ Mentions(conf)
     THEN /\ logs' = logs \o Applied(Wanted(conf))
          /\ set' = [set EXCEPT !.enable = @ \/ Wanted(conf).enable]
     ELSE UNCHANGED <<logs, set>>
  /\ UNCHANGED <<conf, unwritten, edits, now, made, fileVars, popped, changes, failures>>

RunStep == PopSetting \/ PopLog \/ RunSleeps \/ RunWakes \/ UpdateConfig

Next ==
  \/ Tick
  \/ \E t \in Threads : MakeLogData(t) \/ PushLog(t)
  \/ \E r \in Reserves : SetLoggerReserveTime(r)
  \/ EditorStep /\ UNCHANGED <<now, made, logs, at, lastCheckUpdate, set, fileVars, popped,
                               changes, failures>>
  \/ RunStep

Spec == Init /\ [][Next]_vars

-----------------------------------------------------------------------------
(***************************************************************************)
(* Properties                                                              *)
(***************************************************************************)
Settings == [name : Nat, outfile : BOOLEAN, limitsize : Nat, enable : BOOLEAN, reserve : Nat]

TypeOK ==
  /\ checksum \in Nat /\ edits \in Nat
  /\ now \in Nat /\ made \in [Threads -> Nat] /\ logs \in Seq(Entry)
  /\ at \in {"pop", "sleep"} /\ lastCheckUpdate \in Nat
  /\ set \in Settings
  /\ curFileCreateDay \in Nat /\ curFileCreateDay % Day = 0
  /\ curFileIndex \in Nat /\ curWriteLen \in 0..(Word - 1)
  /\ handle \in Path \cup {NoFile}
  /\ historyLogs \in Seq([first : Nat, second : Path])
  /\ DOMAIN files \subseteq Path /\ files \in [DOMAIN files -> File]
  /\ popped \in Seq(Nat) /\ changes \in Nat /\ failures \in Nat

\* While a file is open it is on the disk, and _curWriteLen is its length in the 32
\* bits it has, however often it was closed, failed, rolled or opened again: what
\* rolling goes by is true, and the removal of old files never hits the one in use.
CounterExact ==
  handle # NoFile => handle \in DOMAIN files /\ curWriteLen = files[handle].bytes % Word

\* Records are popped in the order of their days.  Two threads at midnight, one
\* between makeLogData and pushLog, are enough to make it otherwise.
InDayOrder ==
  \A i, j \in DOMAIN popped : i <= j => DayOf(popped[i]) <= DayOf(popped[j])

\* The limits that texts and defaults give, in bytes.
Limits == {LimitBytes(Limitsize(n)) : n \in LimitValues}

\* As long as days come in order no file outgrows its limit by more than a record,
\* whatever closes it in between: a number that was full is not used again.
LimitKept ==
  InDayOrder => \A p \in DOMAIN files : \E n \in Limits : files[p].bytes <= n + RecLen

\* A record that is popped while output is on goes, unless something fails, to the
\* end of a file that stays on the disk, that bears the name set for the logger at
\* that moment and the day of the record.
RecordReachesFile ==
  [][\A t \in Day..MaxTime :
       Pop(t) /\ set.enable /\ set.outfile =>
         \/ failures' > failures
         \/ \E p \in DOMAIN files' :
              /\ p.name = set.name /\ DayOf(p.time) = DayOf(t)
              /\ files'[p].recs = Append(IF p \in DOMAIN files THEN files[p].recs ELSE <<>>, t)
    ]_vars

\* A record is removed with its file only when it is older than the reserve time
\* less a day: files are dated by their first record.
ReserveHonoured ==
  [][\A q \in DOMAIN files \ DOMAIN files' :
       \A i \in DOMAIN files[q].recs : files[q].recs[i] + set.reserve < now + Day]_vars

\* The value that a setting has when the queue is worked off.
InForce(f) ==
  LET later == {i \in DOMAIN logs : logs[i].type = f}
  IN  IF later = {} THEN (IF f \in {"outfile", "enable"} THEN Flag(set[f]) ELSE set[f])
                    ELSE logs[Max(later)].val

\* The text whose checksum is stored is in force, or under way on the queue: reading
\* a file that is being rewritten leaves nothing behind.  (Output to files is on again
\* only with another text, once a file could not be opened.)
TextInForce ==
  unwritten = <<>> /\ Mentions(conf) /\ checksum = Sum(conf) =>
    LET info == SettingsOf(Wanted(conf), 0)
    IN  /\ InForce("name") = info.name /\ InForce("limitsize") = info.limitsize
        /\ InForce("enable") = Flag(info.enable)
        /\ failures = 0 => InForce("outfile") = Flag(info.outfile)
=============================================================================
