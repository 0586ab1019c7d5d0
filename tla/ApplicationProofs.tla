------------------------- MODULE ApplicationProofs -------------------------
(***************************************************************************)
(* Theorems about Application, for any pids and commands, any number of    *)
(* failures, and commands at once or one at a time.                        *)
(***************************************************************************)
EXTENDS Application, TLAPS

\* From "open" on a process has its signal handlers.
WithHandlers == {"open", "write", "bind", "serving", "remove", "exit"}
HandlersInstalled ==
  \A p \in Pids : proc[p].at \in WithHandlers => proc[p].handled

IInv == TypeOK /\ HandlersInstalled

\* Every parameter of a process that has ended is back at its initial value.
LEMMA NoProcessType == NoProcess \in Process
  BY ApplicationAssumption DEF NoProcess, Process, Places, Options

\* A process keeps its type when one of its fields changes.
LEMMA FieldType ==
  ASSUME NEW f \in [Pids -> Process], NEW p \in Pids
  PROVE  /\ \A x \in Places : [f EXCEPT ![p].at = x] \in [Pids -> Process]
         /\ \A b \in BOOLEAN : [f EXCEPT ![p].open = b] \in [Pids -> Process]
         /\ \A b \in BOOLEAN : [f EXCEPT ![p].handled = b] \in [Pids -> Process]
         /\ \A b \in BOOLEAN : [f EXCEPT ![p].g_quit = b] \in [Pids -> Process]
         /\ \A q \in Pids : [f EXCEPT ![p].pid = q] \in [Pids -> Process]
  BY DEF Process

\* Unlinking the file keeps the types.
LEMMA RemovedType ==
  ASSUME NEW f \in [Pids -> Process]
  PROVE  Removed(f) \in [Pids -> Process]
  BY DEF Process, Removed

LEMMA InitIInv == Init => IInv
  BY NoProcessType, ApplicationAssumption
  DEF Init, IInv, TypeOK, HandlersInstalled, WithHandlers, NoProcess

\* A process that ends leaves the types and the handlers of the others alone.
LEMMA EndsIInv ==
  ASSUME IInv, NEW p \in Pids, Ends(p)
  PROVE  /\ proc' \in [Pids -> Process] /\ port' \in Pids \cup {Nobody}
         /\ HandlersInstalled'
  BY NoProcessType
  DEF IInv, TypeOK, HandlersInstalled, WithHandlers, Ends, Freed, NoProcess

\* A process that goes to another place, and does not skip its handlers.
LEMMA GoesIInv ==
  ASSUME IInv, NEW p \in Pids, NEW place \in Places, Goes(p, place),
         place \in WithHandlers => proc[p].handled
  PROVE  proc' \in [Pids -> Process] /\ HandlersInstalled'
  BY DEF IInv, TypeOK, HandlersInstalled, WithHandlers, Goes, Process

\* A step of the process p itself keeps the invariant.
LEMMA OwnStepIInv ==
  ASSUME IInv, NEW p \in Pids, ProcessStep(p)
  PROVE  IInv'
<1>1. TypeOK /\ HandlersInstalled
  BY DEF IInv
<1>2. CASE Choose(p)
  <2>1. \E place \in {"read", "check"} : Goes(p, place)
    BY <1>2 DEF Choose
  <2>2. PICK place \in {"read", "check"} : Goes(p, place)
    BY <2>1
  <2> QED
    BY <1>1, <1>2, <2>2, GoesIInv DEF Choose, IInv, TypeOK, WithHandlers, Places
<1>3. CASE ReadPid(p)
  <2>1. CASE Ends(p)
    BY <1>1, <1>3, <2>1, EndsIInv DEF ReadPid, IInv, TypeOK
  <2>2. CASE pidfile \in Pids
             /\ proc' = [proc EXCEPT ![p].at = "probe", ![p].pid = pidfile]
             /\ UNCHANGED port
    <3> DEFINE f == [proc EXCEPT ![p].at = "probe"]
    <3>a. f \in [Pids -> Process]
      BY <1>1, FieldType DEF TypeOK, Places
    <3>b. proc' = [f EXCEPT ![p].pid = pidfile]
      BY <2>2
    <3>c. pidfile \in Pids
      BY <2>2
    <3>1. proc' \in [Pids -> Process]
      BY <3>a, <3>b, <3>c, FieldType
    <3>2. HandlersInstalled'
      BY <1>1, <2>2 DEF TypeOK, HandlersInstalled, WithHandlers, Process
    <3> QED
      BY <1>1, <1>3, <2>2, <3>1, <3>2 DEF ReadPid, IInv, TypeOK
  <2> QED
    BY <1>3, <2>1, <2>2 DEF ReadPid
<1>4. CASE Probe(p)
  <2>1. \E place \in {"term", "stale"} : Goes(p, place)
    BY <1>4 DEF Probe
  <2>2. PICK place \in {"term", "stale"} : Goes(p, place)
    BY <2>1
  <2> QED
    BY <1>1, <1>4, <2>2, GoesIInv DEF Probe, IInv, TypeOK, WithHandlers, Places
<1>5. CASE RemoveStale(p)
  <2>1. CASE Goes(p, "killed") /\ UNCHANGED pidfile
    BY <1>1, <1>5, <2>1, GoesIInv DEF RemoveStale, IInv, TypeOK, WithHandlers, Places
  <2>2. CASE pidfile' = Absent /\ proc' = Removed([proc EXCEPT ![p].at = "killed"])
    <3> DEFINE f == [proc EXCEPT ![p].at = "killed"]
    <3>a. f \in [Pids -> Process]
      BY <1>1, FieldType DEF TypeOK, Places
    <3>b. proc' = Removed(f)
      BY <2>2
    <3>1. proc' \in [Pids -> Process]
      BY <3>a, <3>b, <1>1, FieldType, RemovedType, NoProcessType DEF TypeOK
    <3>2. HandlersInstalled'
      BY <1>1, <2>2 DEF TypeOK, HandlersInstalled, WithHandlers, Process, Removed
    <3> QED
      BY <1>1, <1>5, <2>2, <3>1, <3>2 DEF RemoveStale, IInv, TypeOK
  <2> QED
    BY <1>5, <2>1, <2>2 DEF RemoveStale
<1>6. CASE Terminate(p)
  <2> DEFINE q == proc[p].pid
  <2>1. CASE Ends(p)
    BY <1>1, <1>6, <2>1, EndsIInv DEF Terminate, IInv, TypeOK
  <2>2. CASE proc[q].handled /\ UNCHANGED port
             /\ proc' = [proc EXCEPT ![p].at = "wait", ![q].g_quit = TRUE]
    <3> DEFINE f == [proc EXCEPT ![p].at = "wait"]
    <3>a. f \in [Pids -> Process]
      BY <1>1, FieldType DEF TypeOK, Places
    <3>b. proc' = [f EXCEPT ![proc[p].pid].g_quit = TRUE]
      BY <2>2
    <3>1. proc' \in [Pids -> Process]
      BY <3>a, <3>b, <1>1, FieldType, RemovedType, NoProcessType DEF TypeOK
    <3>2. HandlersInstalled'
      BY <1>1, <2>2 DEF TypeOK, HandlersInstalled, WithHandlers, Process
    <3> QED
      BY <1>1, <1>6, <2>2, <3>1, <3>2 DEF Terminate, IInv, TypeOK
  <2>3. CASE port' = Freed(q)
             /\ proc' = [proc EXCEPT ![p].at = "wait", ![q] = NoProcess]
    <3> DEFINE f == [proc EXCEPT ![p].at = "wait"]
    <3>a. f \in [Pids -> Process]
      BY <1>1, FieldType DEF TypeOK, Places
    <3>b. proc' = [f EXCEPT ![proc[p].pid] = NoProcess]
      BY <2>3
    <3>1. proc' \in [Pids -> Process]
      BY <3>a, <3>b, <1>1, FieldType, RemovedType, NoProcessType DEF TypeOK
    <3>2. HandlersInstalled'
      BY <1>1, <2>3 DEF TypeOK, HandlersInstalled, WithHandlers, Process, NoProcess
    <3>3. port' \in Pids \cup {Nobody}
      BY <1>1, <2>3 DEF TypeOK, Freed
    <3> QED
      BY <1>1, <1>6, <3>1, <3>2, <3>3 DEF Terminate, IInv, TypeOK
  <2> QED
    BY <1>6, <2>1, <2>2, <2>3 DEF Terminate
<1>7. CASE WaitGone(p)
  BY <1>1, <1>7, GoesIInv DEF WaitGone, IInv, TypeOK, WithHandlers, Places
<1>8. CASE Killed(p)
  <2>1. CASE Ends(p)
    BY <1>1, <1>8, <2>1, EndsIInv DEF Killed, IInv, TypeOK
  <2>2. CASE Goes(p, "check") /\ UNCHANGED port
    BY <1>1, <1>8, <2>2, GoesIInv DEF Killed, IInv, TypeOK, WithHandlers, Places
  <2> QED
    BY <1>8, <2>1, <2>2 DEF Killed
<1>9. CASE CheckPidfile(p)
  <2>1. failures' \in 0..MaxFailures
    BY <1>1, <1>9, ApplicationAssumption DEF CheckPidfile, PidfileFree, TypeOK
  <2>2. CASE Ends(p)
    BY <1>1, <1>9, <2>1, <2>2, EndsIInv DEF CheckPidfile, PidfileFree, IInv, TypeOK
  <2>3. CASE Goes(p, "daemonize") /\ UNCHANGED port
    BY <1>1, <1>9, <2>1, <2>3, GoesIInv DEF CheckPidfile, PidfileFree, IInv, TypeOK, WithHandlers, Places
  <2> QED
    BY <1>9, <2>2, <2>3 DEF CheckPidfile, PidfileFree
<1>10. CASE Daemonize(p)
  <2>1. failures' \in 0..MaxFailures
    BY <1>1, <1>10, ApplicationAssumption DEF Daemonize, TypeOK
  <2>2. CASE Goes(p, "signals")
    BY <1>1, <1>10, <2>1, <2>2, GoesIInv DEF Daemonize, IInv, TypeOK, WithHandlers, Places
  <2>3. ASSUME NEW q \in Pids, At(q, "none"),
               proc' = [proc EXCEPT ![q] = [proc[p] EXCEPT !.at = "signals"],
                                    ![p] = NoProcess]
        PROVE  IInv'
    <3>1. proc' \in [Pids -> Process]
      BY <1>1, <2>3, NoProcessType DEF TypeOK, Process, Places
    <3>2. HandlersInstalled'
      BY <1>1, <2>3 DEF TypeOK, HandlersInstalled, WithHandlers, Process, NoProcess
    <3> QED
      BY <1>1, <1>10, <2>1, <3>1, <3>2 DEF Daemonize, IInv, TypeOK
  <2> QED
    BY <1>10, <2>2, <2>3 DEF Daemonize
<1>11. CASE InstallSignals(p)
  <2> DEFINE f == [proc EXCEPT ![p].at = "open"]
  <2>a. f \in [Pids -> Process]
    BY <1>1, FieldType DEF TypeOK, Places
  <2>b. proc' = [f EXCEPT ![p].handled = TRUE]
    BY <1>11 DEF InstallSignals
  <2>1. proc' \in [Pids -> Process]
    BY <2>a, <2>b, <1>1, FieldType, RemovedType, NoProcessType DEF TypeOK
  <2>2. HandlersInstalled'
    BY <1>1, <1>11 DEF InstallSignals, TypeOK, HandlersInstalled, WithHandlers, Process
  <2> QED
    BY <1>1, <1>11, <2>1, <2>2 DEF InstallSignals, IInv, TypeOK
<1>12. CASE OpenPidfile(p)
  <2>1. proc[p].handled
    BY <1>1, <1>12 DEF OpenPidfile, At, HandlersInstalled, WithHandlers
  <2>2. failures' \in 0..MaxFailures
    BY <1>1, <1>12, ApplicationAssumption DEF OpenPidfile, TypeOK
  <2>3. CASE Ends(p) /\ UNCHANGED pidfile
    BY <1>1, <1>12, <2>2, <2>3, EndsIInv DEF OpenPidfile, IInv, TypeOK
  <2>4. CASE Goes(p, "bind") /\ UNCHANGED <<pidfile, port>>
    BY <1>1, <1>12, <2>1, <2>2, <2>4, GoesIInv DEF OpenPidfile, IInv, TypeOK, Places
  <2>5. CASE pidfile' = Empty /\ UNCHANGED port
             /\ proc' = [proc EXCEPT ![p].at = "write", ![p].open = TRUE]
    <3> DEFINE f == [proc EXCEPT ![p].at = "write"]
    <3>a. f \in [Pids -> Process]
      BY <1>1, FieldType DEF TypeOK, Places
    <3>b. proc' = [f EXCEPT ![p].open = TRUE]
      BY <2>5
    <3>1. proc' \in [Pids -> Process]
      BY <3>a, <3>b, <1>1, FieldType, RemovedType, NoProcessType DEF TypeOK
    <3>2. HandlersInstalled'
      BY <1>1, <2>1, <2>5 DEF TypeOK, HandlersInstalled, WithHandlers, Process
    <3> QED
      BY <1>1, <1>12, <2>2, <2>5, <3>1, <3>2 DEF OpenPidfile, IInv, TypeOK
  <2> QED
    BY <1>12, <2>3, <2>4, <2>5 DEF OpenPidfile
<1>13. CASE WritePid(p)
  <2> DEFINE f == [proc EXCEPT ![p].at = "bind"]
  <2>a. f \in [Pids -> Process]
    BY <1>1, FieldType DEF TypeOK, Places
  <2>b. proc' = [f EXCEPT ![p].open = FALSE]
    BY <1>13 DEF WritePid
  <2>1. proc' \in [Pids -> Process]
    BY <2>a, <2>b, <1>1, FieldType, RemovedType, NoProcessType DEF TypeOK
  <2>2. HandlersInstalled'
    BY <1>1, <1>13 DEF WritePid, At, TypeOK, HandlersInstalled, WithHandlers, Process
  <2> QED
    BY <1>1, <1>13, <2>1, <2>2 DEF WritePid, IInv, TypeOK
<1>14. CASE Bind(p)
  <2>1. proc[p].handled
    BY <1>1, <1>14 DEF Bind, At, HandlersInstalled, WithHandlers
  <2>2. CASE Ends(p)
    BY <1>1, <1>14, <2>2, EndsIInv DEF Bind, IInv, TypeOK
  <2>3. CASE port' = p /\ Goes(p, "serving")
    BY <1>1, <1>14, <2>1, <2>3, GoesIInv DEF Bind, IInv, TypeOK, Places
  <2> QED
    BY <1>14, <2>2, <2>3 DEF Bind
<1>15. CASE LeaveRun(p)
  <2>1. proc[p].handled
    BY <1>1, <1>15 DEF LeaveRun, At, HandlersInstalled, WithHandlers
  <2> QED
    BY <1>1, <1>15, <2>1, GoesIInv DEF LeaveRun, IInv, TypeOK, Places
<1>16. CASE RemovePidfile(p)
  <2>1. proc[p].handled
    BY <1>1, <1>16 DEF RemovePidfile, At, HandlersInstalled, WithHandlers
  <2>2. CASE Goes(p, "exit") /\ UNCHANGED pidfile
    BY <1>1, <1>16, <2>1, <2>2, GoesIInv DEF RemovePidfile, IInv, TypeOK, Places
  <2>3. CASE pidfile' = Absent /\ proc' = Removed([proc EXCEPT ![p].at = "exit"])
    <3> DEFINE f == [proc EXCEPT ![p].at = "exit"]
    <3>a. f \in [Pids -> Process]
      BY <1>1, FieldType DEF TypeOK, Places
    <3>b. proc' = Removed(f)
      BY <2>3
    <3>1. proc' \in [Pids -> Process]
      BY <3>a, <3>b, <1>1, FieldType, RemovedType, NoProcessType DEF TypeOK
    <3>2. HandlersInstalled'
      BY <1>1, <2>1, <2>3 DEF TypeOK, HandlersInstalled, WithHandlers, Process, Removed
    <3> QED
      BY <1>1, <1>16, <2>3, <3>1, <3>2 DEF RemovePidfile, IInv, TypeOK
  <2> QED
    BY <1>16, <2>2, <2>3 DEF RemovePidfile
<1>17. CASE Exit(p)
  BY <1>1, <1>17, EndsIInv DEF Exit, IInv, TypeOK
<1> QED
  BY <1>2, <1>3, <1>4, <1>5, <1>6, <1>7, <1>8, <1>9, <1>10, <1>11, <1>12, <1>13,
     <1>14, <1>15, <1>16, <1>17
  DEF ProcessStep

\* Every step keeps the invariant.
LEMMA StepIInv == IInv /\ [Next]_vars => IInv'
<1> SUFFICES ASSUME IInv, [Next]_vars PROVE IInv'
  OBVIOUS
<1>1. ASSUME NEW p \in Pids, NEW opt \in Options, NEW d \in Modes, Exec(p, opt, d)
      PROVE  IInv'
  <2>1. commands' \in 0..MaxCommands
    BY <1>1, ApplicationAssumption DEF Exec, IInv, TypeOK
  <2>2. proc' \in [Pids -> Process]
    BY <1>1, <2>1, NoProcessType, ApplicationAssumption
    DEF Exec, IInv, TypeOK, Process, Places
  <2>3. HandlersInstalled'
    BY <1>1 DEF Exec, IInv, TypeOK, HandlersInstalled, WithHandlers, NoProcess
  <2> QED
    BY <1>1, <2>1, <2>2, <2>3 DEF Exec, IInv, TypeOK
<1>2. ASSUME NEW p \in Pids, ProcessStep(p) PROVE IInv'
  BY <1>2, OwnStepIInv
<1>3. ASSUME NEW p \in Pids, Crash(p) PROVE IInv'
  <2>1. failures' \in 0..MaxFailures
    BY <1>3, ApplicationAssumption DEF Crash, IInv, TypeOK
  <2> QED
    BY <1>3, <2>1, EndsIInv DEF Crash, IInv, TypeOK
<1>4. CASE UNCHANGED vars
  BY <1>4 DEF vars, IInv, TypeOK, HandlersInstalled
<1> QED
  BY <1>1, <1>2, <1>3, <1>4 DEF Next

\* The variables have their types in every reachable state (Application's state, as
\* init(), write_pid and kill_process change it).
THEOREM TypeCorrect == Spec => []TypeOK
<1>1. IInv => TypeOK
  BY DEF IInv
<1> QED
  BY <1>1, InitIInv, StepIInv, PTL DEF Spec

\* The next place of a process that others can find.
GoesInTurn(q) ==
  \/ proc'[q].at = proc[q].at
  \/ <<proc[q].at, proc'[q].at>> \in InTurn
  \/ At(q, "bind") /\ port # Nobody
  \/ failures' > failures

\* A step of p takes a process q that others can find only to its next place, when q
\* is p itself: the signal of another only sets its g_quit.
LEMMA OwnStepGraceful ==
  ASSUME IInv, NEW p \in Pids, ProcessStep(p),
         NEW q \in Pids, proc[q].at \in {"write", "bind", "serving", "remove"}
  PROVE  GoesInTurn(q)
<1>1. proc \in [Pids -> Process] /\ proc[q].handled
  BY DEF IInv, TypeOK, HandlersInstalled, WithHandlers
<1>2. CASE p = q
  <2>1. WritePid(p) \/ Bind(p) \/ LeaveRun(p) \/ RemovePidfile(p)
    BY <1>2 DEF ProcessStep, At, Choose, ReadPid, Probe, RemoveStale, Terminate, WaitGone,
       Killed, CheckPidfile, PidfileFree, Daemonize, InstallSignals, OpenPidfile, Exit
  <2>2. CASE WritePid(p)
    BY <1>1, <1>2, <2>2 DEF WritePid, At, GoesInTurn, InTurn, Process
  <2>3. CASE Bind(p)
    BY <1>1, <1>2, <2>3 DEF Bind, At, Goes, GoesInTurn, InTurn, Process
  <2>4. CASE LeaveRun(p)
    BY <1>1, <1>2, <2>4 DEF LeaveRun, At, Goes, GoesInTurn, InTurn, Process
  <2>5. CASE RemovePidfile(p)
    BY <1>1, <1>2, <2>5 DEF RemovePidfile, Removed, At, Goes, GoesInTurn, InTurn, Process
  <2> QED
    BY <2>1, <2>2, <2>3, <2>4, <2>5
<1>3. CASE p # q
  <2>1. CASE Terminate(p)
    BY <1>1, <1>3, <2>1 DEF Terminate, Ends, GoesInTurn, Process
  <2>2. CASE Daemonize(p)
    BY <1>1, <1>3, <2>2 DEF Daemonize, Goes, At, GoesInTurn
  <2>3. CASE RemoveStale(p) \/ RemovePidfile(p)
    BY <1>1, <1>3, <2>3 DEF RemoveStale, RemovePidfile, Removed, Goes, GoesInTurn, Process
  <2>4. CASE Choose(p) \/ ReadPid(p) \/ Probe(p) \/ WaitGone(p) \/ Killed(p)
             \/ CheckPidfile(p) \/ InstallSignals(p) \/ OpenPidfile(p) \/ WritePid(p)
             \/ Bind(p) \/ LeaveRun(p) \/ Exit(p)
    <3>1. proc'[q] = proc[q]
      BY <1>1, <1>3, <2>4
      DEF Choose, ReadPid, Probe, WaitGone, Killed, CheckPidfile, PidfileFree, InstallSignals,
          OpenPidfile, WritePid, Bind, LeaveRun, Exit, Goes, Ends
    <3> QED
      BY <3>1 DEF GoesInTurn
  <2> QED
    BY <2>1, <2>2, <2>3, <2>4 DEF ProcessStep
<1> QED
  BY <1>2, <1>3

\* However many commands are given at once, a process that has created its pid file, or
\* serves, ends only after it has removed the file, unless it crashes or finds the port
\* taken: the signal of kill_process never ends it outright.
THEOREM ServersStopInOrder == Spec => TermIsGraceful
<1> DEFINE Graceful ==
      \A p \in Pids :
        proc[p].at \in {"write", "bind", "serving", "remove"} => GoesInTurn(p)
<1>1. IInv /\ [Next]_vars => [Graceful]_vars
  <2> SUFFICES ASSUME IInv, Next PROVE Graceful
    OBVIOUS
  <2> SUFFICES ASSUME NEW q \in Pids, proc[q].at \in {"write", "bind", "serving", "remove"}
               PROVE  GoesInTurn(q)
    OBVIOUS
  <2>1. ASSUME NEW p \in Pids, NEW opt \in Options, NEW d \in Modes, Exec(p, opt, d)
        PROVE  GoesInTurn(q)
    BY <2>1 DEF Exec, At, IInv, TypeOK, GoesInTurn
  <2>2. ASSUME NEW p \in Pids, ProcessStep(p) PROVE GoesInTurn(q)
    BY <2>2, OwnStepGraceful
  <2>3. ASSUME NEW p \in Pids, Crash(p) PROVE GoesInTurn(q)
    BY <2>3, ApplicationAssumption DEF Crash, IInv, TypeOK, GoesInTurn
  <2> QED
    BY <2>1, <2>2, <2>3 DEF Next
<1>2. Spec => []IInv
  BY InitIInv, StepIInv, PTL DEF Spec
<1> QED
  BY <1>1, <1>2, PTL DEF Spec, TermIsGraceful, GoesInTurn

-----------------------------------------------------------------------------
(***************************************************************************)
(* Commands given one at a time                                            *)
(***************************************************************************)
\* Where a process still is what its command made it, and where a daemon has its pid
\* in the file.
Command == {"init", "read", "probe", "stale", "term", "wait", "killed", "check",
            "daemonize", "signals", "open", "write", "bind"}
Holds(p) == proc[p].is_daemon /\ proc[p].at \in {"bind", "serving", "remove"}

\* A process that has found no daemon, and goes by that.
FoundNone(p) ==
  \/ proc[p].at \in {"stale", "killed"}
  \/ proc[p].is_daemon /\ proc[p].at \in {"daemonize", "signals", "open", "write"}

OneCommand    == \A p, q \in Pids : proc[p].at \in Command /\ proc[q].at \in Command => p = q
FileOfHolder  == \A p \in Pids : Holds(p) => pidfile = p
NobodyHolds   == \A p, q \in Pids : FoundNone(p) => ~Holds(q)
WritesItsFile == \A p \in Pids : At(p, "write") => proc[p].is_daemon /\ proc[p].open
ProbesHolder  == \A p, q \in Pids : At(p, "probe") /\ Holds(q) => proc[p].pid = q
PortOfServer  == \A p \in Pids : port = p => At(p, "serving")
OfTheirMode   == \A p \in Pids : At(p, "none") \/ proc[p].is_daemon \in Modes

Alone == /\ OneCommand /\ FileOfHolder /\ NobodyHolds /\ WritesItsFile /\ ProbesHolder
         /\ PortOfServer /\ OfTheirMode

\* What a step of p may do to another process: nothing that matters here, or end it.
Spared(q) ==
  \/ proc'[q].at = "none"
  \/ /\ proc'[q].at = proc[q].at /\ proc'[q].is_daemon = proc[q].is_daemon
     /\ proc'[q].pid = proc[q].pid

\* A step of p that neither makes p a holder nor writes the file keeps the relations
\* between the others, and those of p but for what its new place asks.
LEMMA QuietStep ==
  ASSUME Alone, NEW p \in Pids, \A q \in Pids \ {p} : Spared(q),
         proc'[p].at \in Command => proc[p].at \in Command,
         Holds(p)' => Holds(p), UNCHANGED pidfile,
         \A q \in Pids : At(q, "write") => proc'[q].open = proc[q].open,
         FoundNone(p)' => FoundNone(p) \/ \A q \in Pids : ~Holds(q),
         At(p, "write")' => At(p, "write") /\ proc'[p].is_daemon,
         At(p, "probe")' => \A q \in Pids : Holds(q) => proc'[p].pid = q
  PROVE  /\ OneCommand' /\ FileOfHolder' /\ NobodyHolds' /\ WritesItsFile' /\ ProbesHolder'
<1>1. \A q \in Pids : Holds(q)' => Holds(q)
  BY DEF Spared, Holds
<1>2. \A q \in Pids : proc'[q].at \in Command => proc[q].at \in Command
  BY DEF Spared, Command
<1>3. OneCommand'
  BY <1>2 DEF Alone, OneCommand
<1>4. FileOfHolder'
  BY <1>1 DEF Alone, FileOfHolder
<1>5. NobodyHolds'
  <2> SUFFICES ASSUME NEW q \in Pids, NEW h \in Pids, FoundNone(q)', Holds(h)' PROVE FALSE
    BY DEF NobodyHolds
  <2>1. FoundNone(q) \/ \A r \in Pids : ~Holds(r)
    BY DEF Spared, FoundNone
  <2> QED
    BY <1>1, <2>1 DEF Alone, NobodyHolds
<1>6. WritesItsFile'
  BY DEF Alone, WritesItsFile, At, Spared
<1>7. ProbesHolder'
  <2> SUFFICES ASSUME NEW q \in Pids, NEW h \in Pids, At(q, "probe")', Holds(h)'
               PROVE  proc'[q].pid = h
    BY DEF ProbesHolder, At
  <2>1. CASE q = p
    BY <1>1, <2>1 DEF At
  <2>2. CASE q # p
    BY <1>1, <2>2 DEF Alone, ProbesHolder, At, Spared
  <2> QED
    BY <2>1, <2>2
<1> QED
  BY <1>3, <1>4, <1>5, <1>6, <1>7

\* A process that ends.
LEMMA EndsAlone ==
  ASSUME TypeOK, Alone, NEW p \in Pids, Ends(p), UNCHANGED pidfile
  PROVE  Alone'
<1>1. proc \in [Pids -> Process] /\ proc' = [proc EXCEPT ![p] = NoProcess]
  BY DEF TypeOK, Ends
<1>2. \A q \in Pids \ {p} : proc'[q] = proc[q]
  BY <1>1
<1>3. proc'[p] = NoProcess
  BY <1>1
<1>4. /\ OneCommand' /\ FileOfHolder' /\ NobodyHolds' /\ WritesItsFile' /\ ProbesHolder'
  <2>1. \A q \in Pids \ {p} : Spared(q)
    BY <1>2 DEF Spared
  <2>2. ~(proc'[p].at \in Command) /\ ~Holds(p)' /\ ~FoundNone(p)' /\ ~At(p, "write")' /\ ~At(p, "probe")'
    BY <1>3 DEF NoProcess, Command, Holds, FoundNone, At
  <2> QED
    BY <1>2, <1>3, <2>1, <2>2 DEF Alone, OneCommand, FileOfHolder, NobodyHolds, WritesItsFile, ProbesHolder, Spared,
         Holds, FoundNone, At
<1>5. PortOfServer'
  BY <1>2, ApplicationAssumption DEF Ends, Freed, Alone, PortOfServer, At
<1>6. OfTheirMode'
  BY <1>2, <1>3 DEF Alone, OfTheirMode, At, NoProcess
<1> QED
  BY <1>4, <1>5, <1>6 DEF Alone

\* A process that goes on to another place of its command, by what is in no file.
LEMMA GoesAlone ==
  ASSUME TypeOK, Alone, NEW p \in Pids, NEW place \in Places, Goes(p, place),
         proc[p].at # "serving" /\ proc[p].at # "none",
         place \in Command => proc[p].at \in Command,
         proc[p].is_daemon /\ place \in {"bind", "serving", "remove"} => Holds(p),
         place # "write", place # "probe",
         place \in {"stale", "killed"} => \A q \in Pids : ~Holds(q),
         proc[p].is_daemon /\ place \in {"daemonize", "signals", "open"} =>
           FoundNone(p) \/ \A q \in Pids : ~Holds(q),
         UNCHANGED pidfile, port' = port \/ (port = Nobody /\ port' = p /\ place = "serving")
  PROVE  Alone'
<1>1. proc \in [Pids -> Process] /\ proc' = [proc EXCEPT ![p].at = place]
  BY DEF TypeOK, Goes
<1>2. \A q \in Pids \ {p} : proc'[q] = proc[q]
  BY <1>1
<1>3. /\ proc'[p].at = place /\ proc'[p].is_daemon = proc[p].is_daemon
      /\ proc'[p].pid = proc[p].pid /\ proc'[p].open = proc[p].open
  BY <1>1 DEF Process
<1>4. \A q \in Pids \ {p} : Spared(q)
  BY <1>2 DEF Spared
<1>5. \A q \in Pids : proc'[q].open = proc[q].open
  BY <1>2, <1>3
<1>6. /\ Holds(p)' => Holds(p)
      /\ FoundNone(p)' => FoundNone(p) \/ \A q \in Pids : ~Holds(q)
      /\ ~At(p, "write")' /\ ~At(p, "probe")'
  BY <1>3 DEF Holds, FoundNone, At
<1>7. OneCommand' /\ FileOfHolder' /\ NobodyHolds' /\ WritesItsFile' /\ ProbesHolder'
  BY <1>3, <1>4, <1>5, <1>6, QuietStep
<1>8. PortOfServer'
  BY <1>2, <1>3, ApplicationAssumption DEF Alone, PortOfServer, At
<1>9. OfTheirMode'
  BY <1>2, <1>3 DEF Alone, OfTheirMode, At
<1> QED
  BY <1>7, <1>8, <1>9 DEF Alone

\* While a command is under way no other one opens, writes or removes the file.
LEMMA OwnStepAlone ==
  ASSUME TypeOK, Alone, NEW p \in Pids, ProcessStep(p)
  PROVE  Alone'
<1> USE DEF Command
<1>0. proc \in [Pids -> Process] /\ Absent \notin Pids /\ Nobody \notin Pids
  BY ApplicationAssumption DEF TypeOK
<1>1. pidfile \notin Pids => \A q \in Pids : ~Holds(q)
  BY DEF Alone, FileOfHolder
<1>2. CASE Choose(p)
  BY <1>2, GoesAlone DEF Choose, At, Places, Goes, Holds
<1>3. CASE ReadPid(p)
  <2>1. CASE Ends(p)
    BY <1>3, <2>1, EndsAlone DEF ReadPid
  <2>2. CASE pidfile \in Pids /\ UNCHANGED port
             /\ proc' = [proc EXCEPT ![p].at = "probe", ![p].pid = pidfile]
    <3>1. \A q \in Pids \ {p} : proc'[q] = proc[q]
      BY <1>0, <2>2
    <3>2. /\ proc'[p].at = "probe" /\ proc'[p].is_daemon = proc[p].is_daemon
          /\ proc'[p].pid = pidfile /\ proc'[p].open = proc[p].open /\ proc[p].at = "read"
      BY <1>0, <1>3, <2>2 DEF ReadPid, At, Process
    <3>3. OneCommand' /\ FileOfHolder' /\ NobodyHolds' /\ WritesItsFile' /\ ProbesHolder'
      <4>1. /\ \A q \in Pids \ {p} : Spared(q)
            /\ \A q \in Pids : proc'[q].open = proc[q].open
        BY <3>1, <3>2 DEF Spared
      <4>2. ~Holds(p)' /\ ~FoundNone(p)' /\ ~At(p, "write")' /\ UNCHANGED pidfile
        BY <1>3, <3>2 DEF ReadPid, Holds, FoundNone, At
      <4>3. \A q \in Pids : Holds(q) => proc'[p].pid = q
        BY <3>2 DEF Alone, FileOfHolder
      <4> QED
        BY <3>2, <4>1, <4>2, <4>3, QuietStep
    <3>4. PortOfServer' /\ OfTheirMode'
      BY <2>2, <3>1, <3>2 DEF Alone, PortOfServer, OfTheirMode, At
    <3> QED
      BY <3>3, <3>4 DEF Alone
  <2> QED
    BY <1>3, <2>1, <2>2 DEF ReadPid
<1>4. CASE Probe(p)
  <2>1. CASE Goes(p, "term")
    BY <1>4, <2>1, GoesAlone DEF Probe, At, Places
  <2>2. CASE ~Runs(proc[p].pid) /\ Goes(p, "stale")
    <3>1. \A q \in Pids : ~Holds(q)
      BY <1>4, <2>2 DEF Probe, Runs, At, Holds, Alone, ProbesHolder
    <3> QED
      BY <1>4, <2>2, <3>1, GoesAlone DEF Probe, At, Places
  <2> QED
    BY <1>4, <2>1, <2>2 DEF Probe
<1>5. CASE RemoveStale(p)
  <2>1. FoundNone(p) /\ \A q \in Pids : ~Holds(q)
    BY <1>5 DEF RemoveStale, At, FoundNone, Alone, NobodyHolds
  <2>2. CASE Goes(p, "killed") /\ UNCHANGED pidfile
    BY <1>5, <2>1, <2>2, GoesAlone DEF RemoveStale, At, Places
  <2>3. CASE pidfile' = Absent /\ proc' = Removed([proc EXCEPT ![p].at = "killed"])
    <3>1. /\ \A q \in Pids : /\ q # p => proc'[q].at = proc[q].at
                             /\ proc'[q].is_daemon = proc[q].is_daemon
                             /\ proc'[q].pid = proc[q].pid
          /\ proc'[p].at = "killed" /\ proc[p].at = "stale"
      BY <1>0, <1>5, <2>3, ZenonT(30) DEF RemoveStale, At, Removed, Process
    <3>2. \A q \in Pids : ~At(q, "write")'
      BY <1>5, <3>1 DEF Alone, OneCommand, At
    <3>3. \A q \in Pids : ~Holds(q)'
      BY <2>1, <3>1 DEF Holds
    <3>4. OneCommand' /\ FileOfHolder' /\ NobodyHolds' /\ WritesItsFile' /\ ProbesHolder'
      BY <3>1, <3>2, <3>3
      DEF Alone, OneCommand, FileOfHolder, NobodyHolds, WritesItsFile, ProbesHolder
    <3>5. PortOfServer' /\ OfTheirMode'
      BY <1>5, <3>1 DEF RemoveStale, Alone, PortOfServer, OfTheirMode, At
    <3> QED
      BY <3>4, <3>5 DEF Alone
  <2> QED
    BY <1>5, <2>2, <2>3 DEF RemoveStale
<1>6. CASE Terminate(p)
  <2> DEFINE q == proc[p].pid
  <2>1. CASE Ends(p)
    BY <1>6, <2>1, EndsAlone DEF Terminate
  <2>2. CASE UNCHANGED port /\ proc' = [proc EXCEPT ![p].at = "wait", ![q].g_quit = TRUE]
    <3>1. \A r \in Pids : /\ r # p => proc'[r].at = proc[r].at
                          /\ proc'[r].is_daemon = proc[r].is_daemon
                          /\ proc'[r].pid = proc[r].pid /\ proc'[r].open = proc[r].open
      BY <1>0, <2>2 DEF Process
    <3>2. proc'[p].at = "wait" /\ proc[p].at = "term"
      BY <1>0, <1>6, <2>2 DEF Terminate, At, Process
    <3>3. OneCommand' /\ FileOfHolder' /\ NobodyHolds' /\ WritesItsFile' /\ ProbesHolder'
      BY <1>6, <3>1, <3>2, QuietStep DEF Terminate, Spared, Holds, FoundNone, At
    <3>4. PortOfServer' /\ OfTheirMode'
      BY <2>2, <3>1, <3>2 DEF Alone, PortOfServer, OfTheirMode, At
    <3> QED
      BY <3>3, <3>4 DEF Alone
  <2>3. CASE port' = Freed(q) /\ proc' = [proc EXCEPT ![p].at = "wait", ![q] = NoProcess]
    <3>1. \A r \in Pids \ {p} :
            proc'[r] = NoProcess \/ (proc'[r] = proc[r] /\ r # q)
      BY <1>0, <2>3
    <3>2. /\ proc[p].at = "term"
          /\ \/ proc'[p] = NoProcess
             \/ /\ proc'[p].at = "wait" /\ proc'[p].is_daemon = proc[p].is_daemon /\ p # q
      BY <1>0, <1>6, <2>3 DEF Terminate, At, Process
    <3>3. \A r \in Pids \ {p} : Spared(r)
      BY <3>1 DEF Spared, NoProcess
    <3>4. proc'[p].at \in {"none", "wait"}
      BY <3>2 DEF NoProcess
    <3>5. \A r \in Pids \ {p} : At(r, "write") => FALSE
      BY <3>2 DEF Alone, OneCommand, At
    <3>6. OneCommand' /\ FileOfHolder' /\ NobodyHolds' /\ WritesItsFile' /\ ProbesHolder'
      BY <1>6, <3>2, <3>3, <3>4, <3>5, QuietStep DEF Terminate, Holds, FoundNone, At
    <3>7. PortOfServer'
      BY <1>0, <2>3, <3>1, <3>2 DEF Freed, Alone, PortOfServer, At
    <3>8. OfTheirMode'
      BY <3>1, <3>2 DEF Alone, OfTheirMode, At, NoProcess
    <3> QED
      BY <3>6, <3>7, <3>8 DEF Alone
  <2> QED
    BY <1>6, <2>1, <2>2, <2>3 DEF Terminate
<1>7. CASE WaitGone(p)
  BY <1>0, <1>1, <1>7, GoesAlone DEF WaitGone, At, Places
<1>8. CASE Killed(p)
  <2>1. CASE Ends(p)
    BY <1>8, <2>1, EndsAlone DEF Killed
  <2>2. CASE Goes(p, "check") /\ UNCHANGED port
    BY <1>8, <2>2, GoesAlone DEF Killed, At, Places
  <2> QED
    BY <1>8, <2>1, <2>2 DEF Killed
<1>9. CASE CheckPidfile(p)
  <2>1. CASE Ends(p)
    BY <1>9, <2>1, EndsAlone DEF CheckPidfile, PidfileFree
  <2>2. CASE (~proc[p].is_daemon \/ pidfile = Absent) /\ Goes(p, "daemonize") /\ UNCHANGED port
    BY <1>0, <1>1, <1>9, <2>2, GoesAlone DEF CheckPidfile, PidfileFree, At, Places
  <2> QED
    BY <1>9, <2>1, <2>2 DEF CheckPidfile, PidfileFree
<1>10. CASE Daemonize(p)
  <2>1. CASE Goes(p, "signals")
    <3>1. proc[p].is_daemon => FoundNone(p)
      BY <1>10 DEF Daemonize, At, FoundNone
    <3> QED
      BY <1>10, <2>1, <3>1, GoesAlone DEF Daemonize, At, Places
  <2>2. ASSUME NEW q \in Pids, At(q, "none"), proc[p].is_daemon,
               proc' = [proc EXCEPT ![q] = [proc[p] EXCEPT !.at = "signals"], ![p] = NoProcess]
        PROVE  Alone'
    <3>1. proc[p].at = "daemonize" /\ p # q /\ UNCHANGED <<pidfile, port>>
      BY <1>10, <2>2 DEF Daemonize, At
    <3>2. /\ \A r \in Pids \ {p, q} : proc'[r] = proc[r]
          /\ proc'[p] = NoProcess
          /\ proc'[q].at = "signals" /\ proc'[q].is_daemon = proc[p].is_daemon
      BY <1>0, <2>2, <3>1 DEF Process
    <3>3. \A r \in Pids : ~Holds(r)
      BY <2>2, <3>1 DEF Alone, NobodyHolds, FoundNone
    <3>4. \A r \in Pids : ~Holds(r)'
      BY <3>2, <3>3 DEF Holds, NoProcess
    <3>5. OneCommand'
      BY <3>1, <3>2 DEF Alone, OneCommand, NoProcess
    <3>6. WritesItsFile'
      BY <3>2 DEF Alone, WritesItsFile, At, NoProcess
    <3>7. PortOfServer'
      BY <2>2, <3>1, <3>2 DEF Alone, PortOfServer, At
    <3>8. proc'[q].is_daemon \in Modes
      BY <3>1, <3>2 DEF Alone, OfTheirMode, At
    <3>9. OfTheirMode'
      BY <3>2, <3>8 DEF Alone, OfTheirMode, At, NoProcess
    <3> QED
      BY <3>4, <3>5, <3>6, <3>7, <3>9 DEF Alone, FileOfHolder, NobodyHolds, ProbesHolder
  <2> QED
    BY <1>10, <2>1, <2>2 DEF Daemonize
<1>11. CASE InstallSignals(p)
  <2>1. /\ \A q \in Pids \ {p} : proc'[q] = proc[q]
        /\ proc[p].at = "signals" /\ proc'[p].at = "open"
        /\ proc'[p].is_daemon = proc[p].is_daemon /\ UNCHANGED <<pidfile, port>>
    BY <1>0, <1>11 DEF InstallSignals, At, Process
  <2>2. OneCommand' /\ FileOfHolder' /\ NobodyHolds' /\ WritesItsFile' /\ ProbesHolder'
    BY <2>1, QuietStep DEF Spared, Holds, FoundNone, At
  <2>3. PortOfServer' /\ OfTheirMode'
    BY <2>1 DEF Alone, PortOfServer, OfTheirMode, At
  <2> QED
    BY <2>2, <2>3 DEF Alone
<1>12. CASE OpenPidfile(p)
  <2>1. CASE Ends(p) /\ UNCHANGED pidfile
    BY <1>12, <2>1, EndsAlone
  <2>2. CASE ~proc[p].is_daemon /\ Goes(p, "bind") /\ UNCHANGED <<pidfile, port>>
    BY <1>12, <2>2, GoesAlone DEF OpenPidfile, At, Places
  <2>3. CASE proc[p].is_daemon /\ UNCHANGED port
             /\ proc' = [proc EXCEPT ![p].at = "write", ![p].open = TRUE]
    <3>1. /\ \A q \in Pids \ {p} : proc'[q] = proc[q]
          /\ proc[p].at = "open" /\ proc'[p].at = "write" /\ proc'[p].open
          /\ proc'[p].is_daemon = proc[p].is_daemon
      BY <1>0, <1>12, <2>3 DEF OpenPidfile, At, Process
    <3>2. \A r \in Pids : ~Holds(r)
      BY <2>3, <3>1 DEF Alone, NobodyHolds, FoundNone
    <3>3. \A r \in Pids : ~Holds(r)'
      BY <3>1, <3>2 DEF Holds
    <3>7. OneCommand'
      BY <3>1 DEF Alone, OneCommand
    <3>4. PortOfServer'
      BY <2>3, <3>1 DEF Alone, PortOfServer, At
    <3>5. WritesItsFile'
      BY <2>3, <3>1 DEF Alone, OneCommand, WritesItsFile, At
    <3>6. OfTheirMode'
      BY <3>1 DEF Alone, OfTheirMode, At
    <3> QED
      BY <3>3, <3>7, <3>4, <3>5, <3>6 DEF Alone, FileOfHolder, NobodyHolds, ProbesHolder
  <2> QED
    BY <1>12, <2>1, <2>2, <2>3 DEF OpenPidfile
<1>13. CASE WritePid(p)
  <2>1. /\ \A q \in Pids \ {p} : proc'[q] = proc[q]
        /\ proc[p].at = "write" /\ proc'[p].at = "bind"
        /\ proc'[p].is_daemon = proc[p].is_daemon /\ UNCHANGED port
    BY <1>0, <1>13 DEF WritePid, At, Process
  <2>2. proc[p].is_daemon /\ pidfile' = p
    BY <1>13 DEF WritePid, Alone, WritesItsFile
  <2>3. \A q \in Pids \ {p} : ~Holds(q)'
    BY <2>1, <2>2 DEF Alone, NobodyHolds, FoundNone, Holds
  <2>4. \A q \in Pids \ {p} : proc[q].at \notin Command
    BY <2>1 DEF Alone, OneCommand
  <2>5. \A q \in Pids : ~FoundNone(q)' /\ ~At(q, "probe")'
    BY <2>1, <2>4 DEF FoundNone, At
  <2>6. OneCommand' /\ WritesItsFile' /\ PortOfServer' /\ OfTheirMode'
    BY <2>1 DEF Alone, OneCommand, WritesItsFile, PortOfServer, OfTheirMode, At
  <2> QED
    BY <2>2, <2>3, <2>5, <2>6 DEF Alone, FileOfHolder, NobodyHolds, ProbesHolder
<1>14. CASE Bind(p)
  <2>1. CASE Ends(p)
    BY <1>14, <2>1, EndsAlone DEF Bind
  <2>2. CASE port = Nobody /\ port' = p /\ Goes(p, "serving")
    BY <1>14, <2>2, GoesAlone DEF Bind, At, Places, Holds
  <2> QED
    BY <1>14, <2>1, <2>2 DEF Bind
<1>15. CASE LeaveRun(p)
  <2>1. /\ \A q \in Pids \ {p} : proc'[q] = proc[q]
        /\ proc[p].at = "serving" /\ proc'[p].at = "remove" /\ port' = Nobody
        /\ proc'[p].is_daemon = proc[p].is_daemon /\ UNCHANGED pidfile
    BY <1>0, <1>15 DEF LeaveRun, Goes, At, Process
  <2>2. OneCommand' /\ FileOfHolder' /\ NobodyHolds' /\ WritesItsFile' /\ ProbesHolder'
    BY <2>1, QuietStep DEF Spared, Holds, FoundNone, At
  <2>3. PortOfServer' /\ OfTheirMode'
    BY <1>0, <2>1 DEF Alone, PortOfServer, OfTheirMode, At
  <2> QED
    BY <2>2, <2>3 DEF Alone
<1>16. CASE RemovePidfile(p)
  <2>1. CASE ~proc[p].is_daemon /\ Goes(p, "exit") /\ UNCHANGED pidfile
    BY <1>16, <2>1, GoesAlone DEF RemovePidfile, At, Places
  <2>2. CASE proc[p].is_daemon /\ pidfile' = Absent
             /\ proc' = Removed([proc EXCEPT ![p].at = "exit"])
    <3>1. /\ \A q \in Pids : /\ q # p => proc'[q].at = proc[q].at
                             /\ proc'[q].is_daemon = proc[q].is_daemon
                             /\ proc'[q].pid = proc[q].pid
          /\ proc'[p].at = "exit" /\ proc[p].at = "remove" /\ UNCHANGED port
      BY <1>0, <1>16, <2>2, ZenonT(30) DEF RemovePidfile, At, Removed, Process
    <3>2. Holds(p)
      BY <2>2, <3>1 DEF Holds
    <3>3. \A q \in Pids \ {p} : ~Holds(q)
      BY <3>2 DEF Alone, FileOfHolder
    <3>4. \A q \in Pids : ~Holds(q)'
      BY <3>1, <3>3 DEF Holds
    <3>5. \A q \in Pids : ~At(q, "write")'
      BY <3>1, <3>2 DEF Alone, NobodyHolds, WritesItsFile, FoundNone, At
    <3>6. OneCommand' /\ PortOfServer' /\ OfTheirMode'
      BY <3>1 DEF Alone, OneCommand, PortOfServer, OfTheirMode, At
    <3> QED
      BY <3>4, <3>5, <3>6 DEF Alone, FileOfHolder, NobodyHolds, WritesItsFile, ProbesHolder
  <2> QED
    BY <1>16, <2>1, <2>2 DEF RemovePidfile
<1>17. CASE Exit(p)
  BY <1>17, EndsAlone DEF Exit
<1> QED
  BY <1>2, <1>3, <1>4, <1>5, <1>6, <1>7, <1>8, <1>9, <1>10, <1>11, <1>12, <1>13,
     <1>14, <1>15, <1>16, <1>17
  DEF ProcessStep

LEMMA InitAlone == Init => Alone
BY ApplicationAssumption
DEF Init, Alone, OneCommand, FileOfHolder, NobodyHolds, WritesItsFile, ProbesHolder, PortOfServer,
    OfTheirMode, Command, Holds, FoundNone, At, NoProcess

LEMMA StepAlone ==
  ASSUME OneAtATime, IInv, Alone, [Next]_vars
  PROVE  Alone'
<1>0. TypeOK /\ proc \in [Pids -> Process]
  BY DEF IInv, TypeOK
<1>1. ASSUME NEW p \in Pids, NEW opt \in Options, NEW d \in Modes, Exec(p, opt, d) PROVE Alone'
  <2>1. /\ \A q \in Pids \ {p} : proc'[q] = proc[q]
        /\ proc'[p].at = "init" /\ proc'[p].is_daemon = d /\ UNCHANGED <<pidfile, port>>
    BY <1>0, <1>1 DEF Exec, NoProcess
  <2>2. \A q \in Pids : proc[q].at \in {"none", "serving"}
    BY <1>1 DEF Exec, Settled
  <2>3. OneCommand' /\ NobodyHolds' /\ WritesItsFile' /\ ProbesHolder'
    BY <2>1, <2>2
    DEF OneCommand, NobodyHolds, WritesItsFile, ProbesHolder, Command, FoundNone, At
  <2>4. FileOfHolder' /\ PortOfServer' /\ OfTheirMode'
    BY <1>1, <2>1
    DEF Exec, Alone, FileOfHolder, PortOfServer, OfTheirMode, Holds, At
  <2> QED
    BY <2>3, <2>4 DEF Alone
<1>2. ASSUME NEW p \in Pids, ProcessStep(p) PROVE Alone'
  BY <1>0, <1>2, OwnStepAlone
<1>3. ASSUME NEW p \in Pids, Crash(p) PROVE Alone'
  BY <1>0, <1>3, EndsAlone DEF Crash
<1>4. CASE UNCHANGED vars
  BY <1>4 DEF vars, Alone, OneCommand, FileOfHolder, NobodyHolds, WritesItsFile, ProbesHolder,
              PortOfServer, OfTheirMode, Holds, FoundNone, At
<1> QED
  BY <1>1, <1>2, <1>3, <1>4 DEF Next

LEMMA OneAtATimeIsAlone ==
  ASSUME OneAtATime
  PROVE  Spec => [](IInv /\ Alone)
<1>1. IInv /\ Alone /\ [Next]_vars => (IInv /\ Alone)'
  BY StepIInv, StepAlone
<1> QED
  BY InitIInv, InitAlone, <1>1, PTL DEF Spec

\* Commands given one at a time find the daemon that serves by its file, whatever
\* crashed and whichever pids were used again (write_pid, read_pid, remove).
THEOREM PidfileFindsServer == Spec => []PidfileNamesServer
<1>1. IInv /\ Alone => PidfileNamesServer
  BY DEF Alone, FileOfHolder, Holds, PidfileNamesServer, At
<1>2. CASE OneAtATime
  BY <1>1, <1>2, OneAtATimeIsAlone, PTL
<1>3. CASE ~OneAtATime
  <2>1. PidfileNamesServer
    BY <1>3 DEF PidfileNamesServer
  <2> QED
    BY <2>1, PTL
<1> QED
  BY <1>2, <1>3

\* When kill_process has returned to stop or restart no daemon is left that has written
\* its pid, unless commands are given at the same time.
THEOREM KillIsEffective == Spec => []KillEffective
<1>1. IInv /\ Alone => KillEffective
  BY DEF Alone, NobodyHolds, FoundNone, Holds, KillEffective, Daemon, At
<1>2. CASE OneAtATime
  BY <1>1, <1>2, OneAtATimeIsAlone, PTL
<1>3. CASE ~OneAtATime
  <2>1. KillEffective
    BY <1>3 DEF KillEffective
  <2> QED
    BY <2>1, PTL
<1> QED
  BY <1>2, <1>3

\* A daemon about to bind its port finds it free, if all commands are for daemons and
\* given one at a time: the one before it closed the port before it removed its file.
THEOREM PortIsReleased == Spec => []PortReleased
<1>1. IInv /\ Alone => PortReleased
  <2> SUFFICES ASSUME IInv, Alone, FALSE \notin Modes, NEW p \in Pids, At(p, "bind"), port # Nobody
               PROVE  FALSE
    BY DEF PortReleased
  <2>1. port \in Pids /\ At(port, "serving")
    BY DEF IInv, TypeOK, Alone, PortOfServer
  <2>2. proc[p].is_daemon \in BOOLEAN /\ proc[port].is_daemon \in BOOLEAN
    BY <2>1 DEF IInv, TypeOK, Process
  <2>3. proc[p].is_daemon /\ proc[port].is_daemon
    BY <2>1, <2>2 DEF Alone, OfTheirMode, At
  <2> QED
    BY <2>1, <2>3 DEF Alone, FileOfHolder, Holds, At
<1>2. CASE OneAtATime
  BY <1>1, <1>2, OneAtATimeIsAlone, PTL
<1>3. CASE ~OneAtATime
  <2>1. PortReleased
    BY <1>3 DEF PortReleased
  <2> QED
    BY <2>1, PTL
<1> QED
  BY <1>2, <1>3
=============================================================================
