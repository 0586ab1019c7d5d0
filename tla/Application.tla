---------------------------- MODULE Application ----------------------------
(***************************************************************************)
(* The processes of rtdb-server (libs/app.cpp, main.cpp) and what they     *)
(* share: the pid file, the TCP port and each other's signals.  A command  *)
(* "rtdb-server [-d] conf -s start|stop|restart" is a process; start and   *)
(* restart become the server.                                              *)
(*                                                                         *)
(* A step is what a process does between two accesses to the file system,  *)
(* the port or another process: nothing but the port is exclusive.  The    *)
(* configuration is the one of conf/rtdb.ini, which names a pid file; pids *)
(* have as many digits as one another, and are used again when free.       *)
(***************************************************************************)
EXTENDS Naturals, FiniteSets

CONSTANTS
  Pids,           \* process identifiers (bound)
  Nobody,         \* no process
  Absent,         \* the pid file does not exist
  Empty,          \* it exists and holds nothing
  Modes,          \* is_daemon: the values commands are given with
  OneAtATime,     \* a command is given when the one before has settled
  MaxCommands,    \* bound on the commands given
  MaxFailures     \* bound on crashes, failed forks and writes, missing files

ASSUME ApplicationAssumption ==
  /\ Nobody \notin Pids /\ Absent \notin Pids /\ Empty \notin Pids
  /\ Absent # Empty
  /\ Modes \subseteq BOOLEAN /\ OneAtATime \in BOOLEAN
  /\ MaxCommands \in Nat /\ MaxFailures \in Nat

VARIABLES
  proc,           \* the processes, by pid
  pidfile,        \* what is at m_app_args.pidfile
  port,           \* the process listening on the port
  commands,       \* how many commands were given
  failures        \* how many failures there were

vars == <<proc, pidfile, port, commands, failures>>

Options == {"start", "stop", "restart"}
Places  == {"none", "init", "read", "probe", "stale", "term", "wait", "killed", "check",
            "daemonize", "signals", "open", "write", "bind", "serving", "remove", "exit"}

\* AppArgs, and: the command the process belongs to, the pid it read, whether its
\* signal handlers are installed, g_quit, and whether it has the pid file open.
Process == [at : Places, opt : Options, is_daemon : BOOLEAN, cmd : 0..MaxCommands,
            pid : Pids \cup {Nobody}, handled : BOOLEAN, g_quit : BOOLEAN, open : BOOLEAN]

NoProcess == [at |-> "none", opt |-> "start", is_daemon |-> FALSE, cmd |-> 0,
              pid |-> Nobody, handled |-> FALSE, g_quit |-> FALSE, open |-> FALSE]

TypeOK ==
  /\ proc \in [Pids -> Process]
  /\ pidfile \in Pids \cup {Absent, Empty}
  /\ port \in Pids \cup {Nobody}
  /\ commands \in 0..MaxCommands
  /\ failures \in 0..MaxFailures

Init ==
  /\ proc = [p \in Pids |-> NoProcess]
  /\ pidfile = Absent
  /\ port = Nobody
  /\ commands = 0
  /\ failures = 0

-----------------------------------------------------------------------------
At(p, place) == proc[p].at = place
Goes(p, place) == proc' = [proc EXCEPT ![p].at = place]

\* A process ends: exit(), abort() or a signal.  The system closes its port.
Freed(p) == IF port = p THEN Nobody ELSE port
Ends(p)  == proc' = [proc EXCEPT ![p] = NoProcess] /\ port' = Freed(p)

\* remove(): a process that has the file open keeps an unlinked one.
Removed(ps) == [p \in Pids |-> [ps[p] EXCEPT !.open = FALSE]]

\* Every process has ended or serves: no command is under way.
Settled == \A p \in Pids : proc[p].at \in {"none", "serving"}

\* The operator gives a command.
Exec(p, opt, d) ==
  /\ At(p, "none") /\ commands < MaxCommands
  /\ OneAtATime => Settled
  /\ commands' = commands + 1
  /\ proc' = [proc EXCEPT ![p] =
       [NoProcess EXCEPT !.at = "init", !.opt = opt, !.is_daemon = d, !.cmd = commands']]
  /\ UNCHANGED <<pidfile, port, failures>>

\* init: what is to be done first?  (Mutant: restart is taken for start.)
Choose_NoRestart(p) ==
  /\ At(p, "init")
  /\ Goes(p, IF proc[p].opt = "stop" THEN "read" ELSE "check")
  /\ UNCHANGED <<pidfile, port, commands, failures>>

Choose(p) ==
  /\ At(p, "init")
  /\ Goes(p, IF proc[p].opt = "stop" \/ (proc[p].opt = "restart" /\ pidfile # Absent)
             THEN "read" ELSE "check")
  /\ UNCHANGED <<pidfile, port, commands, failures>>

-----------------------------------------------------------------------------
(***************************************************************************)
(* kill_process                                                            *)
(***************************************************************************)
\* read_pid: without a pid the command fails.  (Mutant: the -1 is not noticed.)
ReadPid_Unchecked(p) ==
  /\ At(p, "read")
  /\ proc' = [proc EXCEPT ![p].at = "probe", ![p].pid = pidfile]
  /\ UNCHANGED <<pidfile, port, commands, failures>>

ReadPid(p) ==
  /\ At(p, "read")
  /\ \/ /\ pidfile \in Pids
        /\ proc' = [proc EXCEPT ![p].at = "probe", ![p].pid = pidfile]
        /\ UNCHANGED port
     \/ pidfile \notin Pids /\ Ends(p)
  /\ UNCHANGED <<pidfile, commands, failures>>

Runs(q) == ~At(q, "none")

\* kill(pid, 0) finds out whether there is such a process.
Probe(p) ==
  /\ At(p, "probe")
  /\ Goes(p, IF Runs(proc[p].pid) THEN "term" ELSE "stale")
  /\ UNCHANGED <<pidfile, port, commands, failures>>

\* There is none: a daemon's command removes the file, another leaves it.
RemoveStale(p) ==
  /\ At(p, "stale")
  /\ \/ /\ proc[p].is_daemon
        /\ pidfile' = Absent
        /\ proc' = Removed([proc EXCEPT ![p].at = "killed"])
     \/ ~proc[p].is_daemon /\ Goes(p, "killed") /\ UNCHANGED pidfile
  /\ UNCHANGED <<port, commands, failures>>

\* kill(pid, SIGTERM): signal_handler sets g_quit; before it is installed the
\* signal ends the process, the sender itself if the pid has come round to it.
Terminate(p) ==
  /\ At(p, "term")
  /\ LET q == proc[p].pid IN
       \/ ~Runs(q) /\ Ends(p)
       \/ /\ Runs(q) /\ proc[q].handled
          /\ proc' = [proc EXCEPT ![p].at = "wait", ![q].g_quit = TRUE]
          /\ UNCHANGED port
       \/ /\ Runs(q) /\ ~proc[q].handled
          /\ proc' = [proc EXCEPT ![p].at = "wait", ![q] = NoProcess]
          /\ port' = Freed(q)
  /\ UNCHANGED <<pidfile, commands, failures>>

\* The command polls until the file is gone.  (Mutant: it does not wait.)
WaitGone_NoLoop(p) ==
  /\ At(p, "wait")
  /\ Goes(p, "killed")
  /\ UNCHANGED <<pidfile, port, commands, failures>>

WaitGone(p) ==
  /\ At(p, "wait") /\ pidfile = Absent
  /\ Goes(p, "killed")
  /\ UNCHANGED <<pidfile, port, commands, failures>>

\* kill_process has returned: stop exits, restart goes on.
Killed(p) ==
  /\ At(p, "killed")
  /\ \/ proc[p].opt = "stop" /\ Ends(p)
     \/ proc[p].opt # "stop" /\ Goes(p, "check") /\ UNCHANGED port
  /\ UNCHANGED <<pidfile, commands, failures>>

-----------------------------------------------------------------------------
(***************************************************************************)
(* Becoming the server                                                     *)
(***************************************************************************)
\* A daemon is not started over a pid file, and nothing without the file that
\* logconf names: a restart then has killed the server and exits.  (Mutant: a
\* daemon is started over a pid file.)
CheckPidfile_Ignores(p) ==
  /\ At(p, "check")
  /\ Goes(p, "daemonize")
  /\ UNCHANGED <<pidfile, port, commands, failures>>

PidfileFree(p) == ~proc[p].is_daemon \/ pidfile = Absent

CheckPidfile(p) ==
  /\ At(p, "check")
  /\ \/ ~PidfileFree(p) /\ Ends(p) /\ UNCHANGED failures
     \/ PidfileFree(p) /\ Goes(p, "daemonize") /\ UNCHANGED <<port, failures>>
     \/ /\ PidfileFree(p)
        /\ failures < MaxFailures
        /\ failures' = failures + 1
        /\ Ends(p)
  /\ UNCHANGED <<pidfile, commands>>

\* fork() gives a daemon a pid of its own; nobody looks whether it failed.
Daemonize(p) ==
  /\ At(p, "daemonize")
  /\ \/ /\ proc[p].is_daemon
        /\ \E q \in Pids :
             /\ At(q, "none")
             /\ proc' = [proc EXCEPT ![q] = [proc[p] EXCEPT !.at = "signals"],
                                     ![p] = NoProcess]
        /\ UNCHANGED failures
     \/ /\ proc[p].is_daemon /\ failures < MaxFailures
        /\ failures' = failures + 1
        /\ Goes(p, "signals")
     \/ ~proc[p].is_daemon /\ Goes(p, "signals") /\ UNCHANGED failures
  /\ UNCHANGED <<pidfile, port, commands>>

\* (Mutant: the handlers are forgotten.)
InstallSignals_None(p) ==
  /\ At(p, "signals")
  /\ Goes(p, "open")
  /\ UNCHANGED <<pidfile, port, commands, failures>>

InstallSignals(p) ==
  /\ At(p, "signals")
  /\ proc' = [proc EXCEPT ![p].at = "open", ![p].handled = TRUE]
  /\ UNCHANGED <<pidfile, port, commands, failures>>

\* write_pid opens and truncates the file of a daemon, or exits if it cannot ...
OpenPidfile(p) ==
  /\ At(p, "open")
  /\ \/ /\ proc[p].is_daemon
        /\ pidfile' = Empty
        /\ proc' = [proc EXCEPT ![p].at = "write", ![p].open = TRUE]
        /\ UNCHANGED <<port, failures>>
     \/ /\ proc[p].is_daemon /\ failures < MaxFailures
        /\ failures' = failures + 1
        /\ Ends(p) /\ UNCHANGED pidfile
     \/ ~proc[p].is_daemon /\ Goes(p, "bind") /\ UNCHANGED <<pidfile, port, failures>>
  /\ UNCHANGED commands

\* ... and writes its pid there, or to a file removed in the meantime.
WritePid(p) ==
  /\ At(p, "write")
  /\ pidfile' = IF proc[p].open THEN p ELSE pidfile
  /\ proc' = [proc EXCEPT ![p].at = "bind", ![p].open = FALSE]
  /\ UNCHANGED <<port, commands, failures>>

\* The acceptor binds the port; nobody catches the exception if it is in use.
Bind(p) ==
  /\ At(p, "bind")
  /\ \/ port = Nobody /\ port' = p /\ Goes(p, "serving")
     \/ port # Nobody /\ Ends(p)
  /\ UNCHANGED <<pidfile, commands, failures>>

\* run() leaves its loop, stops and joins the network thread and closes the port.
\* (Mutant: the acceptor lives until the process ends.)
LeaveRun_KeepsPort(p) ==
  /\ At(p, "serving") /\ proc[p].g_quit
  /\ Goes(p, "remove")
  /\ UNCHANGED <<pidfile, port, commands, failures>>

LeaveRun(p) ==
  /\ At(p, "serving") /\ proc[p].g_quit
  /\ Goes(p, "remove")
  /\ port' = Nobody
  /\ UNCHANGED <<pidfile, commands, failures>>

\* (Mutant: the file is left behind.)
RemovePidfile_Leaves(p) ==
  /\ At(p, "remove")
  /\ Goes(p, "exit")
  /\ UNCHANGED <<pidfile, port, commands, failures>>

RemovePidfile(p) ==
  /\ At(p, "remove")
  /\ \/ /\ proc[p].is_daemon
        /\ pidfile' = Absent
        /\ proc' = Removed([proc EXCEPT ![p].at = "exit"])
     \/ ~proc[p].is_daemon /\ Goes(p, "exit") /\ UNCHANGED pidfile
  /\ UNCHANGED <<port, commands, failures>>

Exit(p) ==
  /\ At(p, "exit")
  /\ Ends(p)
  /\ UNCHANGED <<pidfile, commands, failures>>

\* A process crashes or is killed from outside.
Crash(p) ==
  /\ Runs(p) /\ failures < MaxFailures
  /\ failures' = failures + 1
  /\ Ends(p)
  /\ UNCHANGED <<pidfile, commands>>

-----------------------------------------------------------------------------
ProcessStep(p) ==
  \/ Choose(p) \/ ReadPid(p) \/ Probe(p) \/ RemoveStale(p) \/ Terminate(p)
  \/ WaitGone(p) \/ Killed(p) \/ CheckPidfile(p) \/ Daemonize(p) \/ InstallSignals(p)
  \/ OpenPidfile(p) \/ WritePid(p) \/ Bind(p) \/ LeaveRun(p) \/ RemovePidfile(p) \/ Exit(p)

Next ==
  \E p \in Pids :
    \/ \E opt \in Options, d \in Modes : Exec(p, opt, d)
    \/ ProcessStep(p)
    \/ Crash(p)

Spec == Init /\ [][Next]_vars

\* Fairness: the operating system runs every process; sleep(10) is interrupted by
\* the signal, or ends.  Commands and crashes need never happen.
FairSpec == Spec /\ \A p \in Pids : WF_vars(ProcessStep(p))

-----------------------------------------------------------------------------
(***************************************************************************)
(* Properties.  Those up to RestartServes are of commands given one at a   *)
(* time: the code takes no lock, and two at once can break each of them.   *)
(***************************************************************************)
\* A daemon that wrote its pid and has not left its loop.
Daemon(p) == proc[p].is_daemon /\ proc[p].at \in {"bind", "serving"}

\* The file names the daemon that serves: stop and restart find it.
PidfileNamesServer ==
  OneAtATime => \A p \in Pids : proc[p].is_daemon /\ At(p, "serving") => pidfile = p

\* When kill_process has returned, no daemon is left: stop exits with 0, or restart
\* goes on, only when the server it was meant for has closed its port.
KillEffective ==
  OneAtATime =>
    ((\E p \in Pids : At(p, "killed")) => ~\E q \in Pids : Daemon(q))

\* A daemon finds the port free: a restart never meets the port of the server it
\* has stopped (daemons only).
PortReleased ==
  OneAtATime /\ FALSE \notin Modes =>
    \A p \in Pids : At(p, "bind") => port = Nobody

\* stop and restart come back from waiting for the file to go (daemons only, and
\* unless something fails).
WaitReturns ==
  \A p \in Pids : At(p, "wait") ~> (~At(p, "wait") \/ failures > 0)

\* restart ends in a server of its own, whether one was running or not (daemons
\* only, and unless something fails).
RestartServes ==
  \A n \in 1..MaxCommands :
    (\E p \in Pids : proc[p].cmd = n /\ proc[p].opt = "restart" /\ At(p, "init"))
      ~> (failures > 0 \/ \E q \in Pids : proc[q].cmd = n /\ At(q, "serving"))

\* The steps of a process from the creation of its pid file to its removal.
InTurn == {<<"write", "bind">>, <<"bind", "serving">>,
           <<"serving", "remove">>, <<"remove", "exit">>}

\* However many commands are given at once, a process that others can find, since it
\* has created the file or serves, goes through bind, its loop and the removal of the
\* file, unless it crashes or finds the port taken: whenever a SIGTERM comes, it
\* never ends the process outright, with the port or the file left behind.
TermIsGraceful ==
  [][\A p \in Pids : proc[p].at \in {"write", "bind", "serving", "remove"} =>
       \/ proc'[p].at = proc[p].at
       \/ <<proc[p].at, proc'[p].at>> \in InTurn
       \/ At(p, "bind") /\ port # Nobody
       \/ failures' > failures]_vars
=============================================================================
