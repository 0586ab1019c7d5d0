---------------------------- MODULE MCLogManager ----------------------------
(***************************************************************************)
(* Small instances of LogManager for TLC.                                  *)
(***************************************************************************)
EXTENDS LogManager, TLC

CONSTANTS p1, p2

\* One thread logs, disables the logger and logs again; another logs twice.
QuietScript == (p1 :> <<"log", "disable", "log">> @@ p2 :> <<"log", "log">>)

\* Records and settings both ways under way when the logger is stopped.
StopScript == (p1 :> <<"log", "enable">> @@ p2 :> <<"disable">>)

RecordSymmetry == Permutations(Records)
=============================================================================
