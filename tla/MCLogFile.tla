------------------------------ MODULE MCLogFile ------------------------------
(***************************************************************************)
(* A small instance of LogFile for TLC.  Two records fill a file of one    *)
(* megabyte; four megabytes are 0 in the numbers of the machine.           *)
(***************************************************************************)
EXTENDS LogFile, TLC

Line(k, x) == [key |-> k, value |-> x]

\* The second text leaves the limit to be added at its end.
MCVersions ==
  {<<Line("section", 1), Line("limitsize", 1), Line("reserve", 3)>>,
   <<Line("section", 1), Line("name", 2), Line("limitsize", 4), Line("enable", 0)>>}

MCWeight(line) ==
  line.value + (CASE line.key = "section" -> 1 [] line.key = "name" -> 2
                  [] line.key = "limitsize" -> 4 [] OTHER -> 8)

\* No two parts of these texts have the same sum, unless they are the same.
ASSUME MCSums == NoCollision

ThreadSymmetry == Permutations(Threads)
=============================================================================
