---------------------------- MODULE MCRtdbSystem ----------------------------
(***************************************************************************)
(* Small instances of RtdbSystem for TLC.  A mark of two cells and parts   *)
(* of three to five: enough to cut a mark, to place a piece behind an      *)
(* intact mark and to have a header and bodies of different sizes.         *)
(***************************************************************************)
EXTENDS RtdbSystem, TLC

MCBLen == [m \in Messages |-> IF m = "CONNECT" THEN 5 ELSE 3]

\* The smallest packets, for the runs whose questions are not about pieces.
MCTinyBLen == [m \in Messages |-> IF m = "CONNECT" THEN 3 ELSE 2]

Symmetry == Permutations(Clients) \cup Permutations(Handlers)
=============================================================================
