----------------------------- MODULE MCClientApi -----------------------------
(***************************************************************************)
(* A small instance of ClientApi for TLC: bytes of six values, so that a   *)
(* short holds lengths up to 17, and paths that are shorter than, as long  *)
(* as and longer than the preset one.                                      *)
(***************************************************************************)
EXTENDS ClientApi

MCCrc(s) ==
  LET upTo[k \in 0..Len(s)] == IF k = 0 THEN 0 ELSE (7 * upTo[k - 1] + s[k] + 1) % Pow[4]
  IN  upTo[Len(s)]

\* The sums fit into four bytes, as those of crc32 do.
ASSUME MCSums ==
  \A s \in UNION {[1..k -> 0..(Base - 1)] : k \in 0..4} : Crc(s) \in 0..(Pow[4] - 1)

Longest == [i \in 1..7 |-> 1 + (i % 5)]

MCHostNames == {<<5>>}
MCPaths == {<<>>, <<4, 1>>, Longest}
MCPreset == <<2, 3>>

MCScript == [t \in Threads |-> <<"connect", "disconnect">>]
=============================================================================
