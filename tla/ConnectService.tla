--------------------------- MODULE ConnectService ---------------------------
(***************************************************************************)
(* What connecting and disconnecting promise, without packets, buffers,    *)
(* operations or threads: a client asks once, is granted at most once and  *)
(* only inside a session the server has opened for it, learns of it only   *)
(* if it was granted, and the server ends its session only after the       *)
(* client has left, or when the server itself ends.                        *)
(***************************************************************************)
CONSTANT Clients

VARIABLES
  phase,      \* phase[c]: "idle", "asked", "granted", "ok", "left"
  session,    \* session[c]: "none", "open", "closed"
  up          \* the service runs

vars == <<phase, session, up>>

Init ==
  /\ phase = [c \in Clients |-> "idle"]
  /\ session = [c \in Clients |-> "none"]
  /\ up = TRUE

Ask(c) ==
  /\ phase[c] = "idle"
  /\ phase' = [phase EXCEPT ![c] = "asked"]
  /\ UNCHANGED <<session, up>>

Open(c) ==
  /\ up /\ session[c] = "none"
  /\ session' = [session EXCEPT ![c] = "open"]
  /\ UNCHANGED <<phase, up>>

Grant(c) ==
  /\ up /\ session[c] = "open" /\ phase[c] = "asked"
  /\ phase' = [phase EXCEPT ![c] = "granted"]
  /\ UNCHANGED <<session, up>>

\* An answer on its way may arrive after the service has ended.
Learn(c) ==
  /\ phase[c] = "granted"
  /\ phase' = [phase EXCEPT ![c] = "ok"]
  /\ UNCHANGED <<session, up>>

Leave(c) ==
  /\ phase[c] # "left"
  /\ phase' = [phase EXCEPT ![c] = "left"]
  /\ UNCHANGED <<session, up>>

Release(c) ==
  /\ up /\ session[c] = "open" /\ phase[c] = "left"
  /\ session' = [session EXCEPT ![c] = "closed"]
  /\ UNCHANGED <<phase, up>>

End ==
  /\ up
  /\ up' = FALSE
  /\ UNCHANGED <<phase, session>>

Next ==
  \/ \E c \in Clients : Ask(c) \/ Open(c) \/ Grant(c) \/ Learn(c) \/ Leave(c) \/ Release(c)
  \/ End

Spec == Init /\ [][Next]_vars
=============================================================================
