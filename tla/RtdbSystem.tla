----------------------------- MODULE RtdbSystem -----------------------------
(***************************************************************************)
(* The server and its clients over TCP.                                    *)
(***************************************************************************)
EXTENDS RtdbServer, RtdbClient

vars == <<tcpVars, serverVars, clientVars>>

TypeOK == TcpTypeOK /\ ServerTypeOK /\ ClientTypeOK

Init == TcpInit /\ ServerInit /\ ClientInit

ServerStep == (\E h \in Handlers : HandlerStep(h)) \/ ThreadStep \/ Stop

Next ==
  \/ ServerStep /\ UNCHANGED clientVars
  \/ \E c \in Clients : (ClientStep(c, Listening) \/ Killed(c)) /\ UNCHANGED serverVars
  \/ \E c \in Clients : (PeerReset(c) \/ LinkLost(c)) /\ UNCHANGED <<serverVars, clientVars>>

Spec == Init /\ [][Next]_vars

(***************************************************************************)
(* Fairness.  The network thread keeps running its io_service, which       *)
(* queues the completions of the sessions and dispatches each of them; the *)
(* main thread leaves its sleep and joins; a client that is not blocked    *)
(* goes on.  Nothing is promised of faults, of kills or of the stop.       *)
(***************************************************************************)
Fairness ==
  /\ \A h \in Handlers : WF_vars(HandlerStep(h) /\ UNCHANGED clientVars)
  /\ WF_vars(ThreadStep /\ UNCHANGED clientVars)
  /\ \A c \in Clients : WF_vars(ClientStep(c, Listening) /\ UNCHANGED serverVars)

FairSpec == Spec /\ Fairness

-----------------------------------------------------------------------------
(***************************************************************************)
(* Safety                                                                  *)
(***************************************************************************)
\* A session handler has at most one asynchronous operation in progress, and
\* none once it has deleted itself: what makes "delete this" in
\* session_handler::close safe, since no completion can reach a freed handler.
OneOperation ==
  /\ \A p, q \in pending : p.h = q.h => p = q
  /\ \A p \in pending : hstate[p.h] = IF p.kind = "accept" THEN "accepting" ELSE "live"

\* m_set_handlers holds exactly the handlers that are allocated: none is lost to
\* the registry while it lives, none stays in it after it is deleted.
Registry == m_set_handlers = {h \in Handlers : hstate[h] \in {"accepting", "live"}}

\* While the thread serves, exactly one accept is in progress, unless accepting
\* has failed once (a handler was deleted that never had a peer).
AcceptArmed ==
  run = "running" =>
    \/ \E p \in pending : /\ p.kind = "accept"
                          /\ \A q \in pending : q.kind = "accept" => q = p
    \/ \E h \in Handlers : hstate[h] = "freed" /\ peer[h] = NoClient

\* What a read still wants of the part it was started for is what comes next on
\* the stream, however the bytes were cut into pieces: the session never takes
\* the bytes of one part for those of another.
FrameAlignment ==
  \A p \in pending : p.kind = "read" =>
    \A c \in {peer[p.h]} : \A i \in 1..p.want :
      i <= Len(c2s[c]) =>
        \E m \in Messages :
          /\ p.part = "body" => m_packet_header[p.h] = m
          /\ c2s[c][i] = IF p.part = "head" THEN HeadCells(m)[HLen - p.want + i]
                                            ELSE BodyCells(m)[BLen[m] - p.want + i]

\* async_read_some gets &m_recv_buffer[off] and a count: with all the bytes it may
\* store, a read stays inside the vector.  start() and handle_packet_header resize
\* it for the part they read, handle_read and handle_write do not: the rest of a
\* part, and a header after an answer, go into the vector as it was left.
ReadFits == \A p \in pending : p.kind = "read" => p.off + p.want <= m_recv_size[p.h]

\* While the thread runs, every live session has an operation in progress: none
\* is left that nothing will ever wake, read for or close.
NoStall ==
  run = "running" => \A h \in Handlers : Live(h) => \E p \in pending : p.h = h

\* Every answer that was read completely was understood: connect() returns no
\* decoding error.
AnswerUnderstood == \A c \in Clients : ret[c] # "decode"

-----------------------------------------------------------------------------
(***************************************************************************)
(* Liveness                                                                *)
(***************************************************************************)
\* Every connect() that is waiting for its answer gets it.
EveryConnectAnswered == \A c \in Clients : pc[c] = "head" ~> ret[c] = "ok"

\* Every session that was opened is closed and deleted in the end.
EverySessionReleased == \A h \in Handlers : Live(h) ~> hstate[h] = "freed"

\* A server told to quit ends, whatever its sessions are doing.
StopTerminates == stopped ~> ~Listening

\* No client stays blocked in a call once the server has ended.
ClientsReleased == \A c \in Clients : ~Listening ~> pc[c] = "gone"

-----------------------------------------------------------------------------
(***************************************************************************)
(* The system implements ConnectService.                                   *)
(***************************************************************************)
Answered(c) == s2c[c] # <<>> \/ pc[c] = "body" \/ next[c] < HLen

PhaseOf(c) ==
  CASE pc[c] \in {"start", "send"}                  -> "idle"
    [] pc[c] \in {"head", "body"} /\ ~Answered(c)   -> "asked"
    [] pc[c] \in {"head", "body"} /\ Answered(c)    -> "granted"
    [] pc[c] = "disconnect"                         -> "ok"
    [] OTHER                                        -> "left"

SessionOf(c) ==
  IF \E h \in Handlers : peer[h] = c /\ Live(h) THEN "open"
  ELSE IF \E h \in Handlers : peer[h] = c THEN "closed" ELSE "none"

Service == INSTANCE ConnectService
             WITH phase   <- [c \in Clients |-> PhaseOf(c)],
                  session <- [c \in Clients |-> SessionOf(c)],
                  up      <- Listening

\* Packets, buffers and threads implement the promise of ConnectService.
ImplementsConnectService == Service!Spec
=============================================================================
