------------------------------ MODULE ClientApi ------------------------------
(***************************************************************************)
(* One object rtdb_client that several threads use (src/src/api), and the  *)
(* packets its calls exchange with a server.  The object's mutex is held   *)
(* for the whole of a call, its waits for the server included.             *)
(***************************************************************************)
EXTENDS PacketProtocol

CONSTANTS
  Threads,        \* the threads of the program
  Nobody,         \* no thread
  Script          \* Script[t]: the calls t makes, in order

ASSUME ApiAssumption ==
  /\ Nobody \notin Threads
  /\ Script \in [Threads -> Seq({"connect", "disconnect"})]

VARIABLES
  calls,          \* calls[t]: those t has not returned from
  where,          \* where[t]: outside, at the lock, or how far in its call
  results,        \* results[t]: what its calls have returned
  m_mutex_lock,   \* the thread that holds it
  m_socket,       \* "new", "open", or connected
  stream,         \* the packets it has put on its connection, in order
  up              \* the server runs

apiVars == <<calls, where, results, m_mutex_lock, m_socket, stream, up>>
vars == <<packetVars, apiVars>>

Init ==
  /\ PacketInit
  /\ calls = Script
  /\ where = [t \in Threads |-> "outside"]
  /\ results = [t \in Threads |-> <<>>]
  /\ m_mutex_lock = Nobody
  /\ m_socket = "new" /\ stream = <<>> /\ up = TRUE

-----------------------------------------------------------------------------
Goes(t, place) == where' = [where EXCEPT ![t] = place]

\* The call of t returns r, or throws: its scoped_lock is released either way.
\* (Mutant: not when it throws.)
Returns_KeepsLock(t, r) ==
  /\ Goes(t, "outside")
  /\ calls' = [calls EXCEPT ![t] = Tail(@)]
  /\ results' = [results EXCEPT ![t] = Append(@, r)]
  /\ m_mutex_lock' = IF r = "threw" THEN t ELSE Nobody

Returns(t, r) ==
  /\ Goes(t, "outside")
  /\ calls' = [calls EXCEPT ![t] = Tail(@)]
  /\ results' = [results EXCEPT ![t] = Append(@, r)]
  /\ m_mutex_lock' = Nobody

Call(t) ==
  /\ where[t] = "outside" /\ calls[t] # <<>>
  /\ Goes(t, "lock")
  /\ UNCHANGED <<packetVars, calls, results, m_mutex_lock, m_socket, stream, up>>

\* (Mutant: nobody waits for the mutex.)
Lock_Shared(t) ==
  /\ where[t] = "lock"
  /\ m_mutex_lock' = t
  /\ Goes(t, Head(calls[t]))
  /\ UNCHANGED <<packetVars, calls, results, m_socket, stream, up>>

Lock(t) ==
  /\ where[t] = "lock" /\ m_mutex_lock = Nobody
  /\ m_mutex_lock' = t
  /\ Goes(t, Head(calls[t]))
  /\ UNCHANGED <<packetVars, calls, results, m_socket, stream, up>>

-----------------------------------------------------------------------------
(***************************************************************************)
(* connect                                                                 *)
(***************************************************************************)
\* A socket is opened once: nothing closes it, and open() throws the next time.
OpenThrows == m_socket # "new"

ConnectThrows(t) ==
  /\ where[t] = "connect" /\ OpenThrows
  /\ Returns(t, "threw")
  /\ UNCHANGED <<packetVars, m_socket, stream, up>>

\* The server does not listen.
ConnectRefused(t) ==
  /\ where[t] = "connect" /\ ~OpenThrows /\ ~up
  /\ m_socket' = "open"
  /\ Returns(t, "refused")
  /\ UNCHANGED <<packetVars, stream, up>>

Connect(t) ==
  /\ where[t] = "connect" /\ ~OpenThrows /\ up
  /\ m_socket' = "connected"
  /\ Starts("CONNECT") /\ Goes(t, "send")
  /\ UNCHANGED <<calls, results, m_mutex_lock, stream, up>>

\* write_some: the packet goes out, or the connection is broken.  A table that is not
\* written to its end is not sent.
Writes(m) == stream' = Append(stream, m)

SendConnect(t) ==
  /\ where[t] = "send"
  /\ IF ret = "encode" THEN Returns(t, ret) /\ UNCHANGED <<packetVars, stream>>
     ELSE /\ SerializeEnds
          /\ \/ Writes("CONNECT") /\ Goes(t, "recv") /\ UNCHANGED <<calls, results, m_mutex_lock>>
             \/ ~up /\ Returns(t, "send") /\ UNCHANGED stream
  /\ UNCHANGED <<m_socket, up>>

\* The answer was written, or never will be.
Answered == msg = "CONNECT_RESP" /\ at # "write" /\ ret # "encode"

RecvConnect(t) ==
  /\ where[t] = "recv" /\ Answered /\ at = "end"
  /\ Returns(t, ret)
  /\ UNCHANGED <<packetVars, m_socket, stream, up>>

RecvThrows(t) ==
  /\ where[t] = "recv" /\ ~up /\ ~Answered
  /\ Returns(t, "threw")
  /\ UNCHANGED <<packetVars, m_socket, stream, up>>

-----------------------------------------------------------------------------
(***************************************************************************)
(* disconnect                                                              *)
(***************************************************************************)
\* disconnect() tells its caller nothing.  Without a connection, or with a server that
\* has ended, sending comes to nothing.
DisconnectIdle(t) ==
  /\ where[t] = "disconnect"
  /\ m_socket # "connected" \/ ~up
  /\ Returns(t, "ok")
  /\ UNCHANGED <<packetVars, m_socket, stream, up>>

\* The first farewell is on the connection.
Left == \E i \in DOMAIN stream : stream[i] = "DISCONNECT"

Disconnect(t) ==
  /\ where[t] = "disconnect"
  /\ m_socket = "connected" /\ up /\ ~Left
  /\ Starts("DISCONNECT") /\ Goes(t, "leave")
  /\ UNCHANGED <<calls, results, m_mutex_lock, m_socket, stream, up>>

SendDisconnect(t) ==
  /\ where[t] = "leave"
  /\ IF ret = "encode" THEN UNCHANGED <<packetVars, stream>>
     ELSE SerializeEnds /\ (Writes("DISCONNECT") \/ (~up /\ UNCHANGED stream))
  /\ Returns(t, "ok")
  /\ UNCHANGED <<m_socket, up>>

\* Nothing remembers a farewell: each further call writes the same packet behind the
\* first, at any time.  The session parses only that one and closes; then the write
\* may fail.
DisconnectAgain(t) ==
  /\ where[t] = "disconnect"
  /\ m_socket = "connected" /\ up /\ Left
  /\ Writes("DISCONNECT") \/ (at = "end" /\ UNCHANGED stream)
  /\ Returns(t, "ok")
  /\ UNCHANGED <<packetVars, m_socket, up>>

-----------------------------------------------------------------------------
ClientField(t) ==
  /\ m_mutex_lock = t /\ where[t] \in {"send", "recv", "leave"}
  /\ Working = "client" /\ FieldStep
  /\ UNCHANGED apiVars

ThreadStep(t) ==
  \/ Call(t) \/ Lock(t)
  \/ ConnectThrows(t) \/ ConnectRefused(t) \/ Connect(t) \/ SendConnect(t)
  \/ RecvConnect(t) \/ RecvThrows(t)
  \/ DisconnectIdle(t) \/ Disconnect(t) \/ SendDisconnect(t) \/ DisconnectAgain(t)
  \/ ClientField(t)

\* session_handler: a packet is parsed, a CONNECT answered.
ServerField == up /\ Working = "server" /\ FieldStep /\ UNCHANGED apiVars
ServerAnswers ==
  /\ up /\ msg = "CONNECT" /\ at = "end" /\ ret = "ok"
  /\ Starts("CONNECT_RESP")
  /\ UNCHANGED apiVars
ServerSends == up /\ Working = "server" /\ SerializeEnds /\ UNCHANGED apiVars

ServerStep == ServerField \/ ServerAnswers \/ ServerSends

\* The server ends, at any time.
ServerEnds ==
  /\ up
  /\ up' = FALSE
  /\ UNCHANGED <<packetVars, calls, where, results, m_mutex_lock, m_socket, stream>>

Next == (\E t \in Threads : ThreadStep(t)) \/ ServerStep \/ ServerEnds

Spec == Init /\ [][Next]_vars

\* Fairness: the operating system runs the threads and hands on a mutex that stays
\* free; a server that runs goes on with what it has begun.
FairSpec == Spec /\ (\A t \in Threads : WF_vars(ThreadStep(t))) /\ WF_vars(ServerStep)

-----------------------------------------------------------------------------
(***************************************************************************)
(* Properties                                                              *)
(***************************************************************************)
Outcomes == {"ok", "refused", "send", "threw", "encode", "header", "method", "body"}

TypeOK ==
  /\ PacketTypeOK
  /\ calls \in [Threads -> Seq({"connect", "disconnect"})]
  /\ where \in [Threads -> {"outside", "lock", "connect", "send", "recv", "disconnect", "leave"}]
  /\ results \in [Threads -> Seq(Outcomes)]
  /\ m_mutex_lock \in Threads \cup {Nobody}
  /\ m_socket \in {"new", "open", "connected"}
  /\ stream \in Seq({"CONNECT", "DISCONNECT"}) /\ up \in BOOLEAN

\* Whatever the threads call, until the server ends: the conversation goes CONNECT,
\* its answer, DISCONNECT, and its next packet begins only when the one before was
\* dealt with; on the connection nothing goes before that CONNECT nor between it and
\* the end of its answer, and farewells only, as many as are called for, behind them.
OneConversation ==
  [][up =>
       /\ msg' # msg =>
            \/ msg = "none" /\ msg' = "CONNECT"
            \/ at = "end" /\ ret = "ok" /\ <<msg, msg'>> \in {<<"CONNECT", "CONNECT_RESP">>,
                                                              <<"CONNECT_RESP", "DISCONNECT">>}
       /\ stream' # stream =>
            \/ stream = <<>> /\ stream' = <<"CONNECT">>
            \/ msg = "DISCONNECT" /\ stream' = Append(stream, "DISCONNECT")]_vars

\* Every call returns or throws, also when the server ends while it is waited for:
\* whoever waits for the mutex behind that call goes on.
CallsReturn == \A t \in Threads : where[t] # "outside" ~> where[t] = "outside"
=============================================================================
