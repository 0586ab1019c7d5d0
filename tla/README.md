# A TLA+ verification project for librtaio

librtaio is a small client/server system over boost::asio: `rtdb-server`, a
daemon that accepts TCP connections and answers a binary protocol, and a client
library that connects to it. This directory holds TLA+ models of it, the TLC
configurations that check them, and theorems about them that TLAPS checks. Paths
below are relative to the repository, whose C++ sources are in its directory
`src/`; a path without it (`libs/app.cpp`) is below that directory.

## 1. Inventory

| component | state it keeps | operations | interacts with | what is hard | what makes it correct |
|---|---|---|---|---|---|
| **network server** (`core/network`, `main.cpp`) | per session: socket, receive buffer, decoded header; the registry `m_set_handlers`; one asynchronous operation in progress per session, one accept | accept, read a piece, header, body, answer, close, stop | clients over TCP; one network thread runs all completions, the main thread stops it | packets cut into pieces, sessions deleting themselves, exceptions that end the thread, errors after which nothing is started again | one operation per handler, an exact registry, reads aligned with packets, no session left without an operation |
| **client library** (`api`, `test/client_main.cpp`) | socket, receive buffer, bytes still missing | connect (send, receive header, receive body), disconnect | the server; other threads through the wrapper's mutex | blocking calls without a time limit, answers in several pieces, short writes | connect() returns 0 only if the server granted it; it does not block for ever |
| **packet protocol** (`protocol`) | none: field tables to bytes and back | serialize, unserialize header and body, copy fields, field sizes | sessions and clients, streams | sizes and counts that have to agree between `fields_size` and the writers, CRCs, reserved cases | what is written is what is read |
| **byte streams** (`common`) | get and put positions in a buffer | read/write of 1, 2, 4, 8 byte values and arrays in network order | packet protocol | widths, byte order, running off the end (asserts) | reading what was written gives it back |
| **application shell** (`libs/app`, `config`, `daemon`, `file`) | the pid file, the quit flag, the processes | start, stop, restart, signals | the file system, signals, other processes of the same program | two starts at once, a stop racing an exit, stale or half-written pid files | one server at a time; stop and restart end |
| **logger** (`libs/log4z`) | the queue of records, the free list, the loggers and their files | push, pop, flush, roll files, change settings, start, stop | every thread of the program pushes; one thread writes | records pushed while stopping, settings changed while records queue, file sizes and dates | no record is lost on a normal exit; records keep their order; memory is neither leaked nor used twice |
| **build, configuration files, `singleton.h`** | none | | | | not modelled: no behaviour, or not compiled in |

How they interact: a command `rtdb-server -d conf -s start` is a process of the
application shell. It writes its pid, constructs `network_server` (which binds the
port) and starts its thread; the main thread then sleeps until a signal handler
has set `g_quit`. A client calls `rtdb_client::connect`, which sends one packet and
blocks for one answer. All threads log: they put records on the logger's queue, and
the logger's own thread writes them. The pid file, the port and signals are all that
server processes share with each other.

What in this code is hard to test is listed line by line under `hazards` in
`PROJECT.json`, each with the properties that would catch it going wrong.

## 2. Modules

| module | what it is | models |
|---|---|---|
| `Frames` | packets as cells, receive buffers | `protocol` as the sessions see it |
| `Tcp` | the connections as boost::asio shows them | external |
| `RtdbServer` | the network thread and its sessions | `core/network`, `main.cpp` |
| `RtdbClient` | a client process | `api/rtdb_client_impl.cpp`, `test/client_main.cpp` |
| `RtdbSystem` | servers and clients composed; all network properties | |
| `ConnectService` | the abstract promise of connecting | |
| `PacketProtocol` | field tables to bytes and back, one field a step | `protocol`, `common` |
| `ClientApi` | one client object used by several threads, exchanging these packets | `api/rtdb_client.cpp`, `api/rtdb_client_impl.cpp` |
| `LogManager` | the queue, the memory and the life of the logger | `libs/log4z.cpp` |
| `LogConfig` | the logger's configuration file, its editor and its parser | `libs/log4z.cpp` |
| `LogFile` | the log files: opening, rolling, removal, settings, automatic update | `libs/log4z.cpp` |
| `Application` | the processes, the pid file, the port and signals | `libs/app.cpp`, `libs/file.h`, `libs/daemon.h` |
| `RtdbSystemProofs`, `RtdbStreamProofs`, `ConnectServiceProofs`, `ProtocolProofs`, `LogManagerProofs`, `LogOrderProofs`, `LogFileProofs`, `ApplicationProofs` | theorems and proofs | |
| `MC...` | the constants TLC needs and a .cfg cannot say | |

`Frames` is extended by `Tcp`, `Tcp` by `RtdbServer` and by `RtdbClient`, and these two
by `RtdbSystem`, which instantiates `ConnectService` with a refinement mapping.
`ClientApi` extends `PacketProtocol`: the same conversation at the level of single
fields, with the pieces of TCP left out, which are the subject of `RtdbSystem`. `LogFile`
extends `LogConfig`. `LogManager` and `LogFile` are two views of the logger's thread: the
first has the queue with its cache, the free list and the end of the thread, the second
what the thread does with what it pops. `Application` stands alone: nothing it keeps is
read by the sessions.

### Frames and Tcp

A packet is a header of fixed size and a body of the size the header announces. A
byte is a *cell*: which byte of which message it is. The bytes of a mark are equal to
each other in the code (`0x11111111`, `0x22222222`), so the cells of a mark are too;
this matters, since a receiver looks at the mark first and a buffer whose mark is
intact may hold anything behind it. A CRC is taken to be perfect: a part passes if
every cell is in its place. A receive buffer is a function from positions to cells
that `Resized` and `Stored` change the way `vector::resize` and a read at an offset do.

`Tcp` has two reliable streams per connection. A reader gets any non-empty piece of
what was written. A client's end may be closed (`"fin"`) or the connection reset; the
kernel of a closed client answers further bytes with a reset. `Flaky` clients may be
killed, cut off, or interrupted while writing.

### RtdbServer

`io_service::run` is called by one thread, so a completion handler is never
interrupted by another and is one atomic step: all of `handle_read` down to the
next `async_receive`, or to the exception that leaves it. What interleaves is the
order of completions, of bytes, of faults and of the main thread's `stop`.

| in the code | in the model |
|---|---|
| an `async_accept`, `async_receive`, `async_write` in progress | a record of `pending`, with the offset and count given to the call |
| `new session_handler`, `delete this` | `hstate[h]`: an address is used once, so a stale use is visible |
| `m_set_handlers`, `m_recv_buffer`, `m_packet_header` | variables of these names |
| the size to which `m_recv_buffer` was last resized | `m_recv_size` (the cells of `m_recv_buffer` stay in place, as `vector::resize` keeps its storage) |
| the state of the thread and the process | `run`, `stopped` |

The actions are the handlers: `HandleAccept` (with `HandleAcceptError`,
`HandleAcceptThrows`), `HandleReadPartial`, `HandlePacketHeader`, `MsgConnect`,
`MsgDisconnect`, the ways a packet is dropped (`UnknownMark`, `BadHeader`, `BadBody`), an
assertion in `istreambuf::underflow` (`BodyUnderflow`), `HandleReadError`, `HandleWrite`,
`HandleWriteError`, and the main thread's (`AcceptorStart`, `Stop`, `RunReturns`,
`ServerExit`). `Close` keeps the order of `session_handler::close`: `remote_endpoint()` is
asked first and throws on a reset connection, before the registry and the socket are
touched; the exception ends the network thread (`run = "failed"`) while the main thread
goes on sleeping and the port stays open.

Fields `piece` and `part` of an operation are not state of the code. They bound in how
many pieces a part arrives (`ServerPieces`) and let properties say what a read was for.

### RtdbClient

One client process makes one `connect` and, if that returned 0, one `disconnect`. Its
calls block, so a step is one call: `Connect`, `SendConnect`, `RecvPiece`/`RecvHeader`/
`RecvBody` (a `read_some` each), `Disconnect`, `Exit`. The failures are those of the code:
a refused connect, a short write that returns the same code as an error, and
`read_some` throwing at the end of the stream, which nobody catches.

### PacketProtocol and ClientApi

A byte is a digit below `Base` and a number of 1, 2, 4 or 8 bytes its digits, so that
widths, signs and byte orders are what they are in the code with 256 for `Base`. A
packet is the sender's table of fields, numbered from 0 as in `protocol_network.h`; writing
it is a `SerializeField` for each field, with the two sums filled in where
`serialize_packet` does it, and reading it an `UnserializeHeaderField` and an
`UnserializeBodyField` for each, with the marks, sums, counts and the copying of the header
(`CopyFields`) in the code's order. Their error returns are there: an array that no number
counts (`"encode"` at the writer, `"body"` at the reader), a header (`"header"`) and a method
that is not the expected one (`"method"`); the tables of the program take none of them. `fields_size` is
`FieldsSize`, a walk of its own over the same table. Reading past the end of a stream is
`Underflows`; where a stream ends is taken from each caller, since the client gives the body's
stream the length of a header. The process name the client sends is what `readlink` left in
a preset buffer without a NUL (`ProcessName`).

`ClientApi` has threads that call `connect` and `disconnect` of one object. The mutex is
taken for the whole of a call and released when the call returns or throws. The socket
is opened once and never closed, so a second `connect` throws from `open()`; a server may end
at any time. `stream` is what the client has put on the connection. `disconnect` tests
nothing, and its caller learns nothing: each call on a connected socket writes a DISCONNECT.
The first (`Disconnect`, `SendDisconnect`) is followed field by field to the session, each
further one (`DisconnectAgain`) is another packet on `stream` that nobody parses, since the session
closes after the first.

### LogManager

A step is what a thread does between two accesses to shared state that another
thread can interleave with. `_runing` and the settings are tested without a lock,
`freeLogData` tests the size of the free list outside its lock, and `stop` empties the
free list without one: each of these is a step of its own. The flags are data races
in C++; lock operations and calls lie between their reads, so the compiler cannot keep
them in registers, and a read is taken to see the last value written.

A logging thread runs a script of calls: `PrePushLog`, `Make`, `PushLogTests`, `PushLog`
for a record, `EnableLogger` (at once), `HotChange`/`HotChangePushes` (through the queue
when the logger's thread runs). The logger's thread is `RunStarts`, `Announces`, `PopLog`,
`OnHotChange`, `WriteLog`, `RunSleeps`, `RunWakes`. `start` waits three seconds for the
semaphore and then returns anyway, so `StartReturns` may happen at any time; a `stop`
that comes before `_runing` is set does nothing, as in the code. One logger
is modelled with one setting.

### LogConfig and LogFile

`LogConfig` has the file (`conf`), an editor that empties it and writes it again line by
line, and `Parse`, the fold of `parseConfigLine` over the lines. `Sum` is the checksum of
`updateConfig`, a sum that different texts may share; `Weight` of a line is a constant.

`LogFile` counts time in the minutes that file names show. A record is stamped by its
thread (`MakeLogData`) and queued later (`PushLog`), so days may come out of order. Popping
one is a single step of the logger's thread, and a disjunct for each way it ends: discarded
(`PopUnwritten`), appended to the open file (`PopAppends`), written to a file opened for it
(`PopOpens`, with the rolling by day and size, the list of old files and their removal), or
lost with the file output turned off because the file cannot be opened (`PopOpenFails`). A
write may take fewer bytes than the record and close the file. `LimitBytes` multiplies
modulo `Word`, as the 32-bit code does. `PopSetting` applies a setting and closes the file.
`UpdateConfig` runs in the sleep of the thread: it stores the checksum of what the file
holds at that moment, half a text included, applies enabling at once and queues the rest.

### Application

A command is a process, and a step is what it does between two accesses to the file
system, the port or another process. `-s stop` and `-s restart` go through
`read`, `probe`, `stale`/`term`, `wait`, `killed`; `start` and `restart` then through `check`,
`daemonize`, `signals`, `open`, `write`, `bind`, `serving`, `remove`, `exit`. A process that
still has the pid file open when another removes it writes to an unlinked file. SIGTERM
sets `g_quit` in a process whose handler is installed and ends any other. Pids are used
again once they are free, also by an unrelated command. A fork or an open that fails, a
missing `logconf` file, on which a process exits after its `check` (a restart has killed the
server by then), and a crash are counted by `failures`. A failed `fork()` is not noticed by `libs/daemon.h` and the
process goes on as its own daemon.

### ConnectService

The abstract specification: a client asks once, is granted at most once and only
inside a session opened for it, learns of it only if it was granted, and the server ends
a session only after its client has left or when it ends itself. `ImplementsConnectService`
maps the phase of a client from the call it is at and from the bytes on their way to it,
its session from the handlers, and `up` from the listening socket. It holds where
sessions stall and clients fail, which is its point: the faults of reassembly below make
the service unavailable, never wrong.

## 3. Runs

Deadlock is checked in `Rolling`, where the logger's thread never ends. In the others the
system may stop: clients finish, servers end, scripts run out and the operator need
not give another command.

| run | specification | properties | what it shows |
|---|---|---|---|
| `Pieces` | `Spec` | `TypeOK`, `OneOperation`, `FrameAlignment`, `ReadFits` | packets in up to three pieces and answers in two, in every interleaving of two sessions: reads stay inside the buffer as it was last resized and aligned with the stream, also where the part is put together wrongly |
| `Faults` | `FairSpec` | `Registry`, `AcceptArmed`, `ImplementsConnectService`, `StopTerminates`, `ClientsReleased` | kills, cuts, resets, short writes, no descriptor left, packets put together wrongly, and a stop, each at any time: the service stays right, the stop ends the server, and no client blocks after it |
| `Served` | `FairSpec` | `NoStall`, `EveryConnectAnswered`, `EverySessionReleased` | in at most two pieces a part nothing stalls and every call is answered |
| `Protocol` | `FairSpec` | `TypeOK`, `StreamsFit`, `RoundTrip`, `ServerLearnsClient`, `OneConversation`, `CallsReturn` | both byte orders at both ends, paths of three lengths, two threads on one object, a server that ends at any time: sizes, writer and parsers agree, packets arrive as sent and never mix, further farewells stay behind the conversation, calls return |
| `LogQuiet` | `Spec` | `TypeOK`, `OnePlace`, `InOrder`, `SettingsInOrder`, `NoRecordLost`, `CountersAgree`, `FreeListBounded` | the logger when the threads that log are stopped first |
| `LogStop` | `FairSpec` | `StopTerminates` | `stop()` returns though threads log and change settings |
| `Rolling` | `Spec` | `TypeOK`, `CounterExact`, `LimitKept`, `TextInForce`, `RecordReachesFile`, `ReserveHonoured` | two threads log across midnight while the reserve time is shortened, the configuration is rewritten and one open or write fails |
| `AppOne` | `FairSpec` | `TypeOK`, `PidfileNamesServer`, `KillEffective`, `PortReleased`, `WaitReturns`, `RestartServes` | five commands for daemons, one at a time, two failures |
| `AppMany` | `Spec` | `TermIsGraceful` | three commands at once, daemons and foreground, one failure: whenever SIGTERM comes, a process that has created its pid file serves, closes its port and removes the file |
| `Reassembly` | `Spec` | `NoStall` (violated) | finding 1 |
| `Answer` | `Spec` | `AnswerUnderstood` (violated) | finding 2 |
| `LogLoss` | `Spec` | `NoRecordLost` (violated) | finding 3 |

Bounds, and why they are enough:

- *Sizes.* `HLen = 4`, `MarkLen = 2`, bodies of 5 and 3. A mark of two cells can be cut,
  a piece can land behind an intact mark, and a header and the bodies differ in size, so
  that a read of one cannot be mistaken for a read of the other; the body of an answer's request
  is the longer, as in the program, and the other too short for a header. `Faults` asks nothing
  of reassembly beyond its failing, and takes a mark of one cell, a header of 2 and bodies
  of 3 and 2.
- *Pieces.* `handle_read` is right for two pieces and wrong for three (the offset is the
  count of the last piece); `ServerPieces` is 3 where that must happen and 2 where it must
  not. The client is wrong for two pieces; `ClientPieces` is 1 or 2 likewise. A packet whose
  sender was cut short may always come in one piece more.
- *Two clients, three handlers.* Two sessions are what an interleaving of sessions
  needs, and each accept allocates the next handler beforehand.
- *Descriptors.* `FdLimit = 1` makes the second accept fail; 2 never.
- *Logger.* Two threads with a setting between records, six records, a free list of one,
  so that both threads pass its unlocked test at once. Where the stop races, three
  records and the scripts (log, enable) and (disable) bring a record, a setting and the
  free list to every step of `stop`.
- *Packets.* `Base = 6`: a number of two bytes holds the lengths up to 17 that the names
  need, one digit more is cut or carried, and the marks, 1111 and 2222 in digits, keep their shape.
  Paths shorter than, as long as and longer than the preset text; names are shorter than
  the buffers of 1024 bytes they are put into.
- *Log files.* A day of two minutes, a word of 12 with a megabyte of 3 and records of 2:
  two records fill a file of one megabyte, and a limit of four is 0 in the machine's numbers,
  as 4096 is in the code's. Times from 2 to 5 hold two days with two minutes each, so that
  a record can be late, a file reopened in its minute and one outlive its reserve time.
  Three records roll by size and by day in any order. `Lag` bounds how old a record is when it is
  popped: `LagAssumption` says that files are kept longer than that, without which the
  file in use could be removed. A caller shortens the reserve time from 3 to 1, so that a
  file that was listed under the one comes up for removal under the other. The editor is cut off only at the ends of lines, one rewrite
  leads from either text to the other, and clocks do not go back (no change of the local time).
- *Application.* Three pids for commands one at a time (the server, a command, and the
  child of its fork; reused throughout) and four for commands at once; five commands
  allow start, crash, restart, stop and another start.

Symmetry is used for clients, handlers, records and pids only where the specification
has no fairness and no constant or property tells them apart.

### Findings

1. `Reassembly`. `handle_read` stores the rest of a part at
   `&m_recv_buffer[bytes_transferred]`, the count of the last piece alone
   (`src/core/network/session_handler.cpp:69`). A part in three pieces is put together
   wrongly, fails its check, and its session is left without an operation. `readme.md:21`
   names split and merged TCP packets as what the project solves.
2. `Answer`. `recv_packet` reads each piece to the start of its buffer
   (`src/api/rtdb_client_impl.cpp:120`, `181`), so an answer of which a part arrives in two
   pieces is rejected.
3. `LogLoss`. `libs/log4z.h:96` says that the logger loses no log on a normal exit. `pushLog`
   tests `_runing` at `log4z.cpp:1545` without the lock and pushes at 1614; the logger's thread
   may end in between, and the record stays on the queue.

Behaviour that the models show and no document speaks of:

- Two starts at the same time can both pass the test of the pid file: with
  `OneAtATime = FALSE` the properties of `AppOne` do not hold. `TermIsGraceful` is what does
  hold of commands at once: none of them ends outright with its pid file left behind, unless it
  crashes or meets a port that is taken.
- A record of yesterday that is popped after midnight reopens yesterday's name with the
  number 0, of which nothing remembers that it is full: `LimitKept` is stated under
  `InDayOrder`, and without that the file may outgrow its limit.
- A file that cannot be opened turns the output of its logger off until a configuration
  with another checksum is read; `TextInForce` says so in its last line.
- The key `reserve` of the configuration is parsed (`libs/log4z.cpp:784`) and never used.
- A client path shorter than the text its buffer is preset with arrives with the rest of
  that text (`ServerLearnsClient`).
- Every further call of `disconnect` writes another DISCONNECT, which the server never reads;
  `OneConversation` says that none comes before the first.
- After a failed accept nobody is accepted any more (`AcceptArmed` has that exception); a
  connection that was reset before its session starts or closes ends the network thread, and
  with it the service of all sessions, until the process is stopped.
- After an answer the header of the next packet is read into a buffer that was resized to the body
  of the CONNECT. It has room because that body carries a path of fifteen characters or more
  (`ReadFits`, `ConnectHoldsHeader`).
- A restart whose configuration names no `logconf` file kills the server and exits.

## 4. Fairness

- *Network.* The network thread keeps running its `io_service`, which keeps
  completions in a queue and dispatches each: weak fairness of `HandlerStep(h)` for each
  handler, and of the thread's own steps. A client that is not blocked goes on. Nothing is
  assumed of faults, kills or the stop.
- *Client object.* The operating system runs the threads and hands on a mutex that stays
  free: weak fairness of `ThreadStep(t)` for each thread, which is enough since scripts are
  finite; a server that runs goes on with the packet it has begun. Nothing is assumed of
  `ServerEnds`; `CallsReturn` holds because a server that ends closes its sockets, and a
  blocked read then throws.
- *Logger.* The operating system runs the logger's thread and the thread that calls
  `stop`. Nothing is assumed of the threads that log; `stop` returns all the same. `LogFile` is
  checked for safety alone.
- *Application.* Every process is run; the `sleep(10)` of the main loop is interrupted by
  the signal or ends. The wait for the pid file to go is a guard (`WaitGone`), not a
  poll. Commands and crashes are never required, and `WaitReturns` and `RestartServes` are
  promised as long as nothing has failed.

## 5. Proofs

TLAPS checks these for every value of the constants allowed by the named assumptions of
the modules. Most of them (`FramesAssumption`, `TcpAssumption`, `ServerAssumption`,
`ClientAssumption`, `ProtocolAssumption`, `ApiAssumption`, `LogAssumption`,
`ThreadAssumption`, `FileAssumption`, `ConfigAssumption`, `ApplicationAssumption`) only give
types, keep distinguished values apart, and say that a part is longer than its mark, that the
length of a name fits into a positive short, that a day has a length and that the threads
that log are finitely many. `ParseAssumption` says that what is parsed of a
configuration, cut off at any line, is a setting, and that a limit in it is the default or
some line's; TLC evaluates it for the texts of the run. `LagAssumption` says that files are
kept at least as long as records wait, `HeaderFitsAssumption` that the body of a CONNECT is not
shorter than a header, which `ConnectHoldsHeader` proves of the packets, `LengthAssumption` that 2^32 bytes are whole
megabytes and a record is shorter than one (`LOG4Z_LOG_BUF_SIZE` is 8 KB). `CrcIsLong`, the
hypothesis of the theorems of `ProtocolProofs`, says of the sum of any bytes that it fits into
four, as those of `crc32` do. It speaks of all sequences, so TLC cannot evaluate it; `MCSums`
in `MCClientApi` has TLC check it of the short ones. Nothing else is asked of the sums.

| module | theorem | states |
|---|---|---|
| `RtdbSystemProofs` | `TypeCorrect` | `Spec => []TypeOK` |
| | `OneOperationPerHandler` | `Spec => []OneOperation` |
| | `RegistryExact` | `Spec => []Registry` |
| | `AcceptStaysArmed` | `Spec => []AcceptArmed` |
| | `ReadsStayInside` | `Spec => []ReadFits` |
| `RtdbStreamProofs` | `SessionsStayAligned` | `Spec => []FrameAlignment` |
| | `NoSessionStalls` | `Spec => []NoStall`, for `ServerPieces <= 2` |
| `ConnectServiceProofs` | `ServiceImplemented` | `Spec => ImplementsConnectService` |
| `ProtocolProofs` | `ProtocolTypes` | `Spec => []TypeOK`, under `CrcIsLong` |
| | `StreamsAlwaysFit` | `Spec => []StreamsFit`, under `CrcIsLong` |
| | `PacketsComeBack` | `Spec => []RoundTrip`, under `CrcIsLong` |
| | `ServerIsTold` | `Spec => []ServerLearnsClient`, under `CrcIsLong` |
| | `ConversationsNeverMix` | `Spec => OneConversation`, under `CrcIsLong` |
| | `ConnectHoldsHeader` | the body size in a CONNECT is at least the size of a header, under `CrcIsLong`, for a preset path of fifteen bytes with its NUL or more |
| `LogManagerProofs` | `TypeCorrect` | `Spec => []TypeOK` |
| | `NothingLost` | `Spec => []NoRecordLost`, under `StopWhenIdle` |
| | `FreeListStaysBounded` | `Spec => []FreeListBounded` |
| `LogOrderProofs` | `RecordsHaveOnePlace` | `Spec => []OnePlace`, under `StopWhenIdle` |
| | `WrittenInOrder` | `Spec => []InOrder`, under `StopWhenIdle` |
| | `SettingsApplyInOrder` | `Spec => []SettingsInOrder`, under `StopWhenIdle` |
| | `CountersStayExact` | `Spec => []CountersAgree`, under `StopWhenIdle` |
| `LogFileProofs` | `TypeCorrect` | `Spec => []TypeOK` |
| | `CounterIsLength` | `Spec => []CounterExact` |
| | `ReserveKept` | `Spec => ReserveHonoured` |
| | `RecordsReachFiles` | `Spec => RecordReachesFile` |
| | `FilesKeepLimit` | `Spec => []LimitKept` |
| | `TextComesIntoForce` | `Spec => []TextInForce`, under `NoCollision` |
| `ApplicationProofs` | `TypeCorrect` | `Spec => []TypeOK` |
| | `ServersStopInOrder` | `Spec => TermIsGraceful` |
| | `PidfileFindsServer` | `Spec => []PidfileNamesServer` |
| | `KillIsEffective` | `Spec => []KillEffective` |
| | `PortIsReleased` | `Spec => []PortReleased` |

*Network.* None of these is inductive. A handler's step is well typed only if its
operation belongs to a session with a peer, and an accept stays armed only if the
operation being completed is the only one of its handler. The invariant `IInv` is the
conjunction of `TypeOK`, `OneOperation`, `Registry`, `AcceptArmed` and `PeerInv` (who has
a peer). `RtdbSystemProofs` shows that each group of actions preserves the types
(`OpStepType`, `ThreadStepType`, `ClientStepType`, `LinkStepType`) and then the rest
(`ContinuesStruct`, `CloseStruct`, `AcceptStruct`). `ReadFits` needs one conjunct more
(`ReadInv`): a body read is for a header that was decoded and into a buffer of that size, and
from a header read, or an answer on its way, the buffer has room for a header. The latter is
carried from the body of the CONNECT to the end of the write, which resizes nothing, and
begins with `HeaderFitsAssumption`. `NextOffset + Remaining` never exceeds the size of the part,
also with the wrong offset of finding 1, which is why that fault never writes beyond the
buffer.

*The stream of a connection.* A client writes CONNECT and, at the end, DISCONNECT; `Stream`
is the two behind each other, and a connection holds a stretch of it. `StreamInv` says of
every operation where in `Stream` the bytes its session has still to read begin
(`Begun`), that they are what the connection holds (`Along`), and that the bytes of the part
it has in place are the stream's own as far as they are not overwritten (`Reads`: the mark is
always intact, and a header of another message always differs from the one that is expected,
`Differs`). `Waiting` says that nothing was read of a client whom nobody has accepted.
`FrameAlignment` follows for any number of pieces: the fault of finding 1 puts bytes in the
wrong place of the buffer, and never makes a session lose its place in the stream.
`NoStall` needs that each part is assembled right, which the code does for two pieces and not
for three (run `Reassembly`), so `NoSessionStalls` has the hypothesis `ServerPieces <= 2`.
Its invariant `AssemblyInv` says of a read in progress that it is the first or the second of its
part, that the first begins at the start of the buffer, that what is in place and what is
wanted make up the part, and that what is in place is right (`Exact`); or else that
its client has gone and fewer bytes are left than it wants, so that the session will be
closed (`Short`). The proof shows more than the property: with two pieces `UnknownMark`,
`BadHeader`, `BadBody` and `BodyUnderflow` cannot be taken at all.

*Connection service.* `ServiceImplemented` maps initial states to initial states and each step of
`RtdbSystem` to a step of `ConnectService` or none. `ServiceInv` is what the map needs:
before a client has sent its request neither direction of its connection holds a byte
(`Unasked`), a client that waits and a read in progress still lack a byte (`Reading`,
`Underway`), only a client that is gone has closed its end (`Ended`), no two handlers serve
one client (`OwnPeer`), and the last byte of a farewell is on its way, or in the buffer of a
session, only for a client that has said it (`Farewell`): so a session is released only
after its client has left. Beside it, a client that has not called `connect` has no connection
(`Uncalled`), and a second call is never made. Reassembly plays no part in it, and there is no hypothesis on
the pieces.

*Packets.* `PacketInv` says where the two ends of a packet are. `Sending`: of the sender's
table the fields before the one in turn lie in the stream one behind the other (`Laid`), field
`i` from `At(m, nm, i)` on as `Chunk` has it, and the two sums, once filled in, are those of
the bytes before them. `Receiving`: the reader is at the place where its field begins, and the
fields behind it are the sender's (`Alike`). Writing a field then appends one chunk
(`LaidNext`) and reading one finds that chunk (`PartHolds`), so the sums that the reader
computes are over the same bytes and no branch that fails can be taken. Below it are the
numbers: the digits of a number make the number again (`UnsignedDigits`), in either byte order
at either end (`WrittenIs`, `ReadIs`), and what is below half of the range is not read as
negative (`SignedDigits`). This is where the length of a name with its NUL has to fit into a
positive short. The marks, 11111111 and 22222222, read the same from either end
(`MarkReversed`): the mark is tested before its bytes are put into order. `Unsigned`, `Pow`, the sizes
of the fields and the folds over a table are recursive functions; what they compute is shown
by induction on a set of numbers (`SetInduction`, from the well-foundedness of `<`), for which
the theorem needs no operator as a parameter.

*Client object.* `ApiInv` adds to `PacketInv` that a thread is inside a call exactly if it
holds the mutex (`OneInside`), and how far the conversation is (`Conversation`): where the
thread inside stands determines the packet under way, and while nobody is in an exchange
and the server runs, the last answer was read to its end or the farewell was said.
`OneConversation` needs all of it: `RoundTrip` alone says of an answer that it is right,
`Conversation` that nobody begins a packet before it was read, and what `stream` holds at each
point: nothing before the CONNECT is written, the CONNECT alone until its answer was read, and a
farewell only once `msg` is DISCONNECT, which is what `DisconnectAgain` needs.

*Logger.* `TypeInv` adds to the types that a thread about to push, write or free holds a
record. `NothingLost` assumes `StopWhenIdle`, the hypothesis `LogLoss` shows to be needed; its
invariant `StoppedIdle` says that once a logger that had started is not running, every logging
thread is idle with its script done, so the queue found empty by `RunWakes` stays empty.
`FreeListStaysBounded` counts the threads that have passed the test and not yet appended.

*Records and their order.* `Owned` says that a record is in the line (`_logsCache` followed
by `_logs`), on the free list or in one hand, never in two and never twice. `stop` empties
the free list without its lock, so it needs `Phases`: no other thread runs then. Order is a
relation between four places: what is written comes before what the logger's thread holds,
that before the line, and the line before what its thread will log next (`Queued`,
`Handled`, `Making`). It speaks of the contents of records whose memory is used again, and
therefore rests on `Owned`. For `SettingsApplyInOrder` a logger that some thread has disabled
either is disabled or the setting is still under way (`Disabled`), and then it comes before
all that its thread logged afterwards.

*Log files.* `Inv` has the types, the configuration (`TextInTwoParts`: what is written and
what is still to be written make one text, so that whatever is parsed is covered by
`ParseAssumption`), the queue (`Calling`: no record is older than `Lag`) and the files
(`Writing`: the list of old files is dated, no record lies in a file of an earlier day, an
open file bears the name and day in force, and the counter is its length modulo the machine
word, from `WrapAdd`). `RecordsReachFiles` needs `LagAssumption`: the file being
opened for a late record must not be among those that are removed in the same step.

`LimitKept` is not inductive, since a file that is closed below its limit may be opened again
later, under its old name or with another limit. `SizesGood` says of all files, not only of
the open one, that none has a later day or a higher number than those in use, and that one
with the day and the number in use, the only kind that can be written again, is either no
longer than `_curWriteLen` or within some limit: what a file that is left behind was, because
`NeedChangeFile` would have raised the number otherwise. So a file is within a limit whenever it
is opened (`OpensSettled`), and the counter never wraps, because a limit is whole megabytes
(`LimitFacts`). `DayPopped` and `InDayOrder` make the numbers of a day start where the day has
no file.

`TextComesIntoForce` follows the queue: `Ends` says what a setting comes to be when the queue is
worked off, and the lemmas on it (`EndsAppend`, `EndsTail`, `EndsConcat`) what a push, a pop
and an update change. The invariant speaks of *every* part of a text with the stored
checksum (`Looked`), because the file is rewritten between updates; that enabling acts at once
and past the queue is harmless because only callers queue while the logger's thread sleeps
(`Quiet`). The hypothesis `NoCollision` is not a property of the code: the checksum is a sum
of bytes, so two texts with the same bytes in another order have the same one, and an update
from one to the other is overlooked. `MCLogFile` has TLC confirm it of the texts of its run.

*Application.* `IInv` adds `HandlersInstalled`: a process from `open` on has its signal
handlers. It makes the branch of `Terminate` that ends its target impossible for one that has
created its file, is binding, serves, or has yet to remove the file; what is left are the
process's own steps (`GoesInTurn`, `OwnStepGraceful`).
The other three theorems use `Alone`, which holds with commands one at a time: there is one
command at most; the pid file names whoever holds it; a command that found no daemon, and
goes by that, is right, and stays right because nobody else can become a daemon before it has
ended; the process that is probed is the holder, though pids are used again; the port belongs
to a serving process.

Every invariant and every action property that a passing run checks has a theorem. Out of the
prover's reach and left to TLC is everything that depends on fairness
(`EveryConnectAnswered`, `EverySessionReleased`, both `StopTerminates`, `ClientsReleased`,
`CallsReturn`, `WaitReturns`, `RestartServes`) or on `ENABLED`. What the parser of a
configuration computes, a fold over the lines of a text, is not proved either: the theorems
about the log files take of it what `ParseAssumption` says.

## 6. What is not modelled

- **Several loggers.** `createLogger` and the per-logger arrays: loggers share the queue,
  which one logger exercises, and nothing else. Display output, its colours and the formatting of
  a record's text have no state. `LogFile` does not stop its thread, which is the subject of
  `LogManager`.
- **Local time.** Clocks do not go back and the time zone does not change.
- **Floats and doubles** of the streams: no field of a packet has them.
- **The client's destructor and `close()`**: the first only waits for the mutex and deletes
  the implementation, the second has no body.
- **TCP in `ClientApi`.** A packet arrives whole there, and a server that lives answers; pieces,
  resets and stalled sessions are the subject of `RtdbSystem`.
- **Server configuration** (`config`): read once before anything runs; `Application` assumes
  it names a pid file, as `conf/rtdb.ini` does. Without one, `m_app_args.pidfile` is the
  empty string and no command finds another.
- **Names of 1024 bytes and more**, and **pids of different lengths** in a pid file: it
  is emptied when it is opened and written once, by one process.
- **Weak memory.** Racing flags are read as last written.
- **Windows branches, build files, `singleton.h`**: not compiled in, or without behaviour.

## 7. Plan

Done, in the order of importance: the network (`Frames`, `Tcp`, `RtdbServer`,
`RtdbClient`, `RtdbSystem`, `ConnectService`), `LogManager`, `Application`, then
`LogConfig` with `LogFile`, `PacketProtocol` and `ClientApi`; with the proofs of section 5.

Left:

1. An abstract queue that `LogManager` implements; `InOrder` and `OnePlace` are what it
   would promise.
2. Proofs that need no `StopWhenIdle`: what remains true of the records when threads go on
   logging while the logger stops.
3. Several loggers that share the queue.
