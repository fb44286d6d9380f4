# A formal model of the IoServices library

HelloBoostIoServices wraps Boost.Asio: an application gets TCP, TLS, UDP and
Unix domain streams, timers and posted work, all driven by callbacks that run
on the threads of one `io_service`. This directory holds TLA+ modules of the
library's own logic and of two programs built on it, the TLC runs that check
them on small instances, and proofs checked by TLAPS. Boost.Asio, OpenSSL and
the operating system are modelled by what the code relies on, and marked
external in `PROJECT.json`.

## 1. The system

`io_service::run` is called by one thread (`IoServicesImpl::Run`) and by as many
worker threads as `RunWork` has created. Any of them runs any completion handler,
and application threads call in at any time, so every pair of operations below
can interleave unless a mutex or the order of asynchronous operations says
otherwise. There is no strand in the code.

| Component | State | Operations | Interacts with |
| --- | --- | --- | --- |
| `IoBufferWrapper` | a string or a vector, a terminator flag | construct, `ToBoost`, `BoostSize` | handed to asio by the connections |
| `TcpPeerConnection`, `TcpConnection`, `TcpDomainConnection` (outbound) | `mOutQueue` under `_mutex`, the socket | `AsyncWrite`, `LaunchWrite`, `WriteHandler`, `Close` | asio, servers, stream handles |
| `IoCircularBuffer` with the read callback of a connection or listener | vector with spare capacity, `_shouldRead`, `_hasContext`, callback | `BeginChainedRead`, `BeginReadSome`, `ReadSome`, `ReadSomeHandler`, `Consume`, `CopyTo` | asio writes into its spare capacity; the application reads in a callback |
| `TcpServer`, `UnixServer` | acceptor, `_peerConnections` under `_mutex` | `Start`, `Stop`, accept and handshake handlers, `OnAccept`, `ErrorHandler`, `SendMessageToAllPeers` | owns connections; calls the application |
| `StreamConnection`, `UnixStreamConnection` | weak pointer to a connection | `AsyncWrite`, `Consume...`, `Close`, `Expired`, destructor | the application's handle |
| `IoServicesImpl`: life cycle and workers | `_shouldRun`, thread pool, `_freeWorkerCount` | `Start`, `Run`, `RunWork`, `Stop` | every handler runs on its threads |
| `IoServicesImpl`: periodic timers | one deadline timer per id | `InitialisePeriodicTimer`, `SetPeriodicTimer`, `CancelPeriodicTimer` | handler sets the timer again |
| `IoServices`, `IoServicesImpl`: clients | `_clientConnections`, `_domainConnections`, no lock | `AsyncConnect`, connect, read and error handlers | connections, application callbacks |
| `UdpListener`, `DgramListener` | write queue, circular buffer, `_listeners` under a mutex | bind, connect, send, `LaunchRead`, `StopListening` | as for streams |
| `ClientUnixConnection`, `UnixConnectionManager`, `UnixDomainClient/main.cpp` | promise of the connection, promise of the error, a task, a signal handler | `Start`, `SetConnection`, `SetError`, `RunOnce`, `TryAddConnection`, shutdown | client connections, a datagram sender |
| `UnixDomainServer/main.cpp` | `Impl` with its map of handles | accept, read and heartbeat callbacks, the main loop | `UnixServer`, a timer, a listener |

What is hard, and what must hold:

* **Write queue.** Callers and completion handlers race for the right to launch.
  At most one write is outstanding, a queued message is never forgotten, the
  message popped is the message written, bytes leave first in, first out.
* **Read chain.** asio writes into a vector's spare capacity while nobody may
  move it; a custom allocator keeps `resize` from erasing what was read. No byte
  is lost or repeated, the application and a read never touch the buffer together.
* **Servers.** The accept chain must not end; the list of peers must agree with
  the sockets; a connection must outlive the handlers that hold its `this`.
* **Workers.** Work counts must not drift, an exception must not end the process,
  stopping must end every thread.
* **Timers.** Cancel and set race with the handler that sets again: one call is
  one chain, and a chain that ended stays ended.
* **Clients.** The callbacks of one client come in a sensible order on any number
  of threads; a handle may be dropped at any point; a map is changed without a lock.
* **Listeners.** A read may be started by a bind, a connect or the application,
  and its starts may overlap; a connected one must receive, and one that is closed
  must be removed.
* **Programs.** Promises, timeouts, a signal handler that joins threads, and
  objects destroyed while callbacks refer to them.

`PROJECT.json` lists these as hazards, each at its line, with the property that
covers it or the reason none does.

## 2. Modules

| Module | Models | Role |
| --- | --- | --- |
| `IoBuffers` | `IoBufferWrapper` | lengths handed to asio and expected back |
| `WriteQueue` | outbound half of a stream connection | detailed specification |
| `MessageChannel` | what that half promises | abstract specification |
| `MCWriteQueue` | | instance for TLC: the payloads |
| `CircularBuffer` | `IoCircularBuffer` and the read chain through it | specification |
| `TcpServer` | `TcpServer`, plain and secure, and the plain `UnixServer` | specification |
| `WorkerPool` | `IoServicesImpl`: `Start`, `Run`, `RunWork`, `AddWorker`, `Stop` | specification |
| `PeriodicTimers` | `IoServicesImpl`: periodic timers | specification |
| `ClientConnections` | `AsyncConnect`, `TcpPeerConnection`, `StreamConnection` and their Unix domain twins | detailed specification |
| `ConnectionLifecycle` | what an application may rely on of a client | abstract specification |
| `DatagramListener` | `UdpListener`, `DgramListener` | specification |
| `ClientUnixConnection` | the Unix domain client's task and its manager | part of the next |
| `UnixDomainClient` | the program of that name | composition |
| `UnixDomainServer` | the program of that name, on the library's server, timer and listener | composition |
| `WriteQueueProofs`, `CircularBufferProofs`, `TcpServerProofs`, `WorkerPoolProofs`, `PeriodicTimersProofs`, `ClientConnectionsProofs`, `DatagramListenerProofs`, `UnixDomainProofs` | | theorems and proofs, the last about both programs |

`WriteQueue` takes its lengths from `IoBuffers`. The others rely on one another's
results rather than on one another's state: `ClientConnections`, `TcpServer` and
`DatagramListener` reduce a write to "pending, complete or broken", as `WriteQueue`
shows, and a read to "pending, data or error", as `CircularBuffer` shows;
`ClientUnixConnection` reduces a client connection to what `ConnectionLifecycle`
promises.

A definition whose name begins with `Faulty` (and `BoostSizeWithoutTerminator`)
is a bug one could make in the definition after it. None of them is part of a
specification; `PROJECT.json` ("mutants") pairs each with the property that
notices it.

### WriteQueue

`mOutQueue` holds message numbers instead of buffers; `accepted[m]` is the
buffer of message `m`. A call of `AsyncWrite` is two steps, because
the mutex is taken before the push and given up after the launch: `PushMessage`,
then `ReturnBacklog` (queue longer than one) or `LaunchFirst`. The handler is
`WriteIncomplete` (close, nothing popped) or `WriteComplete`, then, under the
mutex, `PopMessage` and `QueueEmpty` or `LaunchNext`. asio's write is
`TransmitByte`, one byte at a time, until the buffer is exhausted, the peer has
gone (`PeerFails`) or the socket is closed. `Close` takes no lock in the code
and none here. Messages are lengths: of a byte only its message and its position
are kept, and that is what the ordering properties tell apart.
`PeerSocket` and asio's view of it change in one step; the loss of already
acknowledged bytes in the network is not modelled.

### CircularBuffer

A byte is its position in the peer's stream. `memory` is the storage of the
vector, as long as its capacity, `size` is the vector's size, and `base` counts
reallocations, so that a read which was given the address of older storage writes
nowhere. `Resize`, `Reserve` and `Erase` are the vector's operations with
`ResizeReserveAllocator`. `ReadSomeHandler` is cut at the two places where other
threads can act: while the application is in its callback (`notify`) and between
the end of the context and the next read (`chain`). A callback that throws, or
that consumes more than there is, ends the chain (`NotifyThrows`). `BeginReadSome`
is its test (`TestShouldRead`) and its set and read (`StartReading`). The run has
one thread that starts reads, and its properties are about the buffer that is
read by one chain; what happens when two starts overlap is `DatagramListener`'s,
which has the two callers. `BeginChainedRead` is one step: it runs before any read
exists. The limit `max_size` is out of reach of the bound `StreamLength`.

### TcpServer

A connection is a number; its state is its socket, its client, its outstanding
read, its outstanding write and whether it is listed. `Alive` says who owns it:
the list, an accept, a handshake, a write, or a handler that holds a
`shared_ptr`. The completion handler of a read holds only `this` and is not
among them. `OnAccept` is cut where other threads can act: before the read is
started, before the lock, in the application's callback (under the lock), before
the next accept. `ErrorHandler` is one step under the lock, as is the broadcast.
What runs on a destroyed connection is undefined; `DanglingRead` takes the
outcomes seen in practice, `shared_from_this` throwing or the process
dying, as a choice. A write queue is reduced to none, pending or broken (after an
incomplete write nothing is launched any more, as `WriteQueue` shows). `Stop` is
called by the destructor only, after the threads have been joined, so it waits
for idle threads and nothing runs after it. The accept callback may write, close
and throw; it may not broadcast, which would lock a mutex its own thread holds.

### WorkerPool

A task is a number: the notification `Start` posts, a piece of work, or some I/O's
completion handler. Its queue is asio's, first in, first out. `RunWork` is cut
where other threads can act: `TestFree`, then `CreateThread`, `PushWorker` and
`CountWorker` when no worker was free, then `PostWork`. Nothing locks
`_workerHandles`: two callers between the creation of their threads and the end
of their `push_back` race (`raced`), after which the process may end at any time
(`CorruptHandles`). The decrement at the start of a task is part
of `TakeTask` and the increment of `EndTask`; work that throws is reported by its
wrapper and ends the same way. The notification sets the promise of `Start`
between the two (`NotifyStarted`), so a caller may go on while the count is -1.
A handler that throws sends the service thread
round its loop, and ends the process on a worker, where nothing catches it.
`Stop` is four steps: `_shouldRun`, `io_service::stop`, `join_all`, the future
of `Run`. `boost::thread_group` is locked while it joins, so `CreateThread` waits for
that; a thread created after the join finds the service stopped. `RunWork` may be
called as soon as `Start` has returned, during and after `Stop` too. The callers
of `RunWork` and `Stop` are application threads, not handlers.

### PeriodicTimers

A call of `SetPeriodicTimer` starts a *chain*, named by its timer and the number
of the call: wait for the expiry, run the handler, set the timer again, wait.
The deadline timer is the set of its outstanding waits (`waits`); setting its
expiry or cancelling it (`Abort`) moves waits to `completions` with an error.
Setting the expiry and waiting are two calls on the timer object and two steps
here (`actor`, `"expires_set"`), for `SetPeriodicTimer` and for the handler that
chains. Two threads that are inside the same timer object at once, setting or
cancelling, race; a timer
that has raced (`raced`) may lose any of its waits on an abort, or none. The map of
timers has no lock: putting a timer into it is two steps (`InitialisePeriodicTimer`,
`Emplaced`), and once another thread has searched the map, or put a timer in,
between them (`overlapped`), a search may miss a timer then and later
(`SetUnknownTimer`, `CancelUnknownTimer`, `ChainLost`). `Others` are timers that are
initialised and never set: of them only their part in the map counts. There is
no clock: an expiry may come at any time and must come some time. One-shot
timers can be initialised by the code and nothing else, and are left out.

### ClientConnections and ConnectionLifecycle

Of each client the model has the `async_connect`, the socket, the read that is
outstanding, whether its callbacks own the connection (`chained`), whether the
application keeps the handle (`kept`), and what the application has been told.
A handler is cut where the library calls the application, since a callback may
keep the handle, drop it, throw or be overtaken by another thread. Ownership is
computed from the state: `Held` (the handle exists) and `Alive` (the connection
does). `Released` closes the socket when a step gives up the last reference to
the handle, which is what the destructor does. The map has no lock: an
insertion (`AsyncConnect`, `LaunchConnect`), a search (`ErrorHandler`, `Found`) and a
removal (`Found`, `Erase`) take two steps each, and a modification that overlaps
another access sets `raced`, after which the map may lose entries, a search may
miss or find anything, and the program may end. The TCP and the Unix domain client
have the same code and a map each, so the model is of one of them.

`ConnectionLifecycle` is what an application sees of a client, on two tracks.
AsyncConnect is answered once: it throws, or one of the callbacks for a made or
a refused connection is called. What is read is delivered by one callback at a
time, and the loss is the last of them. The read chain starts before
the connect callback is called (`IoServices.cpp:143`), so on two threads data, and
even the loss, may come before or during that callback; the constant `Overtaking`
says so, and without it, on one thread, the callback has returned before
anything is delivered. `Answer` and `Reading` map a client's state to the two
tracks.

### DatagramListener

One listener from its creation to its removal from `_listeners`, which has a
mutex. It is bound, and reads at once, or unbound, and reads when it is connected
or when the application calls `LaunchRead`. Both call `BeginReadSome`, whose test
and set are two steps: `LaunchRead` and `Launch` for the application,
`ConnectHandler` and `ConnectStarts` for the connect handler. Nothing keeps them
apart, so `reads` counts the receives that are outstanding or have completed, and
two at once are a state of the model; their handlers change one buffer together,
after which the program may go on or end (`CorruptBuffer`). A start that would
make more than `MaxReads` of them is left out. A receive holds only `this` of the
`UdpListener`, the connect callback only `this` of the `DgramListener`; a handler
on a destroyed object ends the behaviour (`crashed`). `_asyncConnected` chooses
between two receive calls that differ in nothing modelled. A message in `mOutQueue`
is whether it has a destination: one that has opens the socket it is sent on. A
datagram of length zero is an error of the receive, as it is in the code. The
application uses the handle from one thread besides the callbacks.

### ClientUnixConnection, UnixDomainClient

The client's task is `RunOnce`, cut at its waits; a wait with a timeout may end
by the timeout at any time (`ConnectTimesOut`, `ErrorAwaited`). `_mutex` is the
client's: the task holds it from `LockMutex` to its end, but for `Wait`, so also
while it waits for the error; `Stop` takes it on the main thread for its flag. The
manager's callbacks `HandleConnectCallback` and `HandleErrorCallback` run on the
`io_service`, under the manager's mutex. `SetError` is three steps, the promise
(`HandleErrorCallback`), the flag under the client's mutex, the notification: the
task may end, and the client be destroyed, between any two of them.
`UnixDomainClient` adds the program: the main thread, the datagram sender, the
watchdog, and the signal handler, which runs on whatever thread the signal
interrupts: that thread keeps the mutexes it holds and does nothing else. The
handler's stopping, joining and waiting are steps of their own. Its variables and
actions have names that those of `UnixDomainServer` do not use (`ioAt`, `mainAt`,
`ProgramSpec`), so that one module can prove theorems about both programs.

### UnixDomainServer

The program runs everything on one `io_service` thread, so a handler is one step
unless the clients, the network or the main thread can act within it. It composes
the library's Unix domain server, a periodic timer and an unbound listener, each
reduced to what the single thread leaves of it, with the program's acceptor,
reader and heartbeat. The heartbeat walks `_connections` and throws at the first
connection that has expired; `HeartbeatsDone` and `Heartbeat` are the steps of
the walk. The main loop's datagram throws once an error has removed its listener,
and `Impl` goes before the services do.

## 3. Runs

| Run | Bounds | Shows |
| --- | --- | --- |
| `write_queue` | 2 callers, 2 workers, 3 messages out of an empty string with terminator, a 1-byte string with terminator, a 1-byte vector | `AtMostOneWrite`, `QueueMatchesWrites`, `NoLostLaunch`, `HealthySocketKept`, `ImplementsChannel`, `MessagesDelivered`, `FailureClosesSocket` hold |
| `circular_buffer` | 1 starter, 2 workers, chunks of 2, a stream of 4 bytes, 2 starts | `ContextExcludesRead`, `ReadFitsSlot`, `BufferHoldsStream`, `ReadingGoesOn`, `StreamIsRead` hold |
| `server` | 2 workers, 3 connections | `AcceptChain`, `OpenPeersAreRead`, `ToldClientsAreListed`, `LostClientsAreClosed` hold |
| `server_dangling` | 1 worker, 3 connections | `ReadCallbackFindsConnection` is violated |
| `worker_pool` | 2 callers, 2 workers, 5 tasks | `FreeCountExact`, `StoppedIsQuiet`, `PostedWorkRuns`, `StopReturns` hold |
| `timers` | 1 timer and another that is only initialised, 2 application threads, 2 `io_service` threads, 3 calls | `OneChainPerCall`, `SetTimersHaveAChain`, `EndedChainsStayEnded`, `KeepsTicking` hold |
| `clients` | 2 clients, 2 threads | `UnheldAreClosed`, `ClosingIsNoticed`, `ImplementsLifecycle`, `LossIsReported`, `RefusedAreForgotten` hold |
| `client_dropped` | 1 client, 1 thread | `DroppedClientsAreRemoved` is violated |
| `datagrams` | 2 threads, 1 queued message, a start with at most 1 read in progress | `ConnectedListenersReceive`, `ClosedReadersAreRemoved` hold |
| `datagram_overlap` | 1 thread, nothing sent | `OneReceiveInProgress` is violated |
| `unix_client` | the program's one client and threads | `CallbacksFindManager`, `NormalEndIsTheLast`, `NoWakeUpIsLost`, `SignalStopsProgram`, `ErrorsEndTheClient` hold |
| `unix_server` | 2 clients | `CallbacksFindImpl`, `ToldBeforeData`, `LostClientsAreRemoved`, `HeartbeatsReachClients` hold |

Deadlock is not checked: every bounded run may stop when its messages, its
stream or its clients are used up, and the real system is then idle too; a
program of the last two runs ends. A process that has crashed takes no step.

*Why the bounds are enough.* Two callers and two workers give every pair of
actors that can meet at the mutex; three messages give a queue with one message
in flight, one waiting and one being pushed; the payloads have the three
lengths (0, 1, 2 bytes) at which `ToBoost` and `BoostSize` decide differently,
and a write of two bytes can be cut short in the middle. With chunks of two and
a stream of four the buffer grows while it still holds unread bytes, is consumed
in part and in full, and a read can return less than it asked for. Three connections
are two clients and the accept that waits, enough for one client's error to meet
another's pending read.
Five tasks are the start notification and four more, shared out among work and
handlers: two callers that both find no worker free, their work, and handlers
that throw before and after it. `RoomToPost` and `RoomToAdd` let a call of `RunWork`
begin only if it can end within the bounds. Timers share the unlocked map and
nothing else: one that is set, and one that is only put into the map, are enough;
three calls give a chain that is running, one that replaces it and one
that races with both, from two callers and two handlers. Two clients are needed
for two changes of the map to overlap, and two threads for two handlers of one
client. Listeners share only `_listeners`, under its mutex; two starts of a read
need two receives, and a queue of one message is a send that finds the queue empty
and one that fails (with two messages the properties hold as well). In the programs
the number of threads is the programs' own; two clients of the server are a walk
of the heartbeat in which one is there and one has gone.

*Fairness.* Threads run: a thread inside a call or a handler takes its next step
(weak fairness), asio transmits while the socket is usable and completes
connects, and reads that can only fail. asio's queue is first in, first out, so a handler
that is ready is not overtaken for ever although other handlers keep coming:
strong fairness for one connection's read handlers (`TcpServer`), one client's
(`ClientConnections`), one completed wait (`PeriodicTimers`), a listener's, and the
heartbeat's and the read errors' in the programs. Application callbacks are
assumed to return or throw, and so is posted work. In `WorkerPool` a call of
`RunWork` or `Stop` that has begun goes on, each thread runs, and nobody has to
call them or to post. In `CircularBuffer` the peer is assumed to send its
stream; in `PeriodicTimers` and `UnixDomainServer` time passes. In
`UnixDomainClient` the main thread sleeps five seconds between two sends, so that
the `io_service` gets the listener's mutex, and neither `Stop` nor the manager's
callbacks are overtaken for ever at the client's mutex. Nobody is assumed to call
`AsyncWrite`, `Close` or `StopListening`, to signal, and nothing to fail.
The other mutexes need no fairness beyond this: a run has finitely many lockers.

*What the liveness properties leave out.* Each names the case in which the code
does not deliver, in a disjunct: `failed` or `thrown` in `StreamIsRead`, a
callback that threw (`"stuck"`, `readLost`) in `LossIsReported` and
`LostClientsAreClosed`, a handler that threw or a search of the timers' map that
overlapped (`overlapped`) in `KeepsTicking`, accesses of the clients' map that did
(`raced`) in `RefusedAreForgotten`, a process that has ended (`crashed`) in the
properties of clients and listeners, a socket that a send opened again in
`ClosedReadersAreRemoved`, and in `SignalStopsProgram` a
signal on a thread that is joined, or that holds or waits for a mutex that the
joined thread may be waiting for.

## 4. Where the code and its comments disagree

Each has a run that shows it:

* `server_dangling`: `ErrorHandler` erases all closed connections, also one whose
  aborted read has still to run on its raw `this` (`TcpServer.cpp:269`), although
  `TcpPeerConnection.cpp:158` counts on that read's callback.
* `client_dropped`: the handle's destructor is "for closing the socket and
  removing the underlying peer connection" (`StreamConnection.cpp:26`); it closes
  the socket, but the connection's own read callback and the map keep the
  connection for the life of the process (`IoServices.cpp:121`).
* `datagram_overlap`: `BeginReadSome` tests and sets `_shouldRead` in two steps
  (`IoCircularBuffer.h:98`). An unbound listener is connected while the application
  launches its read; `LaunchRead` and the connect handler both find that nothing is
  being read, and two receives go into one slot of the buffer, although "only one
  chained readsome [is] allowed in progress" (`IoCircularBuffer.cpp:72`).

Met while modelling, visible in the models as they stand, and without a run:

* After an incomplete write the message stays in the queue with nothing
  outstanding. A later `AsyncWrite` returns a backlog on the strength of "a
  chained launch is guaranteed" (`TcpPeerConnection.cpp:58`), and nothing will
  launch it. `FailureClosesSocket` holds, so the read side ends the connection.
* `AsyncWrite("", true)` writes nothing, not even the terminator
  (`IoBufferWrapper.cpp:48`).
* "All access is from the context of the IO service so should not need mutexing"
  is said of the map of clients (`IoServicesImpl.cpp:142`, `149`). `AsyncConnect`
  changes it on the application's threads, while `ErrorHandler` searches it and
  erases from it on the `io_service`'s. `raced` is a reachable state of
  `ClientConnections`; `RefusedAreForgotten` and `RefusedLeaveTheMap` promise
  nothing once it is reached.
* The map of timers (`IoServicesImpl.cpp:32`, `351`) and the vector of workers
  (`IoServicesImpl.cpp:369`) are changed and searched by any thread without a lock
  as well: `overlapped` in `PeriodicTimers`, `raced` in `WorkerPool`.
* The promise of `Start` is set while the count of free workers is -1
  (`IoServicesImpl.cpp:70-77`): a `RunWork` that follows `Start` at once finds no
  zero there, adds no worker, and its work waits for the service thread.
* On two threads the read callback of a client, and even the report of its loss,
  may come before its connect callback: the read chain is started first
  (`IoServices.cpp:143-145`). `ConnectionLifecycle` allows it there, by `Overtaking`.
* A signal that interrupts the Unix domain client's task while it holds the
  client's mutex (`ClientUnixConnection.cpp:191-206`), or the main thread at line 69,
  joins the `io_service`'s thread, which may be waiting for that mutex at line 132:
  the program hangs. `SignalStopsProgram` names the places.
* `IoEndPointImpl` initialises its address from a flag that is declared after it
  (`IoEndPoint.cpp:18-26`), so that a datagram with an explicit destination
  (`DgramListener.cpp:110`) may go to the broadcast address.
* Calls of `RunWork` in a row see the same free worker, because the count goes
  down when work starts, and post more work than there are threads
  (`IoServicesImpl.cpp:306`; the comment above it speaks of as many workers as
  needed).
* On two threads the error of a new connection can be handled before it is
  listed; the closed connection then stays in the list (`TcpServer.cpp:121`). On
  one thread it cannot: `LostClientsAreRemoved` in `unix_server`.
* A timer that is cancelled while its handler runs is set again by the handler
  (`IoServicesImpl.cpp:358`); the comment at `IoServices.cpp:370` warns of it.
* `StopListening` on a listener that is not reading closes the socket and leaves
  the entry in `_listeners` (`UdpListener.cpp:209`); `ClosedReadersAreRemoved` is
  about those that are.

## 5. Proofs

TLAPS proves the following for all values of the constants. Every invariant that
a passing run checks is among them, as are the action properties and the two refinements.
"Run" marks a theorem whose property is one of the runs'. The other properties
are stated beside them in the same modules, and TLC has checked them and the
inductive invariants on the instances of section 3.

| Module | Theorem | Statement | Run |
| --- | --- | --- | --- |
| `WriteQueueProofs` | `TypeCorrectness` | `Spec => []TypeOK` | |
| | `OneOutstandingWrite` | `Spec => []AtMostOneWrite` | yes |
| | `PopsWhatWasWritten` | `Spec => []QueueMatchesWrites` | yes |
| | `NoLostWakeup` | `Spec => []NoLostLaunch` | yes |
| | `HealthySocketIsKept` | `Spec => HealthySocketKept` | yes |
| | `Refinement` | `Spec => ImplementsChannel` | yes |
| | `BytesLeaveInOrder` | `Spec => []MessagesInOrder` | |
| `CircularBufferProofs` | `BufferTypes` | `Spec => []TypeOK` | |
| | `OneReadAtATime` | `Spec /\ []StartsDoNotOverlap => []OneReadInProgress` | |
| | `ContextKeepsReadsOut` | `Spec /\ []StartsDoNotOverlap => []ContextExcludesRead` | yes |
| | `ReadsStayInStorage` | `Spec /\ []StartsDoNotOverlap => []ReadFitsSlot` | yes |
| | `StreamIsKept` | `Spec /\ []StartsDoNotOverlap => []BufferHoldsStream` | yes |
| | `ReadingIsCarriedOn` | `Spec => []ReadingGoesOn` | yes |
| `TcpServerProofs` | `AcceptChainGoesOn` | `Spec => []AcceptChain` | yes |
| | `ListedConnectionsAreRead` | `Spec => []OpenPeersAreRead` | yes |
| | `KnownClientsAreListed` | `Spec => []ToldClientsAreListed` | yes |
| | `ReadsDoNotOverlap` | `Spec => []OneReadHandler` | |
| | `NoClientIsToldTwice` | `Spec => []ClientsAreToldOnce` | |
| | `NoReadFollowsTheLast` | `Spec => EndedReadsStayEnded` | |
| `WorkerPoolProofs` | `PoolTypes` | `Spec => []TypeOK` | |
| | `FreeCountNeverDrifts` | `Spec => []FreeCountExact` | yes |
| | `StopIsQuiet` | `Spec => []StoppedIsQuiet` | yes |
| | `NoTaskIsLost` | `Spec => []WorkRunsOnce` | |
| | `ServiceThreadLives` | `Spec => []ServiceThreadStays` | |
| `PeriodicTimersProofs` | `OneChain` | `Spec => []OneChainPerCall` | yes |
| | `ChainsEndForGood` | `Spec => EndedChainsStayEnded` | yes |
| | `SetTimersTick` | `Spec => []SetTimersHaveAChain` | yes |
| `ClientConnectionsProofs` | `UnheldClientsAreClosed` | `Spec => []UnheldAreClosed` | yes |
| | `ClientsLiveAsPromised` | `Spec => ImplementsLifecycle` | yes |
| | `ClosedClientsAreNoticed` | `Spec => []ClosingIsNoticed` | yes |
| | `EveryConnectIsAnswered` | `Spec => []ConnectsAreAnswered` | |
| | `RefusedClientsLeave` | `Spec => []RefusedLeaveTheMap` | |
| `DatagramListenerProofs` | `ConnectStartsReceiving` | `Spec => []ConnectedListenersReceive` | yes |
| | `ClosedReadersFindOut` | `Spec => []ReadersFindOut` | |
| `UnixDomainProofs` | `FailedStartIsQuiet` | `Spec => []CallbacksFindImpl` | yes |
| | `ClientsAreToldFirst` | `Spec => []ToldBeforeData` | yes |
| | `ServerKeepsGoing` | `Spec => []ServerGoesOn` | |
| | `StayingClientsKeepTheirConnection` | `Spec => []StayingClientsAreServed` | |
| | `ListedClientsGoOnBeingRead` | `Spec => []ListedClientsAreRead` | |
| | `CallbacksFindTheManager` | `ProgramSpec => []CallbacksFindManager` | yes |
| | `PromisesDoNotThrow` | `ProgramSpec => []PromisesAreKeptOnce` | |
| | `TheTaskIsWoken` | `ProgramSpec => []NoWakeUpIsLost` | yes |
| | `NoCallbackBeginsAfterANormalEnd` | `ProgramSpec => []NormalEndIsTheLast` | yes |

Assumptions are the named `ASSUME`s of the modules (bounds are natural numbers,
the kinds of threads are disjoint, payloads are buffers). Four theorems about
`CircularBuffer` have a hypothesis on the behaviour, `[]StartsDoNotOverlap`: no two
calls of `BeginReadSome` are ever between its test and its set. It says nothing of
how many threads start reads, and it is not so of every program: section 4 has the
two calls of `UdpListener` that overlap. The theorems say that this overlap is
the only way to two reads. `BufferTypes` and `ReadingIsCarriedOn` do without it, and
so do all theorems about `DatagramListener`. Every module proves that an
invariant `IInv` (`Inv` in `WriteQueueProofs`) is inductive, action by action, and
derives the rest from it. None of the properties is inductive alone:

* **WriteQueue.** `AtMostOneWrite` needs to know that a thread about to launch
  finds no write outstanding, which needs the mutex (`MutexInv`), that handlers
  and writes exclude each other (`OneWriter`) and that a queue of length one seen
  by a caller means nothing is in flight (`QueueMatchesWrites`). The typing of
  `launches` needs `LaunchCount`: launches never exceed the messages popped by
  more than one. The refinement needs the wire: everything popped is on it in
  full (`PoppedWritten`), of the message in flight exactly the bytes asio counted
  (`InFlightWritten`), and nothing of later messages (`WireBytes`). Then the byte
  `TransmitByte` appends is the least one not yet sent, which is what
  `MessageChannel!Transmit` asks for. `MessagesInOrder` is then an invariant of
  the abstract stream, `MessageChannel!FirstInFirstOut`: the byte that is taken
  follows those on the wire and precedes those that are left.
* **CircularBuffer.** That there is one read at a time needs `StartsAlone`: while
  the flag is clear there is no link of a chain, and a thread that has tested the
  flag still finds it clear. That is where starts must not overlap. `Contents`
  adds to the property what a completed read has put behind the size, which is
  what `Resize` then takes in; `ReadFitsSlot` says that taking it in never
  reallocates. `ReadingGoesOn` is the converse of `StartsAlone`, a flag that is
  set has a link, and is inductive with the types alone.
* **TcpServer.** Counting is replaced by `Chain`: there is one accept, or one
  thread to post it, or the chain is broken. `Arrived` orders what happens to a
  connection, and `AreRead` extends `OpenPeersAreRead` to connections that are
  about to be listed. That no two threads handle reads of one connection is a
  second invariant, `WayInv`: a connection has one way to the application
  (`Ways`: an accept, a handshake or a thread, and not yet told), and is read only
  once it has come to the end of it (`Begun`); so the read that `OnAccept` starts
  is its first, and each later one is started by the handler of the one before.
* **WorkerPool.** `IInv` adds that a task was posted before it is queued or run
  (`TasksPosted`) and the stages of the life cycle (`Stages`). The bounds on the
  count in `TypeOK` are not inductive: they follow from `FreeCountExact` and the
  sizes of the three sets it counts (`CountedSets`). A step changes one of the
  sets by one element, or, in `CreateThread`, two that cancel out; neither the
  notification's promise nor a race for the vector of workers changes any. That no task is
  lost rests on the queue being an interval of the numbers of the tasks: taking
  its head moves the boundary between taken and queued by one.
* **PeriodicTimers.** A chain is in one place, and only chains that a call has
  started are anywhere (`Started`); so no step makes one that has ended. A set
  timer keeps a chain because whoever aborts a wait, except a cancel, has a chain
  in hand, and because a timer that has raced may lose waits only to such a one
  (`ChainIsLeft`). That the handler finds its timer again, to chain the next wait,
  needs that a chain's timer is in the map (`Known`).
* **ClientConnections.** The invariant is a conjunction over the clients
  (`Good`), and a step is about one client and leaves the others alone (`Frame`).
  Of a client: what it has been told agrees with where its connect is, its read
  chain has at most one link, and it is closed when unheld. The same case
  distinction gives the refinement: the answer and the reading of one client move as
  the abstract ones may (`Lives`), the others' stay; and with one thread nothing is
  read from a client that is still being answered (`NothingOvertakes`). It gives the second invariant too,
  `Followed`, with what the three theorems say of one client and that a client
  has an open socket and no handle until it is connected (`Fresh`). That the map
  may lose entries (`raced`) does not disturb it: entries are only lost.
* **DatagramListener.** However many starts overlap, a read chain that is there is
  announced by `_shouldRead` or has failed, and a flag that is set has a chain
  unless a callback threw (`ReadChain`); so a connect that is about to be reported
  has started one, or found one (`Told`). That no read waits on a closed socket
  (`NoneWaits`) holds because every way to close it aborts the receives, and a
  receive that is begun on a closed one has failed.
* **UnixDomainServer.** `Prologue` says what each step of `main` admits, `Told`
  that a read exists only for a client `Impl` has, or is just being given. A
  client that stays is served (`Serving`) because the one thread's error handler
  removes only connections that are closed, and nothing closes that of a client
  that is up: no write to it is cut short (`Served`), and it has none before it is
  accepted (`Early`).
* **UnixDomainClient.** `Shutdown` orders the signal handler's steps against those
  of `main` and of the `io_service`'s thread: main leaves its loop when the handler
  is done, which by then has joined that thread. `ClientKnows` relates the task's
  two promises to the connection; a callback fulfils one only when it finds it
  unset, and one whose error promise is set is past its beginning. `Wakes` says who
  holds the client's mutex: a task about to wait has seen both flags unset under it,
  so whoever sets one has its notification still before it.

Only model-checked, being liveness under fairness, which is out of the prover's
reach: `MessagesDelivered`, `FailureClosesSocket`, `StreamIsRead`,
`LostClientsAreClosed`, `PostedWorkRuns`, `StopReturns`, `KeepsTicking`,
`LossIsReported`, `RefusedAreForgotten`, `ClosedReadersAreRemoved`,
`SignalStopsProgram`, `ErrorsEndTheClient`, `LostClientsAreRemoved` and
`HeartbeatsReachClients`. For several of them the proofs give the safety half,
that there is always somebody left to do it: `NoLostLaunch`, `ReadingGoesOn`,
`OpenPeersAreRead`, `ServiceThreadStays`, `SetTimersHaveAChain`,
`ClosingIsNoticed`, `RefusedLeaveTheMap`, `ReadersFindOut`,
`ListedClientsAreRead`; that he gets round to it is fairness. No module defines an
operator by recursion, so nothing is left unproved for that reason.

## 6. Not modelled

* Logging and formatting; option parsing; the contents of certificates, and TLS
  beyond a handshake that succeeds, fails or cannot be prepared. `EgSslServer` is
  not built by any target.
* The example programs other than the Unix domain client and server, build and
  cross-compilation files.
* `TcpDomainConnection` has the code of `TcpPeerConnection` line by line, and
  `UnixServer` that of the plain `TcpServer`; they are not modelled twice.
* Moving a `TcpServer` inside its vector is ruled out by the documented order of
  calls. A service is started once: `Start` after `Stop` throws.
* Calls that lock a mutex twice on one thread (a broadcast from the accept
  callback) are undefined, and the models do not make them.
* Joining a multicast group, the hardware watchdog device, and the removal of the
  server's socket file: pure I/O.
* The network's loss, duplication and reordering of datagrams: the code does
  nothing about them, and no property of it depends on them.
* One-shot timers: the code can initialise them, and nothing sets them.

## 7. What could follow

* `UnixConnectionManager` with several clients, which the program never gives it.
* The moving of servers with `AddTcpServer` after `StartTcpServer`, if the order
  of calls is to be enforced rather than documented.
* An abstract specification of a server's connections. That of a client,
  `ConnectionLifecycle`, does not fit: a server's connection can be destroyed with
  its read outstanding, and its application is then never told.
