-------------------------- MODULE UnixDomainProofs --------------------------
(***************************************************************************)
(* Proofs about the two example programs: UnixDomainServer, for any set of *)
(* clients, and then UnixDomainClient.                                     *)
(***************************************************************************)
EXTENDS UnixDomainServer, UnixDomainClient, TLAPS

Types ==
    /\ main \in {"start_services", "start_server", "set_timer",
                 "make_listener", "loop", "destroy_services", "exited"}
    /\ io \in [at : {"idle", "acceptor", "client_reader", "heartbeat"},
               conns : SUBSET Clients]
    /\ timer \in {"unset", "waiting", "due"}
    /\ accepting \in BOOLEAN
    /\ read \in [Clients -> {"none", "pending", "data", "error"}]
    /\ _connections \subseteq Clients

(* What may have begun by each step of main: nothing calls back before the *)
(* server is started, and nothing has been started when starting it fails. *)
Quiet == /\ ~accepting
         /\ timer = "unset"
         /\ io = Idle
         /\ \A c \in Clients : read[c] = "none"

Prologue ==
    /\ main \in {"start_services", "start_server"} => Quiet
    /\ main = "destroy_services" =>
           /\ threw \in {"start_server", "make_listener", "loop"}
           /\ threw = "start_server" => Quiet
    /\ main = "exited" => service = "gone" /\ io = Idle

(* A connection is read only when Impl has been told of it, or is being    *)
(* told.                                                                   *)
Told ==
    /\ \A c \in Clients : read[c] # "none" /\ main # "exited" =>
           c \in _connections \/ io = [at |-> "acceptor", conns |-> {c}]
    /\ io.at = "client_reader" => io.conns \subseteq _connections

IInv == Types /\ Prologue /\ Told
-----------------------------------------------------------------------------
LEMMA InitIInv == Init => IInv
<1> SUFFICES ASSUME Init PROVE IInv
  OBVIOUS
<1> USE DEF Init, Idle
<1>1. Types
  BY DEF Types
<1>2. Prologue
  BY DEF Prologue, Quiet
<1>3. Told
  BY DEF Told
<1> QED
  BY <1>1, <1>2, <1>3 DEF IInv

(* Steps of the main thread, and of a signal.                              *)
LEMMA MainStep ==
    ASSUME IInv, Main \/ term
    PROVE  IInv'
<1> USE DEF IInv, Types, Prologue, Quiet, Told, Idle, Goes, connectionVars
<1>1. CASE StartServices
  BY <1>1 DEF StartServices
<1>2. CASE StartServer
  BY <1>2 DEF StartServer, StartUnixServer
<1>3. CASE SetTimer
  BY <1>3 DEF SetTimer
<1>4. CASE MakeListener
  BY <1>4 DEF MakeListener
<1>5. CASE Throws
  BY <1>5 DEF Throws
<1>6. CASE StopServices
  BY <1>6 DEF StopServices
<1>7. CASE Exit
  BY <1>7 DEF Exit, CloseAllUnixConnections
<1>8. CASE term
  BY <1>8 DEF term
<1> QED
  BY <1>1, <1>2, <1>3, <1>4, <1>5, <1>6, <1>7, <1>8 DEF Main

(* Steps of the clients, of time and of asio.                              *)
LEMMA EnvironmentStep ==
    ASSUME IInv, Expires \/ \E c \in Clients : Network(c)
    PROVE  IInv'
<1> USE DEF IInv, Types, Prologue, Quiet, Told, Idle, connectionVars
<1>1. CASE Expires
  BY <1>1 DEF Expires
<1>2. ASSUME NEW c \in Clients, Arrives(c)
      PROVE  IInv'
  BY <1>2 DEF Arrives
<1>3. ASSUME NEW c \in Clients, Leaves(c)
      PROVE  IInv'
  BY <1>3 DEF Leaves
<1>4. ASSUME NEW c \in Clients, ReadEnds(c)
      PROVE  IInv'
  BY <1>4 DEF ReadEnds
<1>5. ASSUME NEW c \in Clients, WriteEnds(c)
      PROVE  IInv'
  BY <1>5 DEF WriteEnds
<1> QED
  BY <1>1, <1>2, <1>3, <1>4, <1>5 DEF Network

(* Handlers that begin on the io_service's thread.                         *)
LEMMA HandlerStep ==
    ASSUME IInv,
           \/ HeartbeatDue \/ DatagramError
           \/ \E c \in Clients : AcceptHandler(c) \/ ReadHandler(c) \/ WriteHandler(c)
    PROVE  IInv'
<1> USE DEF IInv, Types, Prologue, Quiet, Told, Idle, Polls, connectionVars
<1>1. CASE HeartbeatDue
  BY <1>1 DEF HeartbeatDue
<1>2. CASE DatagramError
  BY <1>2 DEF DatagramError
<1>3. ASSUME NEW c \in Clients, AcceptHandler(c)
      PROVE  IInv'
  <2> USE <1>3 DEF AcceptHandler
  <2>1. Types' /\ Prologue'
    OBVIOUS
  <2>2. main # "exited" /\ \A d \in Clients : read[d] # "none" => d \in _connections
    OBVIOUS
  <2>3. \A d \in Clients : read'[d] # "none" => d \in _connections' \/ d = c
    BY <2>2
  <2>4. io' = [at |-> "acceptor", conns |-> {c}] /\ io'.at = "acceptor"
    OBVIOUS
  <2>5. Told'
    BY <2>3, <2>4
  <2> QED
    BY <2>1, <2>5
<1>4. ASSUME NEW c \in Clients, ClientReader(c)
      PROVE  IInv'
  <2> USE <1>4 DEF ClientReader
  <2>1. Types' /\ Prologue'
    OBVIOUS
  <2>2. c \in _connections
    OBVIOUS
  <2>3. Told'
    BY <2>2
  <2> QED
    BY <2>1, <2>3
<1>5. ASSUME NEW c \in Clients, ErrorHandler(c)
      PROVE  IInv'
  BY <1>5 DEF ErrorHandler, Close
<1>6. ASSUME NEW c \in Clients, DanglingRead(c)
      PROVE  IInv'
  BY <1>6, MainStep DEF DanglingRead
<1>7. ASSUME NEW c \in Clients, WriteHandler(c)
      PROVE  IInv'
  BY <1>7 DEF WriteHandler, WriteComplete, WriteIncomplete, Close
<1> QED
  BY <1>1, <1>2, <1>3, <1>4, <1>5, <1>6, <1>7 DEF ReadHandler

(* Handlers that go on or end.                                             *)
LEMMA GoesOnStep ==
    ASSUME IInv, GoesOn
    PROVE  IInv'
<1> USE DEF IInv, Types, Prologue, Quiet, Told, Idle, connectionVars
<1>1. CASE Acceptor
  BY <1>1 DEF Acceptor
<1>2. CASE ChainRead
  BY <1>2 DEF ChainRead
<1>3. CASE HeartbeatsDone
  BY <1>3 DEF HeartbeatsDone
<1>4. ASSUME NEW c \in Clients, Heartbeat(c)
      PROVE  IInv'
  BY <1>4 DEF Heartbeat, LaunchWrite
<1> QED
  BY <1>1, <1>2, <1>3, <1>4 DEF GoesOn

(* The types, the order of main's steps and Impl's being told hold         *)
(* together in every state.                                                *)
THEOREM ServerInvariance == Spec => []IInv
<1>1. Init => IInv
  BY InitIInv
<1>2. IInv /\ [Next]_vars => IInv'
  <2> SUFFICES ASSUME IInv, [Next]_vars PROVE IInv'
    OBVIOUS
  <2>1. CASE UNCHANGED vars
    BY <2>1 DEF vars, connectionVars, IInv, Types, Prologue, Quiet, Told
  <2> QED
    BY <2>1, MainStep, EnvironmentStep, HandlerStep, GoesOnStep DEF Next
<1> QED
  BY <1>1, <1>2, PTL DEF Spec

(* No callback of the server or of the timer runs when main has destroyed  *)
(* Impl because the server could not be started (main.cpp:151-195).        *)
THEOREM FailedStartIsQuiet == Spec => []CallbacksFindImpl
<1>1. IInv => CallbacksFindImpl
  BY DEF IInv, Prologue, Quiet, Idle, CallbacksFindImpl
<1> QED
  BY <1>1, ServerInvariance, PTL

(* On one thread, nothing is read from a client before the application's   *)
(* acceptor has had it (UnixServer.cpp:107-114).                           *)
THEOREM ClientsAreToldFirst == Spec => []ToldBeforeData
<1>1. IInv => ToldBeforeData
  BY DEF IInv, Told, ToldBeforeData
<1> QED
  BY <1>1, ServerInvariance, PTL
-----------------------------------------------------------------------------
(* The server goes on: only main's own steps leave the states in which it  *)
(* is started, and a handler puts back what it has taken.                  *)
LEMMA GoesOnKept ==
    ASSUME IInv, ServerGoesOn, [Next]_vars
    PROVE  ServerGoesOn'
<1> USE DEF ServerGoesOn, Goes, Polls, Idle
<1>1. CASE Main \/ term
  BY <1>1 DEF Main, StartServices, StartServer, StartUnixServer, SetTimer,
              MakeListener, Throws, StopServices, Exit, term
<1>2. CASE Expires \/ HeartbeatDue \/ DatagramError
  BY <1>2 DEF Expires, HeartbeatDue, DatagramError
<1>3. CASE GoesOn
  <2>1. CASE Acceptor
    BY <2>1 DEF Acceptor
  <2>2. CASE ChainRead
    BY <2>2 DEF ChainRead
  <2>3. CASE HeartbeatsDone
    BY <2>3 DEF HeartbeatsDone
  <2>4. ASSUME NEW c \in Clients, Heartbeat(c)
        PROVE  ServerGoesOn'
    BY <2>4 DEF Heartbeat, IInv, Types
  <2> QED
    BY <1>3, <2>1, <2>2, <2>3, <2>4 DEF GoesOn
<1>4. ASSUME NEW c \in Clients, Network(c)
      PROVE  ServerGoesOn'
  BY <1>4 DEF Network, Arrives, Leaves, ReadEnds, WriteEnds
<1>5. ASSUME NEW c \in Clients, AcceptHandler(c)
      PROVE  ServerGoesOn'
  BY <1>5 DEF AcceptHandler
<1>6. ASSUME NEW c \in Clients, ReadHandler(c)
      PROVE  ServerGoesOn'
  BY <1>6 DEF ReadHandler, ClientReader, ErrorHandler, DanglingRead, term
<1>7. ASSUME NEW c \in Clients, WriteHandler(c)
      PROVE  ServerGoesOn'
  BY <1>7 DEF WriteHandler, WriteComplete, WriteIncomplete
<1>8. CASE UNCHANGED vars
  BY <1>8 DEF vars
<1> QED
  BY <1>1, <1>2, <1>3, <1>4, <1>5, <1>6, <1>7, <1>8 DEF Next

(* A started server is accepting, or its acceptor will accept the next     *)
(* client, and the heartbeat's chain is not broken: no order of clients,   *)
(* errors and throwing writes ends either (UnixServer.cpp:97-143,          *)
(* main.cpp:71-93).                                                        *)
THEOREM ServerKeepsGoing == Spec => []ServerGoesOn
<1>1. Init => ServerGoesOn
  BY DEF Init, ServerGoesOn
<1>2. IInv /\ ServerGoesOn /\ [Next]_vars => ServerGoesOn'
  BY GoesOnKept
<1> QED
  BY <1>1, <1>2, ServerInvariance, PTL DEF Spec
-----------------------------------------------------------------------------
(* Clients that stay.                                                      *)

ConnectionTypes ==
    /\ client \in [Clients -> {"away", "connecting", "up", "gone"}]
    /\ DomainSocket \in [Clients -> {"closed", "open"}]
    /\ write \in [Clients -> {"none", "pending", "done", "short", "broken"}]
    /\ _domainConnections \subseteq Clients

(* Nothing is done for a client before it is accepted.                     *)
Early ==
    /\ main = "start_services" => service = "none"
    /\ \A c \in Clients : client[c] \in {"away", "connecting"} =>
           write[c] = "none" /\ c \notin _connections /\ c \notin io.conns

BeingRead(c) == io.at = "client_reader" /\ c \in io.conns

Served(c) == /\ c \in _domainConnections
             /\ DomainSocket[c] = "open"
             /\ read[c] \in {"pending", "data"} \/ BeingRead(c)
             /\ write[c] # "short"

(* What holds until main stops the services, or a signal the process.      *)
Serving ==
    service \in {"none", "running"} =>
        \A c \in Clients :
            /\ client[c] = "up" => Served(c)
            /\ c \in _domainConnections => read[c] # "none" \/ BeingRead(c)

ServedInv == ConnectionTypes /\ Early /\ Serving

LEMMA ServedByMain ==
    ASSUME IInv, ServedInv, Main \/ term
    PROVE  ServedInv'
<1> USE DEF ServedInv, ConnectionTypes, Early, Serving, Served, BeingRead,
            connectionVars, Goes
<1>1. CASE StartServices
  BY <1>1 DEF StartServices
<1>2. CASE StartServer \/ SetTimer \/ MakeListener \/ Throws
  BY <1>2 DEF StartServer, StartUnixServer, SetTimer, MakeListener, Throws
<1>3. CASE StopServices
  BY <1>3 DEF StopServices
<1>4. CASE Exit
  BY <1>4 DEF Exit, CloseAllUnixConnections
<1>5. CASE term
  BY <1>5 DEF term, Idle
<1> QED
  BY <1>1, <1>2, <1>3, <1>4, <1>5 DEF Main

LEMMA ServedByEnvironment ==
    ASSUME IInv, ServedInv, Expires \/ \E c \in Clients : Network(c)
    PROVE  ServedInv'
<1> USE DEF ServedInv, ConnectionTypes, Early, Serving, Served, BeingRead,
            connectionVars
<1>1. CASE Expires
  BY <1>1 DEF Expires
<1>2. ASSUME NEW c \in Clients, Arrives(c)
      PROVE  ServedInv'
  BY <1>2 DEF Arrives
<1>3. ASSUME NEW c \in Clients, Leaves(c)
      PROVE  ServedInv'
  BY <1>3 DEF Leaves
<1>4. ASSUME NEW c \in Clients, ReadEnds(c)
      PROVE  ServedInv'
  BY <1>4 DEF ReadEnds, Connected, IInv, Types
<1>5. ASSUME NEW c \in Clients, WriteEnds(c)
      PROVE  ServedInv'
  BY <1>5 DEF WriteEnds, Connected
<1> QED
  BY <1>1, <1>2, <1>3, <1>4, <1>5 DEF Network

LEMMA ServedByHandlers ==
    ASSUME IInv, ServedInv,
           \/ HeartbeatDue \/ DatagramError
           \/ \E c \in Clients : AcceptHandler(c) \/ ReadHandler(c) \/ WriteHandler(c)
    PROVE  ServedInv'
<1> USE DEF ServedInv, ConnectionTypes, Early, Serving, Served, BeingRead,
            connectionVars, Polls, Idle
<1>1. CASE HeartbeatDue
  BY <1>1 DEF HeartbeatDue
<1>2. CASE DatagramError
  BY <1>2 DEF DatagramError
<1>3. ASSUME NEW c \in Clients, AcceptHandler(c)
      PROVE  ServedInv'
  <2> USE <1>3 DEF AcceptHandler
  <2>1. ConnectionTypes' /\ Early'
    OBVIOUS
  <2>2. Served(c)'
    BY DEF IInv, Types
  <2>3. service' = "running" /\ io.at = "idle"
    OBVIOUS
  <2>4. \A d \in Clients \ {c} : client'[d] = "up" => Served(d)'
    BY <2>3
  <2>5. \A d \in _domainConnections' \ {c} : read'[d] # "none"
    BY <2>3 DEF IInv, Types
  <2>6. \A d \in Clients : /\ client'[d] = "up" => Served(d)'
                           /\ d \in _domainConnections' =>
                                  read'[d] # "none" \/ BeingRead(d)'
    BY <2>2, <2>4, <2>5
  <2> QED
    BY <2>1, <2>6
<1>4. ASSUME NEW c \in Clients, ClientReader(c)
      PROVE  ServedInv'
  <2> USE <1>4 DEF ClientReader
  <2>1. c \in _connections
    BY DEF IInv, Prologue, Told
  <2>2. ConnectionTypes' /\ Early'
    BY <2>1
  <2>3. /\ io.at = "idle" /\ BeingRead(c)'
        /\ \A d \in Clients \ {c} : read'[d] = read[d]
        /\ UNCHANGED <<service, client, DomainSocket, write, _domainConnections>>
    BY DEF IInv, Types
  <2>4. Serving'
    BY <2>3
  <2> QED
    BY <2>2, <2>4
<1>5. ASSUME NEW c \in Clients, ErrorHandler(c)
      PROVE  ServedInv'
  <2> USE <1>5 DEF ErrorHandler, Close
  <2>1. ConnectionTypes' /\ Early'
    OBVIOUS
  <2>2. UNCHANGED <<service, io, client, write>>
    OBVIOUS
  <2>3. io.at = "idle"
    OBVIOUS
  <2>4. service \in {"none", "running"} =>
            \A d \in Clients : client[d] = "up" => d # c /\ Served(d)'
    BY <2>3
  <2>5. service \in {"none", "running"} =>
            \A d \in _domainConnections' : d # c /\ read'[d] # "none"
    BY <2>3 DEF IInv, Types
  <2> QED
    BY <2>1, <2>2, <2>4, <2>5
<1>6. ASSUME NEW c \in Clients, DanglingRead(c)
      PROVE  ServedInv'
  BY <1>6, ServedByMain DEF DanglingRead
<1>7. ASSUME NEW c \in Clients, WriteHandler(c)
      PROVE  ServedInv'
  BY <1>7 DEF WriteHandler, WriteComplete, WriteIncomplete, Close
<1> QED
  BY <1>1, <1>2, <1>3, <1>4, <1>5, <1>6, <1>7 DEF ReadHandler

LEMMA ServedByGoesOn ==
    ASSUME IInv, ServedInv, GoesOn
    PROVE  ServedInv'
<1> USE DEF ServedInv, ConnectionTypes, Early, Serving, Served, BeingRead,
            connectionVars, Idle
<1>1. CASE Acceptor
  BY <1>1 DEF Acceptor
<1>2. CASE ChainRead
  BY <1>2 DEF ChainRead, IInv, Types
<1>3. CASE HeartbeatsDone
  BY <1>3 DEF HeartbeatsDone
<1>4. ASSUME NEW c \in Clients, Heartbeat(c)
      PROVE  ServedInv'
  BY <1>4 DEF Heartbeat, LaunchWrite, IInv, Types
<1> QED
  BY <1>1, <1>2, <1>3, <1>4 DEF GoesOn

LEMMA ServedInvariance == Spec => []ServedInv
<1>1. Init => ServedInv
  BY DEF Init, ServedInv, ConnectionTypes, Early, Serving, Served, Idle
<1>2. IInv /\ ServedInv /\ [Next]_vars => ServedInv'
  <2> SUFFICES ASSUME IInv, ServedInv, [Next]_vars PROVE ServedInv'
    OBVIOUS
  <2>1. CASE UNCHANGED vars
    BY <2>1 DEF vars, connectionVars, ServedInv, ConnectionTypes, Early,
                Serving, Served, BeingRead
  <2> QED
    BY <2>1, ServedByMain, ServedByEnvironment, ServedByHandlers,
       ServedByGoesOn DEF Next
<1> QED
  BY <1>1, <1>2, ServerInvariance, PTL DEF Spec

(* While the services run, no other client's end, error or failed          *)
(* heartbeat costs a client that stays its connection: it is listed, open  *)
(* and read from (UnixServer.cpp:160-178).                                 *)
THEOREM StayingClientsKeepTheirConnection == Spec => []StayingClientsAreServed
<1>1. ServedInv => StayingClientsAreServed
  BY DEF ServedInv, Serving, Served, BeingRead, StayingClientsAreServed
<1> QED
  BY <1>1, ServedInvariance, PTL

(* A connection in the server's list always has a read, or the handler of  *)
(* one, that will find out when its client goes (UnixServer.cpp:97-178).   *)
THEOREM ListedClientsGoOnBeingRead == Spec => []ListedClientsAreRead
<1>1. ServedInv => ListedClientsAreRead
  BY DEF ServedInv, ConnectionTypes, Serving, BeingRead, ListedClientsAreRead
<1> QED
  BY <1>1, ServedInvariance, PTL
-----------------------------------------------------------------------------
(* The client program.                                                     *)

(* The task, its promises and the connection, which only the library and   *)
(* the manager's callbacks tell it of.                                     *)
ClientKnows ==
    /\ task \in {"none", "connect"} => conn = "none"
    /\ ioAt = "connect_callback" => conn \in {"open", "lost"} /\ ~mConnPromise
    /\ mConnPromise => conn \in {"open", "lost", "reported"}
    /\ ioAt = "error_callback" => conn = "reported" /\ ~mErrPromise
    /\ mErrPromise =>
           /\ _clientConn
           /\ conn = "reported"
           /\ ioAt \notin {"connect_callback", "error_callback"}
    /\ _clientConn => mConnPromise
    /\ ioAt \in {"set_error", "notify"} => mErrPromise
    /\ task = "normally" => mErrPromise

(* Who holds the client's mutex, and so may look at or set its flags: the  *)
(* task that waits for them has seen them unset, or is being notified.     *)
Wakes ==
    /\ _mutex = "task" <=> task \in {"test", "sleep", "await_error"}
    /\ _mutex = "main" <=> mainAt = "stopping"
    /\ ~_shouldRun /\ task = "wait" => mainAt \in {"stopping", "notifying"}
    /\ task = "sleep" => _shouldRun /\ ~_ioError
    /\ _ioError /\ task = "wait" => ioAt = "notify"
    /\ task = "none" <=> mainAt \in {"start", "arm", "start_manager", "add"}

(* The handler runs once, on one thread, and has the io_service's thread   *)
(* behind it when it waits for the watchdog; main leaves its loop when the *)
(* handler has gone, or by an exception, and not while it runs on main.    *)
Shutdown ==
    /\ handler = "none" <=> on = "none"
    /\ handler \in {"await_watchdog", "done"} => ioAt = "left"
    /\ armed => handler = "none"
    /\ mainAt \in {"start", "arm"} => ~armed /\ handler = "none"
    /\ mainAt \notin {"start", "arm"} => armed \/ handler # "none"
    /\ mainAt \in {"leave", "stopping", "notifying", "destroy_manager",
                   "destroy_services", "exited"}
          /\ ~thrown
       => ~armed /\ (on = "main" => handler = "done")

ClientIInv == TypeOK /\ ClientKnows /\ Wakes /\ Shutdown

LEMMA ClientSignalStep ==
    ASSUME ClientIInv, Signal \/ SigHandler \/ WatchdogLeaves
    PROVE  ClientIInv'
<1> USE DEF ClientIInv, TypeOK, ClientTypeOK, ClientKnows, Wakes, Shutdown, Ended,
            clientVars
<1>1. ASSUME NEW x \in {"main", "io", "task", "watchdog"}, sig_handler(x)
      PROVE  ClientIInv'
  <2>1. TypeOK'
    <3>1. ClientTypeOK'
      BY <1>1 DEF sig_handler
    <3>2. armed' \in BOOLEAN /\ thrown' \in BOOLEAN
      BY <1>1 DEF sig_handler
    <3> QED
      BY <3>1, <3>2, <1>1 DEF sig_handler
  <2>2. ClientKnows'
    BY <1>1 DEF sig_handler
  <2>3. Shutdown' /\ Wakes'
    BY <1>1 DEF sig_handler
  <2> QED
    BY <2>1, <2>2, <2>3
<1>2. CASE StopIoService
  BY <1>2 DEF StopIoService
<1>3. CASE JoinServices
  BY <1>3 DEF JoinServices
<1>4. CASE JoinWatchdog
  BY <1>4 DEF JoinWatchdog
<1>5. CASE WatchdogLeaves
  BY <1>5 DEF WatchdogLeaves
<1> QED
  BY <1>1, <1>2, <1>3, <1>4, <1>5 DEF Signal, SigHandler

LEMMA ClientMainStep ==
    ASSUME ClientIInv, MainThread
    PROVE  ClientIInv'
<1> USE DEF ClientIInv, TypeOK, ClientTypeOK, ClientKnows, Wakes, Shutdown, Ended,
            clientVars, MainGoes, Interrupted
<1>1. CASE MakeServices
  <2>1. TypeOK'
    <3>1. ClientTypeOK'
      BY <1>1 DEF MakeServices
    <3>2. armed' \in BOOLEAN /\ thrown' \in BOOLEAN
      BY <1>1 DEF MakeServices
    <3> QED
      BY <3>1, <3>2, <1>1 DEF MakeServices
  <2>2. ClientKnows' /\ Wakes'
    BY <1>1 DEF MakeServices
  <2>3. Shutdown'
    BY <1>1 DEF MakeServices
  <2> QED
    BY <2>1, <2>2, <2>3
<1>2. CASE MakeSigHandler
  <2>1. TypeOK'
    <3>1. ClientTypeOK'
      BY <1>2 DEF MakeSigHandler
    <3>2. armed' \in BOOLEAN /\ thrown' \in BOOLEAN
      BY <1>2 DEF MakeSigHandler
    <3> QED
      BY <3>1, <3>2, <1>2 DEF MakeSigHandler
  <2>2. ClientKnows'
    BY <1>2 DEF MakeSigHandler
  <2>3. Shutdown' /\ Wakes'
    BY <1>2 DEF MakeSigHandler
  <2> QED
    BY <2>1, <2>2, <2>3
<1>3. CASE StartManager \/ ConnectionAdded \/ ConnectSender
  BY <1>3 DEF StartManager, ConnectionAdded, ConnectSender
<1>4. CASE AddConnection
  BY <1>4 DEF AddConnection, TryAddConnection
<1>5. CASE BeginSend \/ EndSend
  BY <1>5 DEF BeginSend, EndSend
<1>6. CASE SendThrows
  BY <1>6 DEF SendThrows
<1>7. CASE LeaveLoop
  BY <1>7 DEF LeaveLoop
<1>8. CASE StopClient
  <2>1. UNCHANGED <<armed, handler, on, services, watchdog, udp, sending, thrown,
                    _clientConn, mConnPromise, mErrPromise, _ioError, conn,
                    ioAt>>
    BY <1>8 DEF StopClient, Stop, StopUnlocks, StopNotifies
  <2>2. CASE MainGoes("leave", "stopping") /\ Stop
    <3>1. _mutex = "none" /\ _mutex' = "main" /\ mainAt' = "stopping"
      BY <2>2 DEF Stop
    <3>2. _shouldRun' = FALSE /\ UNCHANGED task /\ mainAt = "leave"
      BY <2>2 DEF Stop
    <3>3. TypeOK' /\ ClientKnows'
      <4>1. ClientTypeOK'
        <5>1. _shouldRun' \in BOOLEAN /\ _clientConn' \in BOOLEAN
              /\ mConnPromise' \in BOOLEAN /\ mErrPromise' \in BOOLEAN
              /\ _ioError' \in BOOLEAN
          BY <2>1, <3>2
        <5> QED
          BY <2>1, <3>1, <3>2, <5>1
      <4>2. armed' \in BOOLEAN /\ thrown' \in BOOLEAN
        BY <2>1
      <4>3. TypeOK'
        BY <2>1, <3>1, <4>1, <4>2
      <4>4. ClientKnows'
        BY <2>1, <3>2
      <4> QED
        BY <4>3, <4>4
    <3>4. Wakes'
      BY <2>1, <3>1, <3>2
    <3>5. Shutdown'
      BY <2>1, <2>2, <3>1, <3>2
    <3> QED
      BY <3>3, <3>4, <3>5
  <2>3. CASE MainGoes("stopping", "notifying") /\ StopUnlocks
    BY <2>1, <2>3 DEF StopUnlocks
  <2>4. CASE MainGoes("notifying", "destroy_manager") /\ StopNotifies
    BY <2>1, <2>4 DEF StopNotifies, NotifyOne
  <2> QED
    BY <1>8, <2>2, <2>3, <2>4 DEF StopClient
<1>9. CASE DestroyManager \/ DestroyServices
  BY <1>9 DEF DestroyManager, DestroyServices
<1> QED
  BY <1>1, <1>2, <1>3, <1>4, <1>5, <1>6, <1>7, <1>8, <1>9 DEF MainThread

LEMMA ClientTaskStep ==
    ASSUME ClientIInv, Task \/ Outside
    PROVE  ClientIInv'
<1> USE DEF ClientIInv, TypeOK, ClientTypeOK, ClientKnows, Wakes, Shutdown, Ended,
            clientVars, programVars
<1>1. CASE Task
  <2>1. UNCHANGED programVars
    BY <1>1 DEF Task
  <2>2. UNCHANGED <<mConnPromise, mErrPromise, _shouldRun, _ioError, ioAt>>
    BY <1>1 DEF Task, RunOnce, AsyncConnect, ConnectTimesOut, StoreConnection,
                LockMutex, Predicate, Wait, ErrorAwaited
  <2>3. Shutdown'
    BY <2>1, <2>2
  <2>4. CASE AsyncConnect \/ ConnectTimesOut
    BY <2>1, <2>3, <2>4 DEF AsyncConnect, ConnectTimesOut
  <2>5. CASE StoreConnection
    BY <2>1, <2>3, <2>5 DEF StoreConnection
  <2>6. CASE LockMutex \/ Wait
    BY <2>1, <2>3, <2>6 DEF LockMutex, Wait
  <2>7. CASE Predicate
    BY <2>1, <2>3, <2>7 DEF Predicate
  <2>8. CASE ErrorAwaited
    BY <2>1, <2>3, <2>8 DEF ErrorAwaited
  <2> QED
    BY <1>1, <2>4, <2>5, <2>6, <2>7, <2>8 DEF Task, RunOnce
<1>2. CASE Outside
  <2>1. CASE ConnectEnds \/ ServerGoes
    BY <1>2, <2>1 DEF Outside, ConnectEnds, ServerGoes, UdpSent, SpuriousWake
  <2>2. CASE SpuriousWake /\ UNCHANGED programVars
    BY <2>2 DEF SpuriousWake, NotifyOne
  <2>3. CASE UdpSent
    BY <2>3 DEF UdpSent
  <2> QED
    BY <1>2, <2>1, <2>2, <2>3 DEF Outside
<1> QED
  BY <1>1, <1>2

LEMMA ClientIoStep ==
    ASSUME ClientIInv, Io
    PROVE  ClientIInv'
<1> USE DEF ClientIInv, TypeOK, ClientTypeOK, ClientKnows, Wakes, Shutdown, Ended,
            clientVars, programVars, IoPolls, Handles, IoGoes
<1>1. CASE ClientCallback
  <2>1. UNCHANGED programVars
    BY <1>1 DEF ClientCallback
  <2>2. CASE IoPolls /\ ConnectHandler
    BY <2>1, <2>2 DEF ConnectHandler
  <2>3. CASE IoPolls /\ ReadFailed
    BY <2>1, <2>3 DEF ReadFailed
  <2>4. CASE HandleConnectCallback
    BY <2>1, <2>4 DEF HandleConnectCallback
  <2>5. CASE HandleErrorCallback
    BY <2>1, <2>5 DEF HandleErrorCallback
  <2>6. CASE SetError
    BY <2>1, <2>6 DEF SetError
  <2>7. CASE SetErrorNotifies
    BY <2>1, <2>7 DEF SetErrorNotifies, NotifyOne
  <2> QED
    BY <1>1, <2>2, <2>3, <2>4, <2>5, <2>6, <2>7 DEF ClientCallback
<1>2. CASE ManagerHeartbeat \/ HeartbeatDone
  BY <1>2 DEF ManagerHeartbeat, HeartbeatDone
<1>3. CASE UdpConnected \/ UdpError \/ UdpErased
  BY <1>3 DEF UdpConnected, UdpError, UdpErased
<1>4. CASE UdpWriteHandler \/ UdpPop
  BY <1>4 DEF UdpWriteHandler, UdpPop
<1>5. CASE IoLeaves
  BY <1>5 DEF IoLeaves
<1> QED
  BY <1>1, <1>2, <1>3, <1>4, <1>5 DEF Io

(* The types, what the client knows of its connection and the order in     *)
(* which the program is shut down hold together in every state.            *)
THEOREM ClientInvariance == ProgramSpec => []ClientIInv
<1>1. ProgramInit => ClientIInv
  BY DEF ProgramInit, ClientInit, ClientIInv, TypeOK, ClientTypeOK,
         ClientKnows, Wakes, Shutdown
<1>2. ClientIInv /\ [ProgramNext]_allVars => ClientIInv'
  <2> SUFFICES ASSUME ClientIInv, [ProgramNext]_allVars PROVE ClientIInv'
    OBVIOUS
  <2>1. CASE UNCHANGED allVars
    BY <2>1 DEF allVars, clientVars, programVars, ClientIInv, TypeOK,
                ClientTypeOK, ClientKnows, Wakes, Shutdown
  <2> QED
    BY <2>1, ClientSignalStep, ClientMainStep, ClientTaskStep, ClientIoStep
    DEF ProgramNext
<1> QED
  BY <1>1, <1>2, PTL DEF ProgramSpec

(* No callback finds the manager or main's locals destroyed, whatever the  *)
(* order of the signal and the other threads, unless an exception ended    *)
(* the main loop or the signal was another thread's (main.cpp:73-88,       *)
(* 226-281).                                                               *)
THEOREM CallbacksFindTheManager == ProgramSpec => []CallbacksFindManager
<1>1. ClientIInv => CallbacksFindManager
  BY DEF ClientIInv, Shutdown, CallbacksFindManager
<1> QED
  BY <1>1, ClientInvariance, PTL

(* No callback fulfils a promise a second time, and none that of an error  *)
(* before the connection is stored (ClientUnixConnection.cpp:87-137).      *)
THEOREM PromisesDoNotThrow == ProgramSpec => []PromisesAreKeptOnce
<1>1. ClientIInv => PromisesAreKeptOnce
  BY DEF ClientIInv, ClientKnows, PromisesAreKeptOnce
<1> QED
  BY <1>1, ClientInvariance, PTL

(* Neither Stop nor SetError is overtaken by the task between its test of  *)
(* the flags and its wait (ClientUnixConnection.cpp:67-73, 130-136,        *)
(* 187-192).                                                               *)
THEOREM TheTaskIsWoken == ProgramSpec => []NoWakeUpIsLost
<1>1. ClientIInv => NoWakeUpIsLost
  BY DEF ClientIInv, Wakes, NoWakeUpIsLost
<1> QED
  BY <1>1, ClientInvariance, PTL

(* Once a task has ended normally no callback begins for it any more; the  *)
(* error callback that fulfilled its promise may still be before the mutex *)
(* (ClientUnixConnection.cpp:130-136, 181-206).                            *)
THEOREM NoCallbackBeginsAfterANormalEnd == ProgramSpec => []NormalEndIsTheLast
<1>1. ClientIInv => NormalEndIsTheLast
  BY DEF ClientIInv, ClientKnows, NormalEndIsTheLast
<1> QED
  BY <1>1, ClientInvariance, PTL
=============================================================================
