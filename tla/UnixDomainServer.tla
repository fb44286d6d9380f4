-------------------------- MODULE UnixDomainServer --------------------------
(***************************************************************************)
(* The program UnixDomainServer: a Unix domain server whose clients are    *)
(* sent heartbeats by a periodic timer, and a main loop that sends         *)
(* datagrams from an unbound listener.  Nothing adds workers: the          *)
(* io_service runs on one thread, so that a handler meets only the main    *)
(* thread, the clients and the network between its steps.                  *)
(*                                                                         *)
(* An accept that fails changes nothing here, the next is posted.  A       *)
(* definition whose name starts with Faulty is a bug one could make in the *)
(* definition that follows it; it takes no part in the specification.      *)
(***************************************************************************)
EXTENDS FiniteSets

CONSTANT Clients

VARIABLES
    main,               \* what the main thread is in
    threw,              \* what an exception has taken it out of
    service,            \* the io_service: "none", "running", "stopping", "gone"
    io,                 \* its thread: the handler it is in, and for whom
    accepting,          \* the server has an accept outstanding
    timer,              \* the heartbeat: "unset", "waiting" or "due"
    listener,           \* the datagram listener: "none", "reading" or "erased"
    client,             \* "away", "connecting", "up" or "gone"
    DomainSocket,       \* of each connection: "closed" or "open"
    read,               \* its read: "none", "pending", "data" or "error"
    write,              \* "none", "pending", "done", "short" or "broken"
    _domainConnections, \* the server's list
    _connections        \* Impl's map, which owns the handles only

connectionVars == <<client, DomainSocket, read, write>>

vars == <<main, threw, service, io, accepting, timer, listener, connectionVars,
          _domainConnections, _connections>>

Idle == [at |-> "idle", conns |-> {}]

Init == /\ main = "start_services"
        /\ threw = "nothing"
        /\ service = "none"
        /\ io = Idle
        /\ accepting = FALSE
        /\ timer = "unset"
        /\ listener = "none"
        /\ client = [c \in Clients |-> "away"]
        /\ DomainSocket = [c \in Clients |-> "closed"]
        /\ read = [c \in Clients |-> "none"]
        /\ write = [c \in Clients |-> "none"]
        /\ _domainConnections = {}
        /\ _connections = {}
-----------------------------------------------------------------------------
(* The main thread.                                                        *)

Goes(from, to) == main = from /\ main' = to

FaultyStartServices ==
    /\ Goes("start_services", "start_server")
    /\ service' = "running"
    /\ timer' = "waiting"
    /\ UNCHANGED <<threw, io, accepting, listener, connectionVars,
                   _domainConnections, _connections>>

StartServices ==
    /\ Goes("start_services", "start_server")
    /\ service' = "running"
    /\ UNCHANGED <<threw, io, accepting, timer, listener, connectionVars,
                   _domainConnections, _connections>>

StartUnixServer == accepting' = TRUE

(* AddUnixServer, StartUnixServer.                                         *)
StartServer ==
    /\ Goes("start_server", "set_timer")
    /\ StartUnixServer
    /\ UNCHANGED <<threw, service, io, timer, listener, connectionVars,
                   _domainConnections, _connections>>

SetTimer ==
    /\ Goes("set_timer", "make_listener")
    /\ timer' = "waiting"
    /\ UNCHANGED <<threw, service, io, accepting, listener, connectionVars,
                   _domainConnections, _connections>>

(* UnboundDgramListener, EnableBroadcast, LaunchRead.                      *)
MakeListener ==
    /\ Goes("make_listener", "loop")
    /\ listener' = "reading"
    /\ UNCHANGED <<threw, service, io, accepting, timer, connectionVars,
                   _domainConnections, _connections>>

(* The socket cannot be bound to the path, the destination is no address,  *)
(* or a datagram error has erased the listener that the loop sends with:   *)
(* out of the block, past Impl, to the services.                           *)
Throws ==
    /\ \/ main \in {"start_server", "make_listener"}
       \/ main = "loop" /\ listener = "erased"
    /\ threw' = main
    /\ main' = "destroy_services"
    /\ UNCHANGED <<service, io, accepting, timer, listener, connectionVars,
                   _domainConnections, _connections>>

StopServices ==
    /\ main = "destroy_services"
    /\ service = "running"
    /\ service' = "stopping"
    /\ UNCHANGED <<main, threw, io, accepting, timer, listener, connectionVars,
                   _domainConnections, _connections>>

CloseAllUnixConnections ==
    DomainSocket' = [c \in Clients |-> IF c \in _domainConnections
                                      THEN "closed" ELSE DomainSocket[c]]

(* The io_service's thread has been joined; the server goes.               *)
Exit ==
    /\ Goes("destroy_services", "exited")
    /\ service = "stopping"
    /\ io = Idle
    /\ service' = "gone"
    /\ accepting' = FALSE
    /\ CloseAllUnixConnections
    /\ UNCHANGED <<threw, io, timer, listener, client, read, write,
                   _domainConnections, _connections>>

(* A signal ends the process as it is.                                     *)
term ==
    /\ main # "exited"
    /\ main' = "exited"
    /\ service' = "gone"
    /\ io' = Idle
    /\ UNCHANGED <<threw, accepting, timer, listener, connectionVars,
                   _domainConnections, _connections>>
-----------------------------------------------------------------------------
(* The clients, time, and asio.                                            *)

Arrives(c) ==
    /\ client[c] = "away"
    /\ accepting \/ io.at = "acceptor"
    /\ client' = [client EXCEPT ![c] = "connecting"]
    /\ UNCHANGED <<main, threw, service, io, accepting, timer, listener,
                   DomainSocket, read, write, _domainConnections,
                   _connections>>

Leaves(c) ==
    /\ client[c] = "up"
    /\ client' = [client EXCEPT ![c] = "gone"]
    /\ UNCHANGED <<main, threw, service, io, accepting, timer, listener,
                   DomainSocket, read, write, _domainConnections,
                   _connections>>

Connected(c) == client[c] = "up" /\ DomainSocket[c] = "open"

ReadEnds(c) ==
    /\ read[c] = "pending"
    /\ \E end \in {"data", "error"} :
           /\ end = "data" => Connected(c)
           /\ end = "error" => ~Connected(c)
           /\ read' = [read EXCEPT ![c] = end]
    /\ UNCHANGED <<main, threw, service, io, accepting, timer, listener,
                   client, DomainSocket, write, _domainConnections,
                   _connections>>

WriteEnds(c) ==
    /\ write[c] = "pending"
    /\ \E end \in {"done", "short"} :
           /\ end = "done" => DomainSocket[c] = "open"
           /\ end = "short" => ~Connected(c)
           /\ write' = [write EXCEPT ![c] = end]
    /\ UNCHANGED <<main, threw, service, io, accepting, timer, listener,
                   client, DomainSocket, read, _domainConnections,
                   _connections>>

Expires ==
    /\ service = "running"
    /\ timer = "waiting"
    /\ timer' = "due"
    /\ UNCHANGED <<main, threw, service, io, accepting, listener,
                   connectionVars, _domainConnections, _connections>>
-----------------------------------------------------------------------------
(* The io_service's thread: clients.                                       *)

Polls == service = "running" /\ io = Idle

(* Somebody owns the TcpDomainConnection: the server, or a write.  The     *)
(* read does not, nor do the handles.                                      *)
Alive(c) == \/ c \in _domainConnections
            \/ write[c] \in {"pending", "done", "short"}

Close(c) == DomainSocket' = [DomainSocket EXCEPT ![c] = "closed"]

FaultyAcceptHandler(c) ==
    /\ Polls
    /\ accepting
    /\ client[c] = "connecting"
    /\ client' = [client EXCEPT ![c] = "up"]
    /\ DomainSocket' = [DomainSocket EXCEPT ![c] = "open"]
    /\ read' = [read EXCEPT ![c] = "pending"]
    /\ _domainConnections' = _domainConnections \cup {c}
    /\ UNCHANGED <<main, threw, service, io, accepting, timer, listener, write,
                   _connections>>

(* UnixServer::OnAccept, up to the acceptor of Impl ...                    *)
AcceptHandler(c) ==
    /\ Polls
    /\ accepting
    /\ client[c] = "connecting"
    /\ accepting' = FALSE
    /\ client' = [client EXCEPT ![c] = "up"]
    /\ DomainSocket' = [DomainSocket EXCEPT ![c] = "open"]
    /\ read' = [read EXCEPT ![c] = "pending"]
    /\ _domainConnections' = _domainConnections \cup {c}
    /\ io' = [at |-> "acceptor", conns |-> {c}]
    /\ UNCHANGED <<main, threw, service, timer, listener, write, _connections>>

(* ... which keeps the handle; then the next accept.                       *)
Acceptor ==
    /\ io.at = "acceptor"
    /\ _connections' = _connections \cup io.conns
    /\ accepting' = TRUE
    /\ io' = Idle
    /\ UNCHANGED <<main, threw, service, timer, listener, connectionVars,
                   _domainConnections>>

(* Impl logs that there are bytes, and leaves them in the buffer ...       *)
ClientReader(c) ==
    /\ Polls
    /\ read[c] = "data"
    /\ Alive(c)
    /\ read' = [read EXCEPT ![c] = "none"]
    /\ io' = [at |-> "client_reader", conns |-> {c}]
    /\ UNCHANGED <<main, threw, service, accepting, timer, listener, client,
                   DomainSocket, write, _domainConnections, _connections>>

(* ... and the next read is chained.                                       *)
ChainRead ==
    /\ io.at = "client_reader"
    /\ read' = [c \in Clients |->
                   IF c \notin io.conns THEN read[c]
                   ELSE IF DomainSocket[c] = "open" THEN "pending" ELSE "error"]
    /\ io' = Idle
    /\ UNCHANGED <<main, threw, service, accepting, timer, listener, client,
                   DomainSocket, write, _domainConnections, _connections>>

FaultyErrorHandler(c) ==
    /\ Polls
    /\ read[c] = "error"
    /\ Alive(c)
    /\ read' = [read EXCEPT ![c] = "none"]
    /\ _domainConnections' = {d \in _domainConnections :
                                  DomainSocket[d] = "open"}
    /\ Close(c)
    /\ UNCHANGED <<main, threw, service, io, accepting, timer, listener,
                   client, write, _connections>>

(* UnixServer::ErrorHandler: every connection whose socket is closed goes. *)
(* Impl's own error callback is not given to the server.                   *)
ErrorHandler(c) ==
    /\ Polls
    /\ read[c] = "error"
    /\ Alive(c)
    /\ read' = [read EXCEPT ![c] = "none"]
    /\ Close(c)
    /\ _domainConnections' = {d \in _domainConnections :
                                  DomainSocket'[d] = "open"}
    /\ UNCHANGED <<main, threw, service, io, accepting, timer, listener,
                   client, write, _connections>>

(* The read of a connection that an ErrorHandler has erased: undefined.    *)
DanglingRead(c) ==
    /\ Polls
    /\ read[c] \in {"data", "error"}
    /\ ~Alive(c)
    /\ term

(* A heartbeat that was queued meanwhile is sent next.                     *)
WriteComplete(c) ==
    /\ Polls
    /\ write[c] = "done"
    /\ \E w \in {"none", "pending"} : write' = [write EXCEPT ![c] = w]
    /\ UNCHANGED <<main, threw, service, io, accepting, timer, listener,
                   client, DomainSocket, read, _domainConnections,
                   _connections>>

WriteIncomplete(c) ==
    /\ Polls
    /\ write[c] = "short"
    /\ write' = [write EXCEPT ![c] = "broken"]
    /\ Close(c)
    /\ UNCHANGED <<main, threw, service, io, accepting, timer, listener,
                   client, read, _domainConnections, _connections>>
-----------------------------------------------------------------------------
(* The io_service's thread: heartbeats and datagrams.                      *)

HeartbeatDue ==
    /\ Polls
    /\ timer = "due"
    /\ timer' = "unset"
    /\ io' = [at |-> "heartbeat", conns |-> _connections]
    /\ UNCHANGED <<main, threw, service, accepting, listener, connectionVars,
                   _domainConnections, _connections>>

(* A write is outstanding until its handler has run.                       *)
LaunchWrite(c) == write' = [write EXCEPT ![c] = "pending"]

FaultyHeartbeat(c) ==
    /\ io.at = "heartbeat"
    /\ c \in io.conns
    /\ IF Alive(c)
       THEN /\ IF write[c] = "none" THEN LaunchWrite(c)
                                    ELSE UNCHANGED write
            /\ io' = [io EXCEPT !.conns = @ \ {c}]
       ELSE io' = Idle /\ UNCHANGED write
    /\ UNCHANGED <<main, threw, service, accepting, timer, listener, client,
                   DomainSocket, read, _domainConnections, _connections>>

(* One client of the walk.  A handle whose connection has expired throws;  *)
(* the loop body catches that, and goes on to the next.                    *)
Heartbeat(c) ==
    /\ io.at = "heartbeat"
    /\ c \in io.conns
    /\ IF Alive(c) /\ write[c] = "none"
       THEN LaunchWrite(c)
       ELSE UNCHANGED write
    /\ io' = [io EXCEPT !.conns = @ \ {c}]
    /\ UNCHANGED <<main, threw, service, accepting, timer, listener, client,
                   DomainSocket, read, _domainConnections, _connections>>

(* The timer is set again by the chain of IoServicesImpl.                  *)
HeartbeatsDone ==
    /\ io.at = "heartbeat"
    /\ io.conns = {}
    /\ timer' = "waiting"
    /\ io' = Idle
    /\ UNCHANGED <<main, threw, service, accepting, listener, connectionVars,
                   _domainConnections, _connections>>

(* An error, or a datagram of no length.                                   *)
DatagramError ==
    /\ Polls
    /\ listener = "reading"
    /\ listener' = "erased"
    /\ UNCHANGED <<main, threw, service, io, accepting, timer, connectionVars,
                   _domainConnections, _connections>>
-----------------------------------------------------------------------------
Main == \/ StartServices
        \/ StartServer
        \/ SetTimer
        \/ MakeListener
        \/ Throws
        \/ StopServices
        \/ Exit

Network(c) == Arrives(c) \/ Leaves(c) \/ ReadEnds(c) \/ WriteEnds(c)

ReadHandler(c) == ClientReader(c) \/ ErrorHandler(c) \/ DanglingRead(c)

WriteHandler(c) == WriteComplete(c) \/ WriteIncomplete(c)

GoesOn == \/ Acceptor
          \/ ChainRead
          \/ HeartbeatsDone
          \/ \E c \in Clients : Heartbeat(c)

Next == \/ Main
        \/ term
        \/ Expires
        \/ GoesOn
        \/ HeartbeatDue
        \/ DatagramError
        \/ \E c \in Clients : \/ Network(c)
                             \/ AcceptHandler(c)
                             \/ ReadHandler(c)
                             \/ WriteHandler(c)

(* Time passes, a handler that has begun goes on, a read from a client     *)
(* that has gone completes, and the io_service takes what is ready in      *)
(* order: a due heartbeat or an error is not overtaken for ever.           *)
Fairness == /\ WF_vars(Main)
            /\ WF_vars(Expires)
            /\ WF_vars(GoesOn)
            /\ SF_vars(HeartbeatDue)
            /\ \A c \in Clients : /\ WF_vars(ReadEnds(c))
                                  /\ SF_vars(ReadHandler(c))

Spec == Init /\ [][Next]_vars /\ Fairness
-----------------------------------------------------------------------------
(* Safety.                                                                 *)

(* The callbacks hold the raw `this` of Impl, which goes before the        *)
(* services do.  If the server cannot be started that is harmless, nothing *)
(* can have called back; only an exception out of what follows destroys    *)
(* Impl under a callback, or before one.                                   *)
CallbacksFindImpl ==
    main = "destroy_services" /\ io.at \in {"acceptor", "heartbeat"}
        => threw \in {"make_listener", "loop"}

(* Impl is told of a client before it is handed anything from it, although *)
(* the read is started before the acceptor is called: on one thread, what  *)
(* the read brings waits for the handler that started it.                  *)
ToldBeforeData == io.at = "client_reader" => io.conns \subseteq _connections

(* The server never goes deaf or silent: once it is started an accept is   *)
(* outstanding or will be when Impl has had the client, and once the timer *)
(* is set it is waiting, due, or will be set again by the handler.         *)
ServerGoesOn ==
    /\ main \in {"set_timer", "make_listener", "loop"}
           => accepting \/ io.at = "acceptor"
    /\ main \in {"make_listener", "loop"}
           => timer # "unset" \/ io.at = "heartbeat"

(* A client that stays keeps its connection, whatever becomes of the       *)
(* others: it is listed, open and being read.                              *)
StayingClientsAreServed ==
    service = "running" =>
        \A c \in Clients : client[c] = "up" =>
            /\ c \in _domainConnections
            /\ DomainSocket[c] = "open"
            /\ \/ read[c] \in {"pending", "data"}
               \/ io.at = "client_reader" /\ c \in io.conns

(* A listed connection, its client gone or not, has a read or a handler    *)
(* that will read on: nothing else would find out and remove it.           *)
ListedClientsAreRead ==
    service = "running" =>
        \A c \in _domainConnections :
            read[c] # "none" \/ (io.at = "client_reader" /\ c \in io.conns)

(* Liveness.                                                               *)

(* The connection of a client that goes leaves the server's list, whether  *)
(* its read or a heartbeat finds that out.                                 *)
LostClientsAreRemoved ==
    \A c \in Clients :
        c \in _domainConnections /\ client[c] = "gone"
            ~> c \notin _domainConnections \/ service # "running"

(* A client that stays is sent a heartbeat, whatever becomes of the        *)
(* others: those that have gone are never taken out of the map, and a      *)
(* write to one of them throws in the middle of the walk.                  *)
HeartbeatsReachClients ==
    \A c \in Clients :
        c \in _connections /\ client[c] = "up" /\ timer # "unset"
            ~> write[c] # "none" \/ client[c] = "gone" \/ service # "running"
=============================================================================
