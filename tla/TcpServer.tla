------------------------------ MODULE TcpServer ------------------------------
(***************************************************************************)
(* TcpServer (UnixServer has the same code without the secure half): the   *)
(* accept chain, the list of peer connections, the error handler that      *)
(* prunes it, and who owns a connection at any time.                       *)
(*                                                                         *)
(* The server and the asynchronous operations own a connection by shared   *)
(* pointers; a read owns nothing, its completion handler holds the raw     *)
(* `this` of the connection.  Ownership is derived from the rest of the    *)
(* state by Alive.                                                         *)
(*                                                                         *)
(* Connections are numbered in the order their accept is posted.  A        *)
(* definition whose name starts with Faulty is a bug one could make in the *)
(* definition that follows it; it takes no part in the specification.      *)
(***************************************************************************)
EXTENDS Naturals, FiniteSets

CONSTANTS Workers,          \* threads that run the io_service
          MaxConnections    \* bound: connections, one of them the next accept's

ASSUME TcpServerAssumption == MaxConnections \in Nat \ {0}

VARIABLES
    mode,             \* "idle", "plain", "secure", "stopped" or "crashed"
    accepts,          \* async_accept operations: the connection, the outcome
    handshakes,       \* async_handshake operations, likewise
    PeerSocket,       \* of each connection: "closed" or "open"
    client,           \* its remote end: "none", "up" or "gone"
    read,             \* its read: "none", "pending", or what completed it
    write,            \* its write queue: "none", "pending" or "broken"
    worker,           \* of each thread: the handler it is in, and for whom
    _peerConnections, \* the list the broadcast and the pruning go through
    told,             \* history: connections the application was told of
    acceptLost,       \* an exception broke the accept chain
    readLost          \* connections whose read callback threw

vars == <<mode, accepts, handshakes, PeerSocket, client, read, write, worker,
          _peerConnections, told, acceptLost, readLost>>

Conns == 1 .. MaxConnections

Op == [conn : Conns, outcome : {"pending", "ok", "error"}]

Handlers == {"begin_read", "push", "accept_callback", "rearm", "read_callback",
             "error"}

Idle == [at |-> "idle", conn |-> 0]

TypeOK == /\ mode \in {"idle", "plain", "secure", "stopped", "crashed"}
          /\ accepts \subseteq Op
          /\ handshakes \subseteq Op
          /\ PeerSocket \in [Conns -> {"closed", "open"}]
          /\ client \in [Conns -> {"none", "up", "gone"}]
          /\ read \in [Conns -> {"none", "pending", "data", "error"}]
          /\ write \in [Conns -> {"none", "pending", "broken"}]
          /\ worker \in [Workers -> {Idle} \cup [at : Handlers, conn : Conns]]
          /\ _peerConnections \subseteq Conns
          /\ told \subseteq Conns
          /\ acceptLost \in BOOLEAN
          /\ readLost \subseteq Conns

Init == /\ mode = "idle"
        /\ accepts = {}
        /\ handshakes = {}
        /\ PeerSocket = [c \in Conns |-> "closed"]
        /\ client = [c \in Conns |-> "none"]
        /\ read = [c \in Conns |-> "none"]
        /\ write = [c \in Conns |-> "none"]
        /\ worker = [w \in Workers |-> Idle]
        /\ _peerConnections = {}
        /\ told = {}
        /\ acceptLost = FALSE
        /\ readLost = {}
-----------------------------------------------------------------------------
Running == mode \in {"plain", "secure"}

In(w, handler) == Running /\ worker[w].at = handler

(* _mutex is held across steps only while the application is told of a     *)
(* new client; ErrorHandler and the broadcast hold it for one step each.   *)
Unlocked == \A w \in Workers : worker[w].at # "accept_callback"

(* Some shared_ptr to the connection exists: in the list, bound to the     *)
(* accept, the handshake or a write, or held by a handler that is running. *)
(* The read's handler is not among them.                                   *)
Alive(c) ==
    \/ c \in _peerConnections
    \/ write[c] = "pending"
    \/ \E op \in accepts \cup handshakes : op.conn = c
    \/ \E w \in Workers : worker[w].conn = c /\ worker[w].at # "read_callback"

Goto(w, handler, c) == worker' = [worker EXCEPT ![w] = [at |-> handler, conn |-> c]]

Return(w) == worker' = [worker EXCEPT ![w] = Idle]

(* AsyncAccept and AsyncSecureAccept: a new connection object and an       *)
(* async_accept into it.                                                   *)
AsyncAccept ==
    \E c \in Conns :
        /\ client[c] = "none"
        /\ \A d \in 1 .. c - 1 : client[d] # "none"
        /\ accepts' = accepts \cup {[conn |-> c, outcome |-> "pending"]}

Start(m) ==
    /\ mode = "idle"
    /\ mode' = m
    /\ AsyncAccept
    /\ UNCHANGED <<handshakes, PeerSocket, client, read, write, worker,
                   _peerConnections, told, acceptLost, readLost>>

(* Stop, from the destructor: the io_service has been stopped and its      *)
(* threads joined, so no handler runs now or later.                        *)
Stop ==
    /\ Running
    /\ \A w \in Workers : worker[w] = Idle
    /\ mode' = "stopped"
    /\ PeerSocket' = [c \in Conns |->
                         IF c \in _peerConnections THEN "closed" ELSE PeerSocket[c]]
    /\ UNCHANGED <<accepts, handshakes, client, read, write, worker,
                   _peerConnections, told, acceptLost, readLost>>
-----------------------------------------------------------------------------
(* asio and the clients.                                                   *)

Completed(op, outcome) == [conn |-> op.conn, outcome |-> outcome]

(* A client arrives; a connection is left over for the accept after it.    *)
ClientArrives(op) ==
    /\ Running
    /\ op.outcome = "pending"
    /\ op.conn < MaxConnections
    /\ accepts' = (accepts \ {op}) \cup {Completed(op, "ok")}
    /\ PeerSocket' = [PeerSocket EXCEPT ![op.conn] = "open"]
    /\ client' = [client EXCEPT ![op.conn] = "up"]
    /\ UNCHANGED <<mode, handshakes, read, write, worker, _peerConnections,
                   told, acceptLost, readLost>>

AcceptFails(op) ==
    /\ Running
    /\ op.outcome = "pending"
    /\ accepts' = (accepts \ {op}) \cup {Completed(op, "error")}
    /\ UNCHANGED <<mode, handshakes, PeerSocket, client, read, write, worker,
                   _peerConnections, told, acceptLost, readLost>>

HandshakeEnds(op, outcome) ==
    /\ Running
    /\ op.outcome = "pending"
    /\ outcome = "ok" => client[op.conn] = "up"
    /\ handshakes' = (handshakes \ {op}) \cup {Completed(op, outcome)}
    /\ UNCHANGED <<mode, accepts, PeerSocket, client, read, write, worker,
                   _peerConnections, told, acceptLost, readLost>>

ClientGoes(c) ==
    /\ Running
    /\ client[c] = "up"
    /\ client' = [client EXCEPT ![c] = "gone"]
    /\ UNCHANGED <<mode, accepts, handshakes, PeerSocket, read, write, worker,
                   _peerConnections, told, acceptLost, readLost>>

(* A pending read completes with data, or with an error once the client is *)
(* gone or the socket is closed.                                           *)
Connected(c) == client[c] = "up" /\ PeerSocket[c] = "open"

ReadEnds(c) ==
    /\ Running
    /\ read[c] = "pending"
    /\ read' = [read EXCEPT ![c] = IF Connected(c) THEN "data" ELSE "error"]
    /\ UNCHANGED <<mode, accepts, handshakes, PeerSocket, client, write,
                   worker, _peerConnections, told, acceptLost, readLost>>

(* A write completes and its queue is empty, or the transport cuts it      *)
(* short: then the handler closes the socket and the queue stays blocked.  *)
(* Bytes for a client that is gone may still be taken.                     *)
WriteEnds(c) ==
    /\ Running
    /\ write[c] = "pending"
    /\ \/ /\ PeerSocket[c] = "open"
          /\ write' = [write EXCEPT ![c] = "none"]
          /\ UNCHANGED PeerSocket
       \/ /\ ~Connected(c)
          /\ write' = [write EXCEPT ![c] = "broken"]
          /\ PeerSocket' = [PeerSocket EXCEPT ![c] = "closed"]
    /\ UNCHANGED <<mode, accepts, handshakes, client, read, worker,
                   _peerConnections, told, acceptLost, readLost>>
-----------------------------------------------------------------------------
(* The application, on any thread.                                         *)

AfterAsyncWrite(C) == [c \in Conns |->
                          IF c \in C /\ write[c] = "none" THEN "pending" ELSE write[c]]

SendMessageToAllPeers ==
    /\ Running
    /\ Unlocked
    /\ write' = AfterAsyncWrite(_peerConnections)
    /\ UNCHANGED <<mode, accepts, handshakes, PeerSocket, client, read, worker,
                   _peerConnections, told, acceptLost, readLost>>

(* StreamConnection::AsyncWrite; it throws on a destroyed connection.      *)
Write(c) ==
    /\ Running
    /\ c \in told
    /\ Alive(c)
    /\ write' = AfterAsyncWrite({c})
    /\ UNCHANGED <<mode, accepts, handshakes, PeerSocket, client, read, worker,
                   _peerConnections, told, acceptLost, readLost>>

(* StreamConnection::Close; it does nothing on a destroyed connection.     *)
Close(c) ==
    /\ Running
    /\ c \in told
    /\ Alive(c)
    /\ PeerSocket[c] = "open"
    /\ PeerSocket' = [PeerSocket EXCEPT ![c] = "closed"]
    /\ UNCHANGED <<mode, accepts, handshakes, client, read, write, worker,
                   _peerConnections, told, acceptLost, readLost>>
-----------------------------------------------------------------------------
(* The accept chain.                                                       *)

FaultyAcceptFailed(w, op) ==
    /\ In(w, "idle")
    /\ op.outcome = "error"
    /\ accepts' = accepts \ {op}
    /\ UNCHANGED <<mode, handshakes, PeerSocket, client, read, write, worker,
                   _peerConnections, told, acceptLost, readLost>>

(* AcceptHandler and SecureAcceptHandler with an error: accept again.      *)
AcceptFailed(w, op) ==
    /\ In(w, "idle")
    /\ op.outcome = "error"
    /\ accepts' = accepts \ {op}
    /\ Goto(w, "rearm", op.conn)
    /\ UNCHANGED <<mode, handshakes, PeerSocket, client, read, write,
                   _peerConnections, told, acceptLost, readLost>>

(* AcceptHandler: a plain connection goes straight to OnAccept.            *)
PlainAccepted(w, op) ==
    /\ In(w, "idle")
    /\ mode = "plain"
    /\ op.outcome = "ok"
    /\ accepts' = accepts \ {op}
    /\ Goto(w, "begin_read", op.conn)
    /\ UNCHANGED <<mode, handshakes, PeerSocket, client, read, write,
                   _peerConnections, told, acceptLost, readLost>>

(* SecureAcceptHandler: the handshake first.                               *)
SecureAccepted(w, op) ==
    /\ In(w, "idle")
    /\ mode = "secure"
    /\ op.outcome = "ok"
    /\ accepts' = accepts \ {op}
    /\ handshakes' = handshakes \cup {Completed(op, "pending")}
    /\ Goto(w, "rearm", op.conn)
    /\ UNCHANGED <<mode, PeerSocket, client, read, write, _peerConnections,
                   told, acceptLost, readLost>>

(* HandleSslHandshake: on an error the connection is dropped, and with its *)
(* last owner its socket.                                                  *)
HandleSslHandshake(w, op) ==
    /\ In(w, "idle")
    /\ handshakes' = handshakes \ {op}
    /\ \/ /\ op.outcome = "ok"
          /\ Goto(w, "begin_read", op.conn)
          /\ UNCHANGED PeerSocket
       \/ /\ op.outcome = "error"
          /\ PeerSocket' = [PeerSocket EXCEPT ![op.conn] = "closed"]
          /\ UNCHANGED worker
    /\ UNCHANGED <<mode, accepts, client, read, write, _peerConnections, told,
                   acceptLost, readLost>>

FaultyBeginChainedRead(w) ==
    /\ In(w, "begin_read")
    /\ Goto(w, "push", worker[w].conn)
    /\ UNCHANGED <<mode, accepts, handshakes, PeerSocket, client, read, write,
                   _peerConnections, told, acceptLost, readLost>>

(* OnAccept: start reading from the client ...                             *)
BeginChainedRead(w) ==
    /\ In(w, "begin_read")
    /\ read' = [read EXCEPT ![worker[w].conn] = "pending"]
    /\ Goto(w, "push", worker[w].conn)
    /\ UNCHANGED <<mode, accepts, handshakes, PeerSocket, client, write,
                   _peerConnections, told, acceptLost, readLost>>

(* ... then lock, list it, and tell the application while locked ...       *)
PushConnection(w) ==
    /\ In(w, "push")
    /\ Unlocked
    /\ _peerConnections' = _peerConnections \cup {worker[w].conn}
    /\ told' = told \cup {worker[w].conn}
    /\ Goto(w, "accept_callback", worker[w].conn)
    /\ UNCHANGED <<mode, accepts, handshakes, PeerSocket, client, read, write,
                   acceptLost, readLost>>

(* ... whose callback returns: a plain accept is followed by the next one, *)
(* a handshake was followed by it already.                                 *)
AcceptCallbackReturns(w) ==
    /\ In(w, "accept_callback")
    /\ IF mode = "plain" THEN Goto(w, "rearm", worker[w].conn) ELSE Return(w)
    /\ UNCHANGED <<mode, accepts, handshakes, PeerSocket, client, read, write,
                   _peerConnections, told, acceptLost, readLost>>

(* ... or throws, out of the handler, past the plain server's next accept. *)
AcceptCallbackThrows(w) ==
    /\ In(w, "accept_callback")
    /\ Return(w)
    /\ acceptLost' = (acceptLost \/ mode = "plain")
    /\ UNCHANGED <<mode, accepts, handshakes, PeerSocket, client, read, write,
                   _peerConnections, told, readLost>>

Rearm(w) ==
    /\ In(w, "rearm")
    /\ AsyncAccept
    /\ Return(w)
    /\ UNCHANGED <<mode, handshakes, PeerSocket, client, read, write,
                   _peerConnections, told, acceptLost, readLost>>

(* AsyncSecureAccept: the certificate, key or password cannot be loaded.   *)
RearmThrows(w) ==
    /\ In(w, "rearm")
    /\ mode = "secure"
    /\ Return(w)
    /\ acceptLost' = TRUE
    /\ UNCHANGED <<mode, accepts, handshakes, PeerSocket, client, read, write,
                   _peerConnections, told, readLost>>
-----------------------------------------------------------------------------
(* Reads and errors.                                                       *)

(* The data is for the application.                                        *)
ReadSomeHandler(w, c) ==
    /\ In(w, "idle")
    /\ Alive(c)
    /\ read[c] = "data"
    /\ read' = [read EXCEPT ![c] = "none"]
    /\ Goto(w, "read_callback", c)
    /\ UNCHANGED <<mode, accepts, handshakes, PeerSocket, client, write,
                   _peerConnections, told, acceptLost, readLost>>

(* Its callback returns and the next read is chained.                      *)
ReadCallbackReturns(w) ==
    LET c == worker[w].conn IN
    /\ In(w, "read_callback")
    /\ Alive(c)
    /\ read' = [read EXCEPT ![c] = "pending"]
    /\ Return(w)
    /\ UNCHANGED <<mode, accepts, handshakes, PeerSocket, client, write,
                   _peerConnections, told, acceptLost, readLost>>

ReadCallbackThrows(w) ==
    /\ In(w, "read_callback")
    /\ Return(w)
    /\ readLost' = readLost \cup {worker[w].conn}
    /\ UNCHANGED <<mode, accepts, handshakes, PeerSocket, client, read, write,
                   _peerConnections, told, acceptLost>>

FaultyReadFailed(w, c) ==
    /\ In(w, "idle")
    /\ Alive(c)
    /\ read[c] = "error"
    /\ read' = [read EXCEPT ![c] = "none"]
    /\ UNCHANGED <<mode, accepts, handshakes, PeerSocket, client, write,
                   worker, _peerConnections, told, acceptLost, readLost>>

(* The read failed: shared_from_this keeps the connection for the callback.*)
ReadFailed(w, c) ==
    /\ In(w, "idle")
    /\ Alive(c)
    /\ read[c] = "error"
    /\ read' = [read EXCEPT ![c] = "none"]
    /\ Goto(w, "error", c)
    /\ UNCHANGED <<mode, accepts, handshakes, PeerSocket, client, write,
                   _peerConnections, told, acceptLost, readLost>>

FaultyNoClose(w) ==
    LET c == worker[w].conn IN
    /\ In(w, "error")
    /\ Unlocked
    /\ _peerConnections' = _peerConnections \ {c}
    /\ Return(w)
    /\ UNCHANGED <<mode, accepts, handshakes, PeerSocket, client, read, write,
                   told, acceptLost, readLost>>

(* ErrorHandler: close the connection and erase every closed one.          *)
ErrorHandler(w) ==
    LET c == worker[w].conn IN
    /\ In(w, "error")
    /\ Unlocked
    /\ PeerSocket' = [PeerSocket EXCEPT ![c] = "closed"]
    /\ _peerConnections' = {d \in _peerConnections : PeerSocket'[d] = "open"}
    /\ Return(w)
    /\ UNCHANGED <<mode, accepts, handshakes, client, read, write, told,
                   acceptLost, readLost>>

(* The completion handler of a read, or the code behind the application's  *)
(* callback, runs on a connection that has been destroyed.  The behaviour  *)
(* is undefined: shared_from_this throws and the handler is gone, or the   *)
(* process dies.                                                           *)
DanglingRead(w, c) ==
    /\ Running
    /\ ~Alive(c)
    /\ \/ /\ In(w, "idle")
          /\ read[c] \in {"data", "error"}
          /\ read' = [read EXCEPT ![c] = "none"]
          /\ UNCHANGED worker
       \/ /\ worker[w] = [at |-> "read_callback", conn |-> c]
          /\ Return(w)
          /\ UNCHANGED read
    /\ mode' \in {mode, "crashed"}
    /\ UNCHANGED <<accepts, handshakes, PeerSocket, client, write,
                   _peerConnections, told, acceptLost, readLost>>
-----------------------------------------------------------------------------
Accepting(w) == \/ \E op \in accepts : \/ AcceptFailed(w, op)
                                       \/ PlainAccepted(w, op)
                                       \/ SecureAccepted(w, op)
                \/ \E op \in handshakes : HandleSslHandshake(w, op)
                \/ BeginChainedRead(w)
                \/ PushConnection(w)
                \/ AcceptCallbackReturns(w)
                \/ Rearm(w)

ReadHandlers(w, c) == \/ ReadSomeHandler(w, c)
                      \/ ReadFailed(w, c)
                      \/ DanglingRead(w, c)

Reading(w) == \/ \E c \in Conns : ReadHandlers(w, c)
              \/ ReadCallbackReturns(w)
              \/ ErrorHandler(w)

Handler(w) == Accepting(w) \/ Reading(w)

Throw(w) == AcceptCallbackThrows(w) \/ ReadCallbackThrows(w) \/ RearmThrows(w)

Transport == \/ \E op \in accepts : ClientArrives(op) \/ AcceptFails(op)
             \/ \E op \in handshakes : \E outcome \in {"ok", "error"} :
                    HandshakeEnds(op, outcome)
             \/ \E c \in Conns : ClientGoes(c) \/ ReadEnds(c) \/ WriteEnds(c)

Application == \/ \E m \in {"plain", "secure"} : Start(m)
               \/ Stop
               \/ SendMessageToAllPeers
               \/ \E c \in Conns : Write(c) \/ Close(c)

Next == \/ Application
        \/ Transport
        \/ \E w \in Workers : Handler(w) \/ Throw(w)

(* A thread finishes the handler it is in and the application's callbacks  *)
(* return; the io_service runs queued handlers first in, first out, so no  *)
(* handler waits for ever behind later ones; and a read from a client that *)
(* is gone or on a closed socket completes.                                *)
Fairness ==
    /\ \A w \in Workers : WF_vars(worker[w] # Idle /\ Handler(w))
    /\ \A c \in Conns : /\ SF_vars(\E w \in Workers : ReadHandlers(w, c))
                        /\ WF_vars(ReadEnds(c) /\ ~Connected(c))

Spec == Init /\ [][Next]_vars /\ Fairness
-----------------------------------------------------------------------------
(* Safety.                                                                 *)

Rearming(w) == \/ worker[w].at = "rearm"
               \/ /\ mode = "plain"
                  /\ worker[w].at \in {"begin_read", "push", "accept_callback"}

(* A running server always has one accept outstanding, or one thread in    *)
(* the handler that will post it, and never two: a failed accept or        *)
(* handshake does not end the chain.  Only an exception does.              *)
AcceptChain ==
    Running => Cardinality(accepts) + Cardinality({w \in Workers : Rearming(w)})
                   = (IF acceptLost THEN 0 ELSE 1)

HandlesRead(w, c) == /\ worker[w].conn = c
                     /\ worker[w].at \in {"read_callback", "error"}

ReadHandler(c) == read[c] # "none" \/ \E w \in Workers : HandlesRead(w, c)

(* Every listed connection whose socket is open is being read from, so     *)
(* the server will notice when its client goes.                            *)
OpenPeersAreRead ==
    \A c \in _peerConnections :
        PeerSocket[c] = "open" /\ c \notin readLost => ReadHandler(c)

(* A client the application was told of stays in the list while its socket *)
(* is open: a broadcast leaves nobody out, and once the server has stopped *)
(* no stream the application knows is open.                                *)
ToldClientsAreListed ==
    \A c \in told : PeerSocket[c] = "open" => mode # "stopped" /\ c \in _peerConnections

(* On any number of threads the callbacks of one connection's reads do not *)
(* overlap, and none runs while a read of it is outstanding: its buffer    *)
(* has one user at a time.                                                 *)
OneReadHandler ==
    \A c \in Conns :
        /\ \A v, w \in Workers :
               HandlesRead(v, c) /\ HandlesRead(w, c) => v = w
        /\ read[c] # "none" => \A w \in Workers : ~HandlesRead(w, c)

(* No thread is on its way to tell the application of a client it knows:   *)
(* an accept and a handshake, failed or not, are each handled once.        *)
ClientsAreToldOnce ==
    \A w \in Workers :
        worker[w].at \in {"begin_read", "push"} => worker[w].conn \notin told

(* Nothing is read from a client for which reading has ended: the error,   *)
(* or the exception, is the last the application hears of it.              *)
EndedReadsStayEnded ==
    [][\A c \in told : ~ReadHandler(c) => ~ReadHandler(c)']_vars

-----------------------------------------------------------------------------
(* Liveness.                                                               *)

(* When the client of a listed connection goes, its socket is closed.      *)
LostClientsAreClosed ==
    \A c \in Conns :
        (c \in _peerConnections /\ client[c] = "gone")
            ~> (PeerSocket[c] = "closed" \/ c \in readLost \/ ~Running)
-----------------------------------------------------------------------------
(* What the comments say.                                                  *)

(* "The async read callback will then call the error callback to cleanup   *)
(* the connection and inform the application": the connection is still     *)
(* there when the callback of its read runs.                               *)
ReadCallbackFindsConnection ==
    \A c \in Conns :
        /\ read[c] # "none" => Alive(c)
        /\ \A w \in Workers :
               worker[w] = [at |-> "read_callback", conn |-> c] => Alive(c)
=============================================================================
