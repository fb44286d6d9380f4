--------------------------- MODULE TcpServerProofs ---------------------------
(***************************************************************************)
(* Proofs about TcpServer, for any threads and bound on connections.       *)
(***************************************************************************)
EXTENDS TcpServer, FiniteSetTheorems, TLAPS

(* AcceptChain without the counting: the chain is one accept, or one       *)
(* thread that is to post it, or it is broken.                             *)
NoneRearms == \A w \in Workers : ~Rearming(w)

Chain ==
    /\ mode = "idle" => /\ accepts = {} /\ handshakes = {} /\ ~acceptLost
                        /\ \A w \in Workers : worker[w] = Idle
    /\ mode = "plain" => handshakes = {}
    /\ Running =>
           IF acceptLost
           THEN accepts = {} /\ NoneRearms
           ELSE \/ NoneRearms /\ \E op \in Op : accepts = {op}
                \/ /\ accepts = {}
                   /\ \E w \in Workers : /\ Rearming(w)
                                         /\ \A v \in Workers \ {w} : ~Rearming(v)

(* A connection is accepted into before its client has arrived, and goes   *)
(* further only when it has.                                               *)
Arrived ==
    /\ \A op \in accepts : op.outcome = "pending" => client[op.conn] = "none"
    /\ \A op \in accepts : op.outcome = "ok" => client[op.conn] # "none"
    /\ \A op \in handshakes : client[op.conn] # "none"
    /\ \A w \in Workers : worker[w].at \in {"begin_read", "push", "accept_callback"}
           => client[worker[w].conn] # "none"
    /\ \A c \in told : client[c] # "none"
    /\ _peerConnections \subseteq told

(* OpenPeersAreRead also of the connections that are about to be listed.   *)
Opening(c) == \E w \in Workers :
                  worker[w].conn = c /\ worker[w].at \in {"push", "accept_callback"}

AreRead == \A c \in Conns :
    (c \in _peerConnections \/ Opening(c)) /\ PeerSocket[c] = "open"
        => c \in readLost \/ ReadHandler(c)

IInv == TypeOK /\ Chain /\ Arrived /\ AreRead /\ ToldClientsAreListed
-----------------------------------------------------------------------------
LEMMA InitIInv == Init => IInv
<1> SUFFICES ASSUME Init PROVE IInv
  OBVIOUS
<1> USE TcpServerAssumption DEF Init, Idle
<1>1. TypeOK
  BY DEF TypeOK, Conns
<1>2. Chain /\ Arrived /\ AreRead /\ ToldClientsAreListed
  BY DEF Chain, Arrived, AreRead, Opening, ToldClientsAreListed, Running
<1> QED
  BY <1>1, <1>2 DEF IInv

(* Shapes of the records.                                                  *)
LEMMA Shapes ==
    /\ \A op \in Op : /\ op.conn \in Conns
                      /\ op.outcome \in {"pending", "ok", "error"}
                      /\ \A o \in {"pending", "ok", "error"} :
                             /\ Completed(op, o) \in Op
                             /\ Completed(op, o).conn = op.conn
                             /\ Completed(op, o).outcome = o
    /\ \A h \in Handlers, c \in Conns :
           [at |-> h, conn |-> c] \in [at : Handlers, conn : Conns]
    /\ \A c \in Conns : [conn |-> c, outcome |-> "pending"] \in Op
BY DEF Op, Completed

LEMMA WorkerShape ==
    ASSUME TypeOK, NEW w \in Workers, worker[w].at # "idle"
    PROVE  worker[w].at \in Handlers /\ worker[w].conn \in Conns
BY DEF TypeOK, Idle
-----------------------------------------------------------------------------
(* Types.                                                                  *)
LEMMA ApplicationTypes ==
    ASSUME TypeOK, Application
    PROVE  TypeOK'
<1> USE DEF TypeOK
<1>1. ASSUME NEW m \in {"plain", "secure"}, Start(m)
      PROVE  TypeOK'
  BY <1>1, Shapes DEF Start, AsyncAccept
<1>2. CASE Stop
  BY <1>2 DEF Stop
<1>3. CASE SendMessageToAllPeers
  BY <1>3 DEF SendMessageToAllPeers, AfterAsyncWrite
<1>4. ASSUME NEW c \in Conns, Write(c) \/ Close(c)
      PROVE  TypeOK'
  BY <1>4 DEF Write, Close, AfterAsyncWrite
<1> QED
  BY <1>1, <1>2, <1>3, <1>4 DEF Application

LEMMA TransportTypes ==
    ASSUME TypeOK, Transport
    PROVE  TypeOK'
<1> USE DEF TypeOK
<1>1. ASSUME NEW op \in accepts, ClientArrives(op)
      PROVE  TypeOK'
  BY <1>1, Shapes DEF ClientArrives
<1>2. ASSUME NEW op \in accepts, AcceptFails(op)
      PROVE  TypeOK'
  BY <1>2, Shapes DEF AcceptFails
<1>3. ASSUME NEW op \in handshakes, NEW o \in {"ok", "error"}, HandshakeEnds(op, o)
      PROVE  TypeOK'
  BY <1>3, Shapes DEF HandshakeEnds
<1>4. ASSUME NEW c \in Conns, ClientGoes(c) \/ ReadEnds(c) \/ WriteEnds(c)
      PROVE  TypeOK'
  BY <1>4 DEF ClientGoes, ReadEnds, WriteEnds
<1> QED
  BY <1>1, <1>2, <1>3, <1>4 DEF Transport

LEMMA AcceptTypes ==
    ASSUME TypeOK, NEW w \in Workers,
           Accepting(w) \/ AcceptCallbackThrows(w) \/ RearmThrows(w)
    PROVE  TypeOK'
<1> USE DEF TypeOK, Goto, Return, In, Handlers
<1>1. ASSUME NEW op \in accepts,
             AcceptFailed(w, op) \/ PlainAccepted(w, op) \/ SecureAccepted(w, op)
      PROVE  TypeOK'
  BY <1>1, Shapes DEF AcceptFailed, PlainAccepted, SecureAccepted
<1>2. ASSUME NEW op \in handshakes, HandleSslHandshake(w, op)
      PROVE  TypeOK'
  BY <1>2, Shapes DEF HandleSslHandshake
<1>3. CASE BeginChainedRead(w)
  BY <1>3, WorkerShape DEF BeginChainedRead
<1>4. CASE PushConnection(w)
  BY <1>4, WorkerShape DEF PushConnection
<1>5. CASE AcceptCallbackReturns(w)
  BY <1>5, WorkerShape DEF AcceptCallbackReturns
<1>6. CASE Rearm(w)
  BY <1>6, Shapes DEF Rearm, AsyncAccept
<1>7. CASE AcceptCallbackThrows(w)
  BY <1>7 DEF AcceptCallbackThrows
<1>8. CASE RearmThrows(w)
  BY <1>8 DEF RearmThrows
<1> QED
  BY <1>1, <1>2, <1>3, <1>4, <1>5, <1>6, <1>7, <1>8 DEF Accepting

LEMMA ReadTypes ==
    ASSUME TypeOK, NEW w \in Workers, Reading(w) \/ ReadCallbackThrows(w)
    PROVE  TypeOK'
<1> USE DEF TypeOK, Goto, Return, In, Handlers
<1>1. ASSUME NEW c \in Conns, ReadSomeHandler(w, c) \/ ReadFailed(w, c)
      PROVE  TypeOK'
  BY <1>1, Shapes DEF ReadSomeHandler, ReadFailed
<1>2. ASSUME NEW c \in Conns, DanglingRead(w, c)
      PROVE  TypeOK'
  BY <1>2 DEF DanglingRead
<1>3. CASE ReadCallbackReturns(w)
  BY <1>3, WorkerShape DEF ReadCallbackReturns
<1>4. CASE ErrorHandler(w)
  BY <1>4, WorkerShape DEF ErrorHandler
<1>5. CASE ReadCallbackThrows(w)
  BY <1>5, WorkerShape DEF ReadCallbackThrows
<1> QED
  BY <1>1, <1>2, <1>3, <1>4, <1>5 DEF Reading, ReadHandlers

LEMMA TypesStep ==
    ASSUME TypeOK, [Next]_vars
    PROVE  TypeOK'
<1>1. CASE UNCHANGED vars
  BY <1>1 DEF vars, TypeOK
<1> QED
  BY <1>1, ApplicationTypes, TransportTypes, AcceptTypes, ReadTypes
     DEF Next, Handler, Throw
-----------------------------------------------------------------------------
(* The accept chain.                                                       *)

(* A step that leaves the chain's accept alone, and every thread's part in *)
(* it, leaves the chain as it is.                                          *)
LEMMA ChainKept ==
    ASSUME Chain, mode # "idle",
           mode' = mode \/ mode' \in {"stopped", "crashed"},
           accepts' = accepts, acceptLost' = acceptLost,
           mode = "plain" => handshakes' = handshakes,
           \A w \in Workers : Rearming(w)' <=> Rearming(w)
    PROVE  Chain'
BY DEF Chain, NoneRearms, Running

LEMMA OneAccept ==
    ASSUME accepts = {}, AsyncAccept
    PROVE  \E op \in Op : accepts' = {op}
<1>1. PICK c \in Conns : accepts' = {[conn |-> c, outcome |-> "pending"]}
  BY DEF AsyncAccept
<1> QED
  BY <1>1, Shapes

LEMMA ApplicationChain ==
    ASSUME TypeOK, Chain, Application
    PROVE  Chain'
<1>1. ASSUME NEW m \in {"plain", "secure"}, Start(m)
      PROVE  Chain'
  <2>1. /\ accepts = {} /\ handshakes' = {} /\ ~acceptLost'
        /\ \A v \in Workers : worker'[v].at = "idle"
    BY <1>1 DEF Start, Chain, Idle
  <2>2. PICK op \in Op : accepts' = {op}
    BY <1>1, <2>1, OneAccept DEF Start
  <2> QED
    BY <1>1, <2>1, <2>2 DEF Start, Chain, NoneRearms, Running, Rearming
<1>2. CASE Stop
  BY <1>2 DEF Stop, Chain, Running
<1>3. ASSUME NEW c \in Conns, SendMessageToAllPeers \/ Write(c) \/ Close(c)
      PROVE  Chain'
  BY <1>3, ChainKept DEF SendMessageToAllPeers, Write, Close, Running, Rearming
<1>4. CASE SendMessageToAllPeers
  BY <1>4, ChainKept DEF SendMessageToAllPeers, Running, Rearming
<1> QED
  BY <1>1, <1>2, <1>3, <1>4 DEF Application

LEMMA TransportChain ==
    ASSUME TypeOK, Chain, Transport
    PROVE  Chain'
<1>1. ASSUME NEW op \in accepts, ClientArrives(op) \/ AcceptFails(op)
      PROVE  Chain'
  <2>1. PICK o \in {"ok", "error"} :
            accepts' = (accepts \ {op}) \cup {Completed(op, o)}
    BY <1>1 DEF ClientArrives, AcceptFails
  <2>2. Completed(op, o) \in Op
    BY Shapes DEF TypeOK
  <2>3. /\ Running /\ mode' = mode /\ acceptLost' = acceptLost
        /\ handshakes' = handshakes /\ worker' = worker
    BY <1>1 DEF ClientArrives, AcceptFails
  <2>4. accepts = {op} /\ ~acceptLost /\ NoneRearms
    BY <2>3 DEF Chain
  <2>5. accepts' = {Completed(op, o)}
    BY <2>1, <2>4
  <2>6. NoneRearms' /\ Running'
    BY <2>3, <2>4 DEF NoneRearms, Rearming, Running
  <2> QED
    BY <2>2, <2>3, <2>4, <2>5, <2>6 DEF Chain, Running
<1>2. ASSUME NEW op \in handshakes, NEW o \in {"ok", "error"}, HandshakeEnds(op, o)
      PROVE  Chain'
  <2>1. mode # "plain"
    BY DEF Chain
  <2> QED
    BY <1>2, <2>1, ChainKept DEF HandshakeEnds, Running, Rearming
<1>3. ASSUME NEW c \in Conns, ClientGoes(c) \/ ReadEnds(c) \/ WriteEnds(c)
      PROVE  Chain'
  BY <1>3, ChainKept DEF ClientGoes, ReadEnds, WriteEnds, Running, Rearming
<1> QED
  BY <1>1, <1>2, <1>3 DEF Transport

LEMMA AcceptChainStep ==
    ASSUME TypeOK, Chain, NEW w \in Workers,
           Accepting(w) \/ AcceptCallbackThrows(w) \/ RearmThrows(w)
    PROVE  Chain'
<1> USE DEF Chain, NoneRearms, Running, Rearming, In, Goto, Return, Idle, TypeOK
<1>1. ASSUME NEW op \in accepts,
             AcceptFailed(w, op) \/ PlainAccepted(w, op) \/ SecureAccepted(w, op)
      PROVE  Chain'
  BY <1>1 DEF AcceptFailed, PlainAccepted, SecureAccepted
<1>2. ASSUME NEW op \in handshakes, HandleSslHandshake(w, op)
      PROVE  Chain'
  BY <1>2 DEF HandleSslHandshake
<1>3. CASE BeginChainedRead(w)
  BY <1>3 DEF BeginChainedRead
<1>4. CASE PushConnection(w)
  BY <1>4 DEF PushConnection
<1>5. CASE AcceptCallbackReturns(w)
  BY <1>5 DEF AcceptCallbackReturns
<1>6. CASE Rearm(w)
  <2>1. accepts = {} /\ ~acceptLost
    BY <1>6 DEF Rearm
  <2>2. PICK op \in Op : accepts' = {op}
    BY <1>6, <2>1, OneAccept DEF Rearm
  <2>3. NoneRearms'
    BY <1>6 DEF Rearm
  <2> QED
    BY <1>6, <2>1, <2>2, <2>3 DEF Rearm
<1>7. CASE AcceptCallbackThrows(w)
  BY <1>7 DEF AcceptCallbackThrows
<1>8. CASE RearmThrows(w)
  BY <1>8 DEF RearmThrows
<1> QED
  BY <1>1, <1>2, <1>3, <1>4, <1>5, <1>6, <1>7, <1>8 DEF Accepting

LEMMA ReadChain ==
    ASSUME TypeOK, Chain, NEW w \in Workers, Reading(w) \/ ReadCallbackThrows(w)
    PROVE  Chain'
<1>1. /\ mode # "idle"
      /\ mode' = mode \/ mode' = "crashed"
      /\ accepts' = accepts /\ acceptLost' = acceptLost /\ handshakes' = handshakes
  BY DEF Reading, ReadHandlers, ReadSomeHandler, ReadFailed, DanglingRead,
         ReadCallbackReturns, ErrorHandler, ReadCallbackThrows, In, Running
<1>2. /\ worker[w].at \in {"idle", "read_callback", "error"}
      /\ worker'[w].at \in {"idle", "read_callback", "error"}
      /\ \A v \in Workers \ {w} : worker'[v] = worker[v]
  BY DEF Reading, ReadHandlers, ReadSomeHandler, ReadFailed, DanglingRead,
         ReadCallbackReturns, ErrorHandler, ReadCallbackThrows, In, Goto, Return,
         Idle, TypeOK
<1>3. mode' = mode => \A v \in Workers : Rearming(v)' <=> Rearming(v)
  BY <1>1, <1>2 DEF Rearming
<1>4. CASE mode' = mode
  BY <1>1, <1>3, <1>4, ChainKept
<1>5. CASE mode' = "crashed"
  BY <1>5 DEF Chain, Running
<1> QED
  BY <1>1, <1>4, <1>5

LEMMA ChainStep ==
    ASSUME TypeOK, Chain, [Next]_vars
    PROVE  Chain'
<1>1. CASE UNCHANGED vars
  BY <1>1 DEF vars, Chain, NoneRearms, Running, Rearming
<1> QED
  BY <1>1, ApplicationChain, TransportChain, AcceptChainStep, ReadChain
     DEF Next, Handler, Throw
-----------------------------------------------------------------------------
(* Clients arrive before their connections go anywhere, and what the       *)
(* application has been told of and is open is listed.                     *)
LEMMA ArrivedStep ==
    ASSUME TypeOK, Arrived, ToldClientsAreListed, Next
    PROVE  Arrived' /\ ToldClientsAreListed'
<1> USE DEF Arrived, ToldClientsAreListed
<1>1. ASSUME NEW m \in {"plain", "secure"}, Start(m)
      PROVE  Arrived' /\ ToldClientsAreListed'
  BY <1>1 DEF Start, AsyncAccept
<1>2. CASE Stop
  BY <1>2 DEF Stop, TypeOK
<1>3. CASE SendMessageToAllPeers \/ \E c \in Conns : Write(c)
  BY <1>3 DEF SendMessageToAllPeers, Write
<1>4. ASSUME NEW c \in Conns, Close(c)
      PROVE  Arrived' /\ ToldClientsAreListed'
  BY <1>4 DEF Close, TypeOK
<1>5. ASSUME NEW op \in accepts, ClientArrives(op)
      PROVE  Arrived' /\ ToldClientsAreListed'
  <2>1. /\ op \in Op /\ op.conn \in Conns /\ op.conn \notin told
        /\ Completed(op, "ok").conn = op.conn
        /\ Completed(op, "ok").outcome = "ok"
    BY <1>5, Shapes DEF ClientArrives, TypeOK
  <2>2. /\ client'[op.conn] = "up"
        /\ \A c \in Conns \ {op.conn} : client'[c] = client[c]
        /\ \A c \in Conns \ {op.conn} : PeerSocket'[c] = PeerSocket[c]
    BY <1>5, <2>1 DEF ClientArrives, TypeOK
  <2>3. \A p \in accepts' : p.outcome = "pending" => p \in accepts /\ p # op
    BY <1>5, <2>1 DEF ClientArrives
  <2>4. \A p \in accepts : p.outcome = "pending" /\ p # op => p.conn # op.conn
    BY <1>5 DEF ClientArrives, TypeOK, Op
  <2>5. \A p \in accepts' : p.outcome = "ok" =>
            p.conn = op.conn \/ (p \in accepts /\ client[p.conn] # "none")
    BY <1>5, <2>1 DEF ClientArrives
  <2>6. \A p \in accepts' : p.conn \in Conns
    BY <1>5, <2>1, Shapes DEF ClientArrives, TypeOK
  <2>7. /\ \A p \in accepts' : p.outcome = "pending" => client'[p.conn] = "none"
        /\ \A p \in accepts' : p.outcome = "ok" => client'[p.conn] # "none"
    BY <2>2, <2>3, <2>4, <2>5, <2>6
  <2>8. /\ handshakes' = handshakes /\ worker' = worker /\ told' = told
        /\ _peerConnections' = _peerConnections /\ mode' = mode
    BY <1>5 DEF ClientArrives
  <2>9. \A w \in Workers : worker[w].at \in Handlers => worker[w].conn \in Conns
    BY DEF TypeOK, Idle, Handlers
  <2>10. Arrived'
    BY <2>2, <2>7, <2>8, <2>9, Shapes DEF TypeOK, Handlers
  <2> QED
    BY <2>1, <2>2, <2>8, <2>10 DEF TypeOK
<1>6. ASSUME NEW op \in accepts, AcceptFails(op)
      PROVE  Arrived' /\ ToldClientsAreListed'
  BY <1>6, Shapes DEF AcceptFails, TypeOK
<1>7. ASSUME NEW op \in handshakes, NEW o \in {"ok", "error"}, HandshakeEnds(op, o)
      PROVE  Arrived' /\ ToldClientsAreListed'
  BY <1>7, Shapes DEF HandshakeEnds, TypeOK
<1>8. ASSUME NEW c \in Conns, ClientGoes(c)
      PROVE  Arrived' /\ ToldClientsAreListed'
  <2>1. \A d \in Conns : client'[d] = "none" <=> client[d] = "none"
    BY <1>8 DEF ClientGoes, TypeOK
  <2>2. \A w \in Workers : worker[w].at \in Handlers => worker[w].conn \in Conns
    BY DEF TypeOK, Idle, Handlers
  <2> QED
    BY <1>8, <2>1, <2>2, Shapes DEF ClientGoes, TypeOK, Handlers
<1>9. ASSUME NEW c \in Conns, ReadEnds(c) \/ WriteEnds(c)
      PROVE  Arrived' /\ ToldClientsAreListed'
  BY <1>9 DEF ReadEnds, WriteEnds, TypeOK
<1>10. ASSUME NEW w \in Workers, Handler(w) \/ Throw(w)
       PROVE  Arrived' /\ ToldClientsAreListed'
  <2> USE DEF In, Goto, Return, Idle, TypeOK
  <2>1. ASSUME NEW op \in accepts,
               AcceptFailed(w, op) \/ PlainAccepted(w, op) \/ SecureAccepted(w, op)
        PROVE  Arrived' /\ ToldClientsAreListed'
    BY <2>1, Shapes DEF AcceptFailed, PlainAccepted, SecureAccepted
  <2>2. ASSUME NEW op \in handshakes, HandleSslHandshake(w, op)
        PROVE  Arrived' /\ ToldClientsAreListed'
    BY <2>2, Shapes DEF HandleSslHandshake
  <2>3. CASE BeginChainedRead(w)
    BY <2>3 DEF BeginChainedRead
  <2>4. CASE PushConnection(w)
    BY <2>4 DEF PushConnection, Running
  <2>5. CASE AcceptCallbackReturns(w) \/ AcceptCallbackThrows(w)
    BY <2>5 DEF AcceptCallbackReturns, AcceptCallbackThrows
  <2>6. CASE Rearm(w) \/ RearmThrows(w)
    BY <2>6 DEF Rearm, RearmThrows, AsyncAccept
  <2>7. CASE \E c \in Conns : ReadHandlers(w, c)
    BY <2>7 DEF ReadHandlers, ReadSomeHandler, ReadFailed, DanglingRead, Running
  <2>8. CASE ReadCallbackReturns(w) \/ ReadCallbackThrows(w)
    BY <2>8 DEF ReadCallbackReturns, ReadCallbackThrows
  <2>9. CASE ErrorHandler(w)
    BY <2>9, WorkerShape DEF ErrorHandler
  <2> QED
    BY <1>10, <2>1, <2>2, <2>3, <2>4, <2>5, <2>6, <2>7, <2>8, <2>9
       DEF Handler, Throw, Accepting, Reading
<1> QED
  BY <1>1, <1>2, <1>3, <1>4, <1>5, <1>6, <1>7, <1>8, <1>9, <1>10
     DEF Next, Application, Transport
-----------------------------------------------------------------------------
(* What is listed, or about to be, is read.                                *)

(* A step that opens no socket, lists no connection that was not about to  *)
(* be listed, and ends no read, keeps the rest.                            *)
LEMMA AreReadKept ==
    ASSUME TypeOK, AreRead,
           readLost \subseteq readLost',
           \A c \in Conns : PeerSocket'[c] = "open" => PeerSocket[c] = "open",
           \A c \in Conns : c \in _peerConnections' \/ Opening(c)'
                                => c \in _peerConnections \/ Opening(c),
           \A c \in Conns : ReadHandler(c) => ReadHandler(c)'
    PROVE  AreRead'
BY DEF AreRead

LEMMA ApplicationReads ==
    ASSUME TypeOK, AreRead, Application
    PROVE  AreRead'
<1>1. /\ readLost' = readLost /\ worker' = worker /\ read' = read
      /\ _peerConnections' = _peerConnections
      /\ \A c \in Conns : PeerSocket'[c] = "open" => PeerSocket[c] = "open"
  BY DEF Application, Start, Stop, SendMessageToAllPeers, Write, Close, TypeOK
<1> QED
  BY <1>1, AreReadKept DEF Opening, ReadHandler, HandlesRead

LEMMA TransportReads ==
    ASSUME TypeOK, Arrived, AreRead, Transport
    PROVE  AreRead'
<1>1. ASSUME NEW op \in accepts, ClientArrives(op)
      PROVE  AreRead'
  <2>1. /\ readLost' = readLost /\ worker' = worker /\ read' = read
        /\ _peerConnections' = _peerConnections
        /\ \A c \in Conns \ {op.conn} : PeerSocket'[c] = PeerSocket[c]
    BY <1>1, Shapes DEF ClientArrives, TypeOK
  <2>2. op.conn \notin _peerConnections /\ ~Opening(op.conn)
    BY <1>1 DEF ClientArrives, Arrived, Opening
  <2> QED
    BY <2>1, <2>2 DEF AreRead, Opening, ReadHandler, HandlesRead
<1>2. ASSUME NEW op \in accepts, AcceptFails(op)
      PROVE  AreRead'
  BY <1>2, AreReadKept DEF AcceptFails, Opening, ReadHandler, HandlesRead
<1>3. ASSUME NEW op \in handshakes, NEW o \in {"ok", "error"}, HandshakeEnds(op, o)
      PROVE  AreRead'
  BY <1>3, AreReadKept DEF HandshakeEnds, Opening, ReadHandler, HandlesRead
<1>4. ASSUME NEW c \in Conns, ClientGoes(c) \/ ReadEnds(c) \/ WriteEnds(c)
      PROVE  AreRead'
  BY <1>4, AreReadKept DEF ClientGoes, ReadEnds, WriteEnds, Opening, ReadHandler, HandlesRead, TypeOK
<1> QED
  BY <1>1, <1>2, <1>3, <1>4 DEF Transport

LEMMA AcceptReads ==
    ASSUME TypeOK, AreRead, NEW w \in Workers,
           Accepting(w) \/ AcceptCallbackThrows(w) \/ RearmThrows(w)
    PROVE  AreRead'
<1>1. ASSUME NEW op \in accepts \cup handshakes,
             \/ AcceptFailed(w, op) \/ PlainAccepted(w, op)
             \/ SecureAccepted(w, op) \/ HandleSslHandshake(w, op)
      PROVE  AreRead'
  <2>1. /\ readLost' = readLost /\ read' = read
        /\ _peerConnections' = _peerConnections
        /\ worker[w].at = "idle"
        /\ worker'[w].at \in {"idle", "rearm", "begin_read"}
        /\ \A v \in Workers \ {w} : worker'[v] = worker[v]
        /\ \A c \in Conns : PeerSocket'[c] = "open" => PeerSocket[c] = "open"
    BY <1>1, Shapes DEF AcceptFailed, PlainAccepted, SecureAccepted, HandleSslHandshake,
                        In, Goto, TypeOK
  <2> QED
    BY <2>1, AreReadKept DEF Opening, ReadHandler, HandlesRead
<1>2. CASE BeginChainedRead(w)
  <2> DEFINE d == worker[w].conn
  <2>1. /\ readLost' = readLost /\ PeerSocket' = PeerSocket
        /\ _peerConnections' = _peerConnections
        /\ worker[w].at = "begin_read"
        /\ worker'[w] = [at |-> "push", conn |-> d]
        /\ \A v \in Workers \ {w} : worker'[v] = worker[v]
        /\ read'[d] = "pending"
        /\ \A c \in Conns \ {d} : read'[c] = read[c]
    BY <1>2, WorkerShape DEF BeginChainedRead, In, Goto, TypeOK
  <2>2. \A c \in Conns : ReadHandler(c) => ReadHandler(c)'
    BY <2>1 DEF ReadHandler, HandlesRead
  <2> QED
    BY <2>1, <2>2 DEF AreRead, Opening, ReadHandler, HandlesRead
<1>3. CASE PushConnection(w)
  <2> DEFINE d == worker[w].conn
  <2>1. /\ readLost' = readLost /\ PeerSocket' = PeerSocket /\ read' = read
        /\ _peerConnections' = _peerConnections \cup {d}
        /\ worker[w].at = "push"
        /\ worker'[w] = [at |-> "accept_callback", conn |-> d]
        /\ \A v \in Workers \ {w} : worker'[v] = worker[v]
        /\ Opening(d)
    BY <1>3, WorkerShape DEF PushConnection, In, Goto, TypeOK, Opening
  <2>2. \A c \in Conns : ReadHandler(c) => ReadHandler(c)'
    BY <2>1 DEF ReadHandler, HandlesRead
  <2>3. \A c \in Conns : c \in _peerConnections' \/ Opening(c)'
                             => c \in _peerConnections \/ Opening(c)
    BY <2>1 DEF Opening
  <2> QED
    BY <2>1, <2>2, <2>3, AreReadKept
<1>4. CASE AcceptCallbackReturns(w) \/ AcceptCallbackThrows(w) \/ Rearm(w) \/ RearmThrows(w)
  <2>1. /\ readLost' = readLost /\ PeerSocket' = PeerSocket /\ read' = read
        /\ _peerConnections' = _peerConnections
        /\ worker[w].at \in {"accept_callback", "rearm"}
        /\ worker'[w].at \in {"idle", "rearm"}
        /\ \A v \in Workers \ {w} : worker'[v] = worker[v]
    BY <1>4 DEF AcceptCallbackReturns, AcceptCallbackThrows, Rearm, RearmThrows,
                In, Goto, Return, TypeOK, Idle
  <2> QED
    BY <2>1, AreReadKept DEF Opening, ReadHandler, HandlesRead
<1> QED
  BY <1>1, <1>2, <1>3, <1>4 DEF Accepting

LEMMA ReadReads ==
    ASSUME TypeOK, AreRead, NEW w \in Workers, Reading(w) \/ ReadCallbackThrows(w)
    PROVE  AreRead'
<1>1. ASSUME NEW c \in Conns, ReadSomeHandler(w, c) \/ ReadFailed(w, c)
      PROVE  AreRead'
  <2>1. /\ readLost' = readLost /\ PeerSocket' = PeerSocket
        /\ _peerConnections' = _peerConnections
        /\ worker[w].at = "idle"
        /\ worker'[w].at \in {"read_callback", "error"}
        /\ worker'[w].conn = c
        /\ \A v \in Workers \ {w} : worker'[v] = worker[v]
        /\ \A d \in Conns \ {c} : read'[d] = read[d]
    BY <1>1, Shapes DEF ReadSomeHandler, ReadFailed, In, Goto, TypeOK
  <2>2. \A d \in Conns : ReadHandler(d) => ReadHandler(d)'
    BY <2>1 DEF ReadHandler, HandlesRead
  <2> QED
    BY <2>1, <2>2, AreReadKept DEF Opening
<1>2. CASE ReadCallbackReturns(w)
  <2> DEFINE c == worker[w].conn
  <2>1. /\ readLost' = readLost /\ PeerSocket' = PeerSocket
        /\ _peerConnections' = _peerConnections
        /\ worker[w].at = "read_callback"
        /\ worker'[w].at = "idle"
        /\ \A v \in Workers \ {w} : worker'[v] = worker[v]
        /\ read'[c] = "pending"
        /\ \A d \in Conns \ {c} : read'[d] = read[d]
    BY <1>2, WorkerShape DEF ReadCallbackReturns, In, Return, TypeOK, Idle
  <2>2. \A d \in Conns : ReadHandler(d) => ReadHandler(d)'
    BY <2>1 DEF ReadHandler, HandlesRead
  <2> QED
    BY <2>1, <2>2, AreReadKept DEF Opening
<1>3. ASSUME NEW c \in Conns, DanglingRead(w, c)
      PROVE  AreRead'
  <2>1. /\ readLost' = readLost /\ PeerSocket' = PeerSocket
        /\ _peerConnections' = _peerConnections
        /\ worker[w].at \in {"idle", "read_callback"}
        /\ worker'[w].at = "idle"
        /\ worker[w].at = "read_callback" => worker[w].conn = c
        /\ \A v \in Workers \ {w} : worker'[v] = worker[v]
        /\ \A d \in Conns \ {c} : read'[d] = read[d]
    BY <1>3 DEF DanglingRead, In, Return, TypeOK, Idle
  <2>2. c \notin _peerConnections /\ ~Opening(c)
    BY <1>3 DEF DanglingRead, Alive, Opening
  <2>3. \A d \in Conns \ {c} : ReadHandler(d) => ReadHandler(d)'
    BY <2>1 DEF ReadHandler, HandlesRead
  <2> QED
    BY <2>1, <2>2, <2>3 DEF AreRead, Opening
<1>4. CASE ErrorHandler(w)
  <2> DEFINE c == worker[w].conn
  <2>1. /\ readLost' = readLost /\ read' = read /\ c \in Conns
        /\ _peerConnections' \subseteq _peerConnections
        /\ worker[w].at = "error"
        /\ worker'[w].at = "idle"
        /\ \A v \in Workers \ {w} : worker'[v] = worker[v]
        /\ PeerSocket'[c] = "closed"
        /\ \A d \in Conns \ {c} : PeerSocket'[d] = PeerSocket[d]
    BY <1>4, WorkerShape DEF ErrorHandler, In, Return, TypeOK, Idle
  <2>2. \A d \in Conns \ {c} : ReadHandler(d) => ReadHandler(d)'
    BY <2>1 DEF ReadHandler, HandlesRead
  <2> QED
    BY <2>1, <2>2 DEF AreRead, Opening
<1>5. CASE ReadCallbackThrows(w)
  <2> DEFINE c == worker[w].conn
  <2>1. /\ readLost' = readLost \cup {c} /\ PeerSocket' = PeerSocket /\ read' = read
        /\ _peerConnections' = _peerConnections
        /\ worker[w].at = "read_callback"
        /\ worker'[w].at = "idle"
        /\ \A v \in Workers \ {w} : worker'[v] = worker[v]
    BY <1>5, WorkerShape DEF ReadCallbackThrows, In, Return, TypeOK, Idle
  <2>2. \A d \in Conns \ {c} : ReadHandler(d) => ReadHandler(d)'
    BY <2>1 DEF ReadHandler, HandlesRead
  <2> QED
    BY <2>1, <2>2 DEF AreRead, Opening
<1> QED
  BY <1>1, <1>2, <1>3, <1>4, <1>5 DEF Reading, ReadHandlers

LEMMA ReadsStep ==
    ASSUME TypeOK, Arrived, AreRead, Next
    PROVE  AreRead'
BY ApplicationReads, TransportReads, AcceptReads, ReadReads DEF Next, Handler, Throw
-----------------------------------------------------------------------------
LEMMA NextIInv == IInv /\ [Next]_vars => IInv'
<1> SUFFICES ASSUME IInv, [Next]_vars PROVE IInv'
  OBVIOUS
<1>1. TypeOK' /\ Chain'
  BY TypesStep, ChainStep DEF IInv
<1>2. Arrived' /\ ToldClientsAreListed' /\ AreRead'
  <2>1. CASE Next
    BY <2>1, ArrivedStep, ReadsStep DEF IInv
  <2>2. CASE UNCHANGED vars
    BY <2>2 DEF IInv, vars, Arrived, ToldClientsAreListed, AreRead, Opening, ReadHandler, HandlesRead
  <2> QED
    BY <2>1, <2>2
<1> QED
  BY <1>1, <1>2 DEF IInv

(* The types, the accept chain and the state of every connection hold      *)
(* together in every state.                                                *)
THEOREM ServerInvariance == Spec => []IInv
BY InitIInv, NextIInv, PTL DEF Spec

(* A server that runs has one accept outstanding or one thread in the      *)
(* handler that posts it, never two, until an exception breaks the chain   *)
(* (TcpServer.cpp:108-236).                                                *)
THEOREM AcceptChainGoesOn == Spec => []AcceptChain
<1>1. IInv => AcceptChain
  <2> SUFFICES ASSUME IInv, Running PROVE AcceptChain
    BY DEF AcceptChain
  <2> DEFINE R == {w \in Workers : Rearming(w)}
  <2>1. ASSUME accepts = {}, R = {}
        PROVE  Cardinality(accepts) + Cardinality(R) = 0
    BY <2>1, FS_EmptySet
  <2>2. ASSUME NEW op, accepts = {op}, R = {}
        PROVE  Cardinality(accepts) + Cardinality(R) = 1
    <3>1. Cardinality({op}) = 1 /\ Cardinality({}) = 0
      BY FS_EmptySet, FS_Singleton
    <3> HIDE DEF R
    <3> QED
      BY <2>2, <3>1
  <2>3. ASSUME NEW w, accepts = {}, R = {w}
        PROVE  Cardinality(accepts) + Cardinality(R) = 1
    <3>1. Cardinality({w}) = 1 /\ Cardinality({}) = 0
      BY FS_EmptySet, FS_Singleton
    <3> HIDE DEF R
    <3> QED
      BY <2>3, <3>1
  <2>4. CASE acceptLost
    BY <2>1, <2>4 DEF IInv, Chain, NoneRearms, AcceptChain
  <2>5. CASE ~acceptLost
    <3>1. \/ R = {} /\ \E op \in Op : accepts = {op}
          \/ accepts = {} /\ \E w \in Workers : R = {w}
      BY <2>5 DEF IInv, Chain, NoneRearms
    <3> QED
      BY <2>2, <2>3, <2>5, <3>1 DEF AcceptChain
  <2> QED
    BY <2>4, <2>5
<1> QED
  BY <1>1, ServerInvariance, PTL

(* Every listed connection whose socket is open is being read, unless its  *)
(* callback threw (TcpServer.cpp:108-126, 253-271).                        *)
THEOREM ListedConnectionsAreRead == Spec => []OpenPeersAreRead
<1>1. IInv => OpenPeersAreRead
  BY DEF IInv, TypeOK, AreRead, OpenPeersAreRead
<1> QED
  BY <1>1, ServerInvariance, PTL

(* A client the application knows of is in the list the broadcast goes     *)
(* through, and closed by Stop, while its socket is open.                  *)
THEOREM KnownClientsAreListed == Spec => []ToldClientsAreListed
<1>1. IInv => ToldClientsAreListed
  BY DEF IInv
<1> QED
  BY <1>1, ServerInvariance, PTL
-----------------------------------------------------------------------------
(* The way of a connection.  It is in one place at a time: an accept, a    *)
(* handshake, or a thread on its way to tell the application, which does   *)
(* not know it yet.                                                        *)
Upcoming(w, c) == worker[w].conn = c /\ worker[w].at \in {"begin_read", "push"}

Ways ==
    /\ \A p \in accepts, q \in handshakes : p.conn # q.conn
    /\ \A p, q \in handshakes : p.conn = q.conn => p = q
    /\ \A p \in accepts \cup handshakes :
           p.conn \notin told /\ \A w \in Workers : ~Upcoming(w, p.conn)
    /\ \A c \in Conns, v, w \in Workers :
           Upcoming(v, c) /\ Upcoming(w, c) => v = w
    /\ \A c \in Conns, w \in Workers : Upcoming(w, c) => c \notin told

(* A connection is read when the application knows it, or is about to.     *)
BeingPushed(c) == \E w \in Workers :
                      worker[w].conn = c /\ worker[w].at = "push"

Begun == \A c \in Conns : ReadHandler(c) => c \in told \/ BeingPushed(c)

WayInv == Ways /\ Begun /\ OneReadHandler

(* A step that neither accepts nor reads.                                  *)
LEMMA WaysKept ==
    ASSUME WayInv, accepts' = accepts, handshakes' = handshakes,
           worker' = worker, told' = told,
           \A c \in Conns : read'[c] = "none" <=> read[c] = "none"
    PROVE  WayInv'
BY DEF WayInv, Ways, Upcoming, Begun, BeingPushed, OneReadHandler, ReadHandler,
       HandlesRead

LEMMA ApplicationWays ==
    ASSUME IInv, WayInv, Application
    PROVE  WayInv'
<1>1. ASSUME NEW m \in {"plain", "secure"}, Start(m)
      PROVE  WayInv'
  <2>1. /\ accepts = {} /\ handshakes = {}
        /\ \A w \in Workers : worker[w].at = "idle"
    BY <1>1 DEF Start, IInv, Chain, Idle
  <2>2. PICK c \in Conns : /\ client[c] = "none"
                           /\ accepts' = {[conn |-> c, outcome |-> "pending"]}
    BY <1>1, <2>1 DEF Start, AsyncAccept
  <2>3. c \notin told
    BY <2>2 DEF IInv, Arrived
  <2>4. UNCHANGED <<handshakes, worker, told, read>>
    BY <1>1 DEF Start
  <2>5. Ways'
    BY <2>1, <2>2, <2>3, <2>4 DEF Ways, Upcoming
  <2>6. Begun' /\ OneReadHandler'
    BY <2>4 DEF WayInv, Begun, BeingPushed, OneReadHandler, ReadHandler,
                HandlesRead
  <2> QED
    BY <2>5, <2>6 DEF WayInv
<1>2. CASE Stop \/ SendMessageToAllPeers \/ \E c \in Conns : Write(c) \/ Close(c)
  BY <1>2, WaysKept DEF Stop, SendMessageToAllPeers, Write, Close
<1> QED
  BY <1>1, <1>2 DEF Application

LEMMA TransportWays ==
    ASSUME IInv, WayInv, Transport
    PROVE  WayInv'
<1>1. ASSUME NEW op \in accepts, ClientArrives(op) \/ AcceptFails(op)
      PROVE  WayInv'
  <2>1. PICK o \in {"ok", "error"} :
            accepts' = (accepts \ {op}) \cup {Completed(op, o)}
    BY <1>1 DEF ClientArrives, AcceptFails
  <2>2. Completed(op, o).conn = op.conn
    BY Shapes DEF IInv, TypeOK
  <2>3. UNCHANGED <<handshakes, worker, told, read>>
    BY <1>1 DEF ClientArrives, AcceptFails
  <2>4. Ways'
    BY <2>1, <2>2, <2>3 DEF WayInv, Ways, Upcoming
  <2>5. Begun' /\ OneReadHandler'
    BY <2>3 DEF WayInv, Begun, BeingPushed, OneReadHandler, ReadHandler,
                HandlesRead
  <2> QED
    BY <2>4, <2>5 DEF WayInv
<1>2. ASSUME NEW op \in handshakes, NEW o \in {"ok", "error"}, HandshakeEnds(op, o)
      PROVE  WayInv'
  <2>1. handshakes' = (handshakes \ {op}) \cup {Completed(op, o)}
    BY <1>2 DEF HandshakeEnds
  <2>2. Completed(op, o).conn = op.conn
    BY Shapes DEF IInv, TypeOK
  <2>3. UNCHANGED <<accepts, worker, told, read>>
    BY <1>2 DEF HandshakeEnds
  <2>4. Ways'
    BY <2>1, <2>2, <2>3 DEF WayInv, Ways, Upcoming
  <2>5. Begun' /\ OneReadHandler'
    BY <2>3 DEF WayInv, Begun, BeingPushed, OneReadHandler, ReadHandler,
                HandlesRead
  <2> QED
    BY <2>4, <2>5 DEF WayInv
<1>3. ASSUME NEW c \in Conns, ClientGoes(c) \/ ReadEnds(c) \/ WriteEnds(c)
      PROVE  WayInv'
  BY <1>3, WaysKept DEF ClientGoes, ReadEnds, WriteEnds, IInv, TypeOK
<1> QED
  BY <1>1, <1>2, <1>3 DEF Transport

LEMMA AcceptWays ==
    ASSUME IInv, WayInv, NEW w \in Workers,
           Accepting(w) \/ AcceptCallbackThrows(w) \/ RearmThrows(w)
    PROVE  WayInv'
<1> USE DEF IInv, TypeOK
<1>1. ASSUME NEW op \in accepts,
             AcceptFailed(w, op) \/ PlainAccepted(w, op) \/ SecureAccepted(w, op)
      PROVE  WayInv'
  <2>1. accepts = {op} /\ op.conn \in Conns /\ accepts' = {}
    <3>1. Running
      BY <1>1 DEF AcceptFailed, PlainAccepted, SecureAccepted, In
    <3> QED
      BY <1>1, <3>1, Shapes DEF Chain, AcceptFailed, PlainAccepted,
                                SecureAccepted
  <2>2. /\ worker[w].at = "idle"
        /\ \A v \in Workers \ {w} : worker'[v] = worker[v]
        /\ \/ worker'[w].at = "rearm" /\ handshakes' = handshakes
           \/ worker'[w] = [at |-> "begin_read", conn |-> op.conn]
              /\ handshakes' = handshakes
           \/ worker'[w].at = "rearm"
              /\ handshakes' = handshakes \cup {Completed(op, "pending")}
    BY <1>1 DEF AcceptFailed, PlainAccepted, SecureAccepted, In, Goto
  <2>3. UNCHANGED <<told, read>>
    BY <1>1 DEF AcceptFailed, PlainAccepted, SecureAccepted
  <2>4. Completed(op, "pending").conn = op.conn
    BY Shapes
  <2>5. Ways'
    BY <2>1, <2>2, <2>3, <2>4 DEF WayInv, Ways, Upcoming
  <2>6. Begun' /\ OneReadHandler'
    BY <2>2, <2>3 DEF WayInv, Begun, BeingPushed, OneReadHandler, ReadHandler,
                      HandlesRead
  <2> QED
    BY <2>5, <2>6 DEF WayInv
<1>2. ASSUME NEW op \in handshakes, HandleSslHandshake(w, op)
      PROVE  WayInv'
  <2>1. op.conn \in Conns /\ handshakes' = handshakes \ {op}
    BY <1>2, Shapes DEF HandleSslHandshake
  <2>2. /\ worker[w].at = "idle"
        /\ \A v \in Workers \ {w} : worker'[v] = worker[v]
        /\ \/ worker'[w] = worker[w]
           \/ worker'[w] = [at |-> "begin_read", conn |-> op.conn]
    BY <1>2 DEF HandleSslHandshake, In, Goto
  <2>3. UNCHANGED <<told, read, accepts>>
    BY <1>2 DEF HandleSslHandshake
  <2>4. Ways'
    BY <2>1, <2>2, <2>3 DEF WayInv, Ways, Upcoming
  <2>5. Begun' /\ OneReadHandler'
    BY <2>2, <2>3 DEF WayInv, Begun, BeingPushed, OneReadHandler, ReadHandler,
                      HandlesRead
  <2> QED
    BY <2>4, <2>5 DEF WayInv
<1>3. CASE BeginChainedRead(w)
  <2>0. PICK d \in Conns : d = worker[w].conn
    BY <1>3, WorkerShape DEF BeginChainedRead, In
  <2>1. /\ Upcoming(w, d)
        /\ worker[w].at = "begin_read"
        /\ worker'[w] = [at |-> "push", conn |-> d]
        /\ \A v \in Workers \ {w} : worker'[v] = worker[v]
    BY <1>3, <2>0 DEF BeginChainedRead, In, Goto, Upcoming
  <2>2. /\ UNCHANGED <<told, accepts, handshakes>>
        /\ read'[d] = "pending"
        /\ \A c \in Conns \ {d} : read'[c] = read[c]
    BY <1>3, <2>0 DEF BeginChainedRead
  <2>3. d \notin told /\ ~BeingPushed(d)
    BY <2>1 DEF WayInv, Ways, Upcoming, BeingPushed
  <2>4. \A v \in Workers : ~HandlesRead(v, d)
    BY <2>1, <2>3 DEF WayInv, Begun, ReadHandler
  <2>5. Ways'
    BY <2>1, <2>2 DEF WayInv, Ways, Upcoming
  <2>6. Begun'
    <3>1. BeingPushed(d)'
      BY <2>1 DEF BeingPushed
    <3>2. \A c \in Conns \ {d} : /\ ReadHandler(c)' <=> ReadHandler(c)
                                 /\ BeingPushed(c) => BeingPushed(c)'
      BY <2>1, <2>2 DEF ReadHandler, HandlesRead, BeingPushed
    <3>3. ASSUME NEW c \in Conns, ReadHandler(c)'
          PROVE  c \in told' \/ BeingPushed(c)'
      <4>1. CASE c = d
        BY <3>1, <4>1
      <4>2. CASE c # d
        BY <2>2, <3>2, <3>3, <4>2 DEF WayInv, Begun
      <4> QED
        BY <4>1, <4>2
    <3> QED
      BY <3>3 DEF Begun
  <2>7. OneReadHandler'
    <3>1. \A c \in Conns, v \in Workers : HandlesRead(v, c)' <=> HandlesRead(v, c)
      BY <2>1 DEF HandlesRead
    <3> QED
      BY <2>2, <2>4, <3>1 DEF WayInv, OneReadHandler
  <2> QED
    BY <2>5, <2>6, <2>7 DEF WayInv
<1>4. CASE PushConnection(w)
  <2> DEFINE d == worker[w].conn
  <2>1. /\ d \in Conns /\ Upcoming(w, d)
        /\ worker[w].at = "push"
        /\ worker'[w] = [at |-> "accept_callback", conn |-> d]
        /\ \A v \in Workers \ {w} : worker'[v] = worker[v]
    BY <1>4, WorkerShape DEF PushConnection, In, Goto, Upcoming
  <2>2. told' = told \cup {d} /\ UNCHANGED <<read, accepts, handshakes>>
    BY <1>4 DEF PushConnection
  <2>3. Ways'
    <3>1. \A c \in Conns, v \in Workers : Upcoming(v, c)' => Upcoming(v, c) /\ v # w
      BY <2>1 DEF Upcoming
    <3>2. \A p \in accepts \cup handshakes : p.conn \in Conns /\ p.conn # d
      BY <2>1, Shapes DEF WayInv, Ways
    <3>3. \A v \in Workers : Upcoming(v, d) => v = w
      BY <2>1 DEF WayInv, Ways
    <3> QED
      BY <2>1, <2>2, <3>1, <3>2, <3>3 DEF WayInv, Ways
  <2>4. Begun' /\ OneReadHandler'
    <3>1. \A c \in Conns, v \in Workers : HandlesRead(v, c)' <=> HandlesRead(v, c)
      BY <2>1 DEF HandlesRead
    <3>2. \A c \in Conns \ {d} : BeingPushed(c) => BeingPushed(c)'
      BY <2>1 DEF BeingPushed
    <3> QED
      BY <2>2, <3>1, <3>2 DEF WayInv, Begun, ReadHandler, OneReadHandler
  <2> QED
    BY <2>3, <2>4 DEF WayInv
<1>5. CASE AcceptCallbackReturns(w) \/ AcceptCallbackThrows(w) \/ RearmThrows(w)
  <2>1. /\ worker[w].at \in {"accept_callback", "rearm"}
        /\ worker'[w].at \in {"idle", "rearm"}
        /\ \A v \in Workers \ {w} : worker'[v] = worker[v]
    BY <1>5 DEF AcceptCallbackReturns, AcceptCallbackThrows, RearmThrows, In,
                Goto, Return, Idle
  <2>2. UNCHANGED <<told, read, accepts, handshakes>>
    BY <1>5 DEF AcceptCallbackReturns, AcceptCallbackThrows, RearmThrows
  <2> QED
    BY <2>1, <2>2 DEF WayInv, Ways, Upcoming, Begun, BeingPushed,
                      OneReadHandler, ReadHandler, HandlesRead
<1>6. CASE Rearm(w)
  <2>1. /\ worker[w].at = "rearm" /\ worker'[w].at = "idle"
        /\ \A v \in Workers \ {w} : worker'[v] = worker[v]
    BY <1>6 DEF Rearm, In, Return, Idle
  <2>2. accepts = {} /\ UNCHANGED <<told, read, handshakes>>
    BY <1>6 DEF Rearm, In, Chain, NoneRearms, Rearming
  <2>3. PICK c \in Conns : /\ client[c] = "none"
                           /\ accepts' = {[conn |-> c, outcome |-> "pending"]}
    BY <1>6, <2>2 DEF Rearm, AsyncAccept
  <2>4. /\ c \notin told
        /\ \A q \in handshakes : q.conn # c
        /\ \A v \in Workers : ~Upcoming(v, c)
    BY <2>3 DEF Arrived, Upcoming
  <2>5. Ways'
    BY <2>1, <2>2, <2>3, <2>4 DEF WayInv, Ways, Upcoming
  <2>6. Begun' /\ OneReadHandler'
    <3>1. \A d \in Conns, v \in Workers : HandlesRead(v, d)' <=> HandlesRead(v, d)
      BY <2>1 DEF HandlesRead
    <3>2. \A d \in Conns : BeingPushed(d)' <=> BeingPushed(d)
      BY <2>1 DEF BeingPushed
    <3> QED
      BY <2>2, <3>1, <3>2 DEF WayInv, Begun, OneReadHandler, ReadHandler
  <2> QED
    BY <2>5, <2>6 DEF WayInv
<1> QED
  BY <1>1, <1>2, <1>3, <1>4, <1>5, <1>6 DEF Accepting

LEMMA ReadWays ==
    ASSUME IInv, WayInv, NEW w \in Workers, Reading(w) \/ ReadCallbackThrows(w)
    PROVE  WayInv'
<1> USE DEF IInv, TypeOK
<1>1. UNCHANGED <<told, accepts, handshakes>>
  BY DEF Reading, ReadHandlers, ReadSomeHandler, ReadFailed, DanglingRead,
         ReadCallbackReturns, ErrorHandler, ReadCallbackThrows
<1>2. /\ worker[w].at \in {"idle", "read_callback", "error"}
      /\ worker'[w].at \in {"idle", "read_callback", "error"}
      /\ \A v \in Workers \ {w} : worker'[v] = worker[v]
  BY DEF Reading, ReadHandlers, ReadSomeHandler, ReadFailed, DanglingRead,
         ReadCallbackReturns, ErrorHandler, ReadCallbackThrows, In, Goto,
         Return, Idle
<1>3. Ways'
  BY <1>1, <1>2 DEF WayInv, Ways, Upcoming
<1>4. \A c \in Conns : BeingPushed(c)' <=> BeingPushed(c)
  BY <1>2 DEF BeingPushed
<1>5. ASSUME NEW c \in Conns, ReadSomeHandler(w, c) \/ ReadFailed(w, c)
      PROVE  Begun' /\ OneReadHandler'
  <2>1. /\ read[c] # "none" /\ read'[c] = "none"
        /\ \A d \in Conns \ {c} : read'[d] = read[d]
        /\ worker'[w].conn = c
    BY <1>5 DEF ReadSomeHandler, ReadFailed, Goto
  <2>2. \A v \in Workers : ~HandlesRead(v, c)
    BY <2>1 DEF WayInv, OneReadHandler
  <2>3. worker[w].at = "idle"
    BY <1>5 DEF ReadSomeHandler, ReadFailed, In
  <2>4. \A d \in Conns, v \in Workers :
            HandlesRead(v, d)' => (v = w /\ d = c) \/ (v # w /\ HandlesRead(v, d))
    BY <1>2, <2>1 DEF HandlesRead
  <2>5. OneReadHandler'
    BY <2>1, <2>2, <2>4 DEF WayInv, OneReadHandler
  <2>6. Begun'
    BY <1>1, <1>4, <2>1, <2>4 DEF WayInv, Begun, ReadHandler
  <2> QED
    BY <2>5, <2>6
<1>6. ASSUME worker'[w].at = "idle",
             \A d \in Conns : read'[d] # "none" =>
                 read[d] # "none" \/ HandlesRead(w, d)
      PROVE  Begun' /\ OneReadHandler'
  <2>1. \A d \in Conns, v \in Workers :
            HandlesRead(v, d)' => v # w /\ HandlesRead(v, d)
    BY <1>2, <1>6 DEF HandlesRead
  <2>2. OneReadHandler'
    BY <1>6, <2>1 DEF WayInv, OneReadHandler
  <2>3. Begun'
    BY <1>1, <1>4, <1>6, <2>1 DEF WayInv, Begun, ReadHandler
  <2> QED
    BY <2>2, <2>3
<1>7. CASE ReadCallbackReturns(w)
  <2> DEFINE c == worker[w].conn
  <2>1. worker'[w].at = "idle"
    BY <1>7 DEF ReadCallbackReturns, Return, Idle
  <2>2. HandlesRead(w, c) /\ \A d \in Conns \ {c} : read'[d] = read[d]
    BY <1>7 DEF ReadCallbackReturns, In, HandlesRead
  <2>3. \A d \in Conns : read'[d] # "none" => read[d] # "none" \/ HandlesRead(w, d)
    BY <2>2
  <2> QED
    BY <1>3, <1>6, <2>1, <2>3 DEF WayInv
<1>8. ASSUME NEW c \in Conns, DanglingRead(w, c)
      PROVE  Begun' /\ OneReadHandler'
  <2>1. worker'[w].at = "idle"
    BY <1>8 DEF DanglingRead, In, Return, Idle
  <2>2. \A d \in Conns : read'[d] # "none" => read[d] # "none"
    BY <1>8 DEF DanglingRead
  <2> QED
    BY <1>6, <2>1, <2>2
<1>9. CASE ErrorHandler(w) \/ ReadCallbackThrows(w)
  BY <1>3, <1>6, <1>9 DEF ErrorHandler, ReadCallbackThrows, Return, Idle, WayInv
<1> QED
  BY <1>3, <1>5, <1>7, <1>8, <1>9 DEF Reading, ReadHandlers, WayInv

LEMMA WaysInvariance == Spec => []WayInv
<1>1. Init => WayInv
  BY DEF Init, Idle, WayInv, Ways, Upcoming, Begun, OneReadHandler,
         ReadHandler, HandlesRead
<1>2. IInv /\ WayInv /\ [Next]_vars => WayInv'
  <2> SUFFICES ASSUME IInv, WayInv, [Next]_vars PROVE WayInv'
    OBVIOUS
  <2>1. CASE UNCHANGED vars
    BY <2>1, WaysKept DEF vars
  <2> QED
    BY <2>1, ApplicationWays, TransportWays, AcceptWays, ReadWays
       DEF Next, Handler, Throw
<1> QED
  BY <1>1, <1>2, ServerInvariance, PTL DEF Spec

(* One connection's reads are handled one at a time, on any number of      *)
(* threads (TcpPeerConnection.cpp:64-84, IoCircularBuffer.cpp:109-134).    *)
THEOREM ReadsDoNotOverlap == Spec => []OneReadHandler
<1>1. WayInv => OneReadHandler
  BY DEF WayInv
<1> QED
  BY <1>1, WaysInvariance, PTL

(* The application is told of a client once (TcpServer.cpp:108-126,        *)
(* 128-236).                                                               *)
THEOREM NoClientIsToldTwice == Spec => []ClientsAreToldOnce
<1>1. IInv /\ WayInv => ClientsAreToldOnce
  BY WorkerShape DEF IInv, WayInv, Ways, Upcoming, ClientsAreToldOnce
<1> QED
  BY <1>1, ServerInvariance, WaysInvariance, PTL

(* A connection whose reads have ended is never read again: only OnAccept  *)
(* begins a chain, and only for a client the application does not know     *)
(* (TcpServer.cpp:108-126).                                                *)
THEOREM NoReadFollowsTheLast == Spec => EndedReadsStayEnded
<1>1. IInv /\ WayInv /\ [Next]_vars =>
          [\A c \in told : ~ReadHandler(c) => ~ReadHandler(c)']_vars
  <2> SUFFICES ASSUME IInv, WayInv, Next, NEW c \in told, ReadHandler(c)'
               PROVE  ReadHandler(c)
    OBVIOUS
  <2>1. c \in Conns
    BY DEF IInv, TypeOK
  <2>2. ASSUME \A d \in Conns : read'[d] = "none" <=> read[d] = "none",
               \A v \in Workers : HandlesRead(v, c)' => HandlesRead(v, c)
        PROVE  ReadHandler(c)
    BY <2>1, <2>2 DEF ReadHandler
  <2>3. CASE Application \/ Transport
    <3>1. worker' = worker /\ \A d \in Conns : read'[d] = "none" <=> read[d] = "none"
      BY <2>3 DEF IInv, TypeOK, Application, Start, Stop, SendMessageToAllPeers,
                  Write, Close, Transport, ClientArrives, AcceptFails,
                  HandshakeEnds, ClientGoes, ReadEnds, WriteEnds
    <3> QED
      BY <2>2, <3>1 DEF HandlesRead
  <2>4. ASSUME NEW w \in Workers,
               Accepting(w) \/ AcceptCallbackThrows(w) \/ RearmThrows(w)
        PROVE  ReadHandler(c)
    <3>1. CASE BeginChainedRead(w)
      <4>1. worker[w].conn # c
        BY <3>1, <2>1 DEF BeginChainedRead, In, WayInv, Ways, Upcoming
      <4>2. worker'[w].at = "push" /\ \A v \in Workers \ {w} : worker'[v] = worker[v]
        BY <3>1 DEF BeginChainedRead, Goto, IInv, TypeOK
      <4>3. read'[c] = read[c]
        BY <3>1, <2>1, <4>1 DEF BeginChainedRead, IInv, TypeOK
      <4> QED
        BY <4>2, <4>3 DEF ReadHandler, HandlesRead
    <3>2. CASE ~BeginChainedRead(w)
      <4>1. /\ read' = read
            /\ worker'[w] = worker[w]
               \/ worker'[w].at \notin {"read_callback", "error"}
            /\ \A v \in Workers \ {w} : worker'[v] = worker[v]
        BY <2>4, <3>2
           DEF Accepting, AcceptFailed, PlainAccepted, SecureAccepted,
               HandleSslHandshake, PushConnection, AcceptCallbackReturns,
               Rearm, AcceptCallbackThrows, RearmThrows, Goto, Return, Idle,
               IInv, TypeOK
      <4> QED
        BY <4>1 DEF ReadHandler, HandlesRead
    <3> QED
      BY <3>1, <3>2
  <2>5. ASSUME NEW w \in Workers, Reading(w) \/ ReadCallbackThrows(w)
        PROVE  ReadHandler(c)
    <3>1. ASSUME NEW d \in Conns, ReadHandlers(w, d)
          PROVE  ReadHandler(c)
      <4>1. /\ \A e \in Conns \ {d} : read'[e] = read[e]
            /\ read'[d] # "none" => read[d] # "none"
            /\ worker'[w].at = "idle" \/ (worker'[w].conn = d /\ read[d] # "none")
            /\ \A v \in Workers \ {w} : worker'[v] = worker[v]
        BY <3>1 DEF ReadHandlers, ReadSomeHandler, ReadFailed, DanglingRead,
                    In, Goto, Return, Idle, IInv, TypeOK
      <4> QED
        BY <2>1, <4>1 DEF ReadHandler, HandlesRead
    <3>2. CASE ReadCallbackReturns(w) \/ ErrorHandler(w) \/ ReadCallbackThrows(w)
      <4>1. /\ worker'[w].at = "idle"
            /\ \A v \in Workers \ {w} : worker'[v] = worker[v]
            /\ \/ read' = read
               \/ /\ worker[w].at = "read_callback"
                  /\ \A e \in Conns \ {worker[w].conn} : read'[e] = read[e]
        BY <3>2 DEF ReadCallbackReturns, ErrorHandler, ReadCallbackThrows, In,
                    Return, Idle, IInv, TypeOK
      <4> QED
        BY <2>1, <4>1 DEF ReadHandler, HandlesRead
    <3> QED
      BY <2>5, <3>1, <3>2 DEF Reading
  <2> QED
    BY <2>3, <2>4, <2>5 DEF Next, Handler, Throw
<1> QED
  BY <1>1, ServerInvariance, WaysInvariance, PTL DEF Spec, EndedReadsStayEnded
=============================================================================
