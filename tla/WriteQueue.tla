----------------------------- MODULE WriteQueue -----------------------------
(***************************************************************************)
(* The outbound half of TcpPeerConnection (TcpDomainConnection has the     *)
(* same code): application threads queue messages with AsyncWrite, one     *)
(* asynchronous write at a time is outstanding at asio, and its completion *)
(* handler, on any thread that runs the io_service, chains the next one.   *)
(*                                                                         *)
(* Messages are numbered in the order push_back accepts them, and          *)
(* accepted[m] is the buffer of message m; both are history, as are wire   *)
(* and launches.  The socket is closed without the connection's mutex, so  *)
(* it can close between any two steps of the other actions.                *)
(*                                                                         *)
(* A definition whose name starts with Faulty is a bug one could make in   *)
(* the definition that follows it; PROJECT.json names the property that    *)
(* each of them breaks.  They take no part in the specification.           *)
(***************************************************************************)
EXTENDS Naturals, Sequences, IoBuffers

CONSTANTS Callers,      \* threads that call AsyncWrite
          Workers,      \* threads that run the io_service
          NoThread,     \* nobody holds the mutex
          Payloads,     \* the buffers a caller may send
          MaxMessages   \* bound on the number of calls of AsyncWrite

ASSUME WriteQueueAssumption ==
    /\ Callers \cap Workers = {}
    /\ NoThread \notin Callers \cup Workers
    /\ Payloads \subseteq IoBufferWrapper
    /\ MaxMessages \in Nat

VARIABLES
    mOutQueue,    \* the messages queued, the one being written at the front
    mutex,        \* TcpPeerConnection::_mutex: its holder
    callerPc,     \* "idle", or "pushed" inside AsyncWrite
    workerPc,     \* "idle", or "complete" or "popped" inside WriteHandler
    writes,       \* the async_write operations outstanding at asio
    PeerSocket,   \* "open" or "closed"
    peerUp,       \* whether the remote end still takes bytes
    accepted,     \* history: the buffer of each message, in order
    wire,         \* history: the bytes the remote end has taken, in order
    launches      \* history: how often LaunchWrite was called

vars == <<mOutQueue, mutex, callerPc, workerPc, writes, PeerSocket, peerUp,
          accepted, wire, launches>>

queueVars == <<mOutQueue, mutex, callerPc, workerPc>>

Messages == 1 .. MaxMessages

WriteOp == [id : Messages, msg : Messages, done : Nat]

TypeOK == /\ mOutQueue \in Seq(Messages)
          /\ mutex \in Callers \cup Workers \cup {NoThread}
          /\ callerPc \in [Callers -> {"idle", "pushed"}]
          /\ workerPc \in [Workers -> {"idle", "complete", "popped"}]
          /\ writes \subseteq WriteOp
          /\ PeerSocket \in {"open", "closed"}
          /\ peerUp \in BOOLEAN
          /\ accepted \in Seq(Payloads)
          /\ Len(accepted) <= MaxMessages
          /\ wire \in Seq(Messages \X Nat)
          /\ launches \in 0 .. MaxMessages

Init == /\ mOutQueue = <<>>
        /\ mutex = NoThread
        /\ callerPc = [t \in Callers |-> "idle"]
        /\ workerPc = [w \in Workers |-> "idle"]
        /\ writes = {}
        /\ PeerSocket = "open"
        /\ peerUp = TRUE
        /\ accepted = <<>>
        /\ wire = <<>>
        /\ launches = 0
-----------------------------------------------------------------------------
FaultyLaunchBack ==
    /\ launches' = launches + 1
    /\ writes' = writes \cup {[id |-> launches + 1,
                               msg |-> mOutQueue[Len(mOutQueue)], done |-> 0]}

(* LaunchWrite: async_write of the front of the queue.  The operation is   *)
(* numbered so that two launches of one message stay two operations.       *)
LaunchWrite == /\ launches' = launches + 1
               /\ writes' = writes \cup
                     {[id |-> launches + 1, msg |-> Head(mOutQueue), done |-> 0]}

FaultyNoLock(self) == UNCHANGED mutex

Acquire(self) == mutex = NoThread /\ mutex' = self
Release == mutex' = NoThread

FaultyPushFront(t, buf) ==
    /\ callerPc[t] = "idle"
    /\ Len(accepted) < MaxMessages
    /\ Acquire(t)
    /\ accepted' = Append(accepted, buf)
    /\ mOutQueue' = <<Len(accepted) + 1>> \o mOutQueue
    /\ callerPc' = [callerPc EXCEPT ![t] = "pushed"]
    /\ UNCHANGED <<workerPc, writes, PeerSocket, peerUp, wire, launches>>

(* AsyncWrite: lock_guard and push_back.                                   *)
PushMessage(t, buf) ==
    /\ callerPc[t] = "idle"
    /\ Len(accepted) < MaxMessages
    /\ Acquire(t)
    /\ accepted' = Append(accepted, buf)
    /\ mOutQueue' = Append(mOutQueue, Len(accepted) + 1)
    /\ callerPc' = [callerPc EXCEPT ![t] = "pushed"]
    /\ UNCHANGED <<workerPc, writes, PeerSocket, peerUp, wire, launches>>

(* AsyncWrite: more than one message is queued, so the completion handler  *)
(* of the one in front is left to launch the others.                       *)
ReturnBacklog(t) ==
    /\ callerPc[t] = "pushed"
    /\ Len(mOutQueue) > 1
    /\ Release
    /\ callerPc' = [callerPc EXCEPT ![t] = "idle"]
    /\ UNCHANGED <<mOutQueue, workerPc, writes, PeerSocket, peerUp, accepted,
                   wire, launches>>

FaultyLaunchAlways(t) ==
    /\ callerPc[t] = "pushed"
    /\ LaunchWrite
    /\ Release
    /\ callerPc' = [callerPc EXCEPT ![t] = "idle"]
    /\ UNCHANGED <<mOutQueue, workerPc, PeerSocket, peerUp, accepted, wire>>

FaultySizeTest(t) ==
    /\ callerPc[t] = "pushed"
    /\ Len(mOutQueue) <= 1
    /\ Release
    /\ callerPc' = [callerPc EXCEPT ![t] = "idle"]
    /\ UNCHANGED <<mOutQueue, workerPc, writes, PeerSocket, peerUp, accepted,
                   wire, launches>>

(* AsyncWrite: the message is alone in the queue.                          *)
LaunchFirst(t) ==
    /\ callerPc[t] = "pushed"
    /\ Len(mOutQueue) <= 1
    /\ LaunchWrite
    /\ Release
    /\ callerPc' = [callerPc EXCEPT ![t] = "idle"]
    /\ UNCHANGED <<mOutQueue, workerPc, PeerSocket, peerUp, accepted, wire>>
-----------------------------------------------------------------------------
(* boost::asio::async_write: the bytes of the buffer leave one by one,     *)
(* until the buffer is exhausted, the socket is closed or the peer is gone.*)
Usable == PeerSocket = "open" /\ peerUp

Finished(op) == op.done = ToBoost(accepted[op.msg]) \/ ~Usable

Advanced(op) == [id |-> op.id, msg |-> op.msg, done |-> op.done + 1]

TransmitByte(op) ==
    /\ ~Finished(op)
    /\ wire' = Append(wire, <<op.msg, op.done + 1>>)
    /\ writes' = (writes \ {op}) \cup {Advanced(op)}
    /\ UNCHANGED <<queueVars, PeerSocket, peerUp, accepted, launches>>

(* The peer resets the connection.                                         *)
PeerFails ==
    /\ peerUp
    /\ peerUp' = FALSE
    /\ UNCHANGED <<queueVars, writes, PeerSocket, accepted, wire, launches>>

(* Close: from the application, the stream's destructor or the server.     *)
Close ==
    /\ PeerSocket = "open"
    /\ PeerSocket' = "closed"
    /\ UNCHANGED <<queueVars, writes, peerUp, accepted, wire, launches>>
-----------------------------------------------------------------------------
FaultyIncompleteIgnored(w, op) ==
    /\ workerPc[w] = "idle"
    /\ Finished(op)
    /\ op.done # BoostSize(accepted[op.msg])
    /\ writes' = writes \ {op}
    /\ UNCHANGED <<queueVars, PeerSocket, peerUp, accepted, wire, launches>>

(* WriteHandler: fewer bytes were written than the buffer holds.  Nothing  *)
(* is popped, and the error code is not looked at.                         *)
WriteIncomplete(w, op) ==
    /\ workerPc[w] = "idle"
    /\ Finished(op)
    /\ op.done # BoostSize(accepted[op.msg])
    /\ writes' = writes \ {op}
    /\ PeerSocket' = "closed"
    /\ UNCHANGED <<queueVars, peerUp, accepted, wire, launches>>

(* WriteHandler: the whole buffer was written.                             *)
WriteComplete(w, op) ==
    /\ workerPc[w] = "idle"
    /\ Finished(op)
    /\ op.done = BoostSize(accepted[op.msg])
    /\ writes' = writes \ {op}
    /\ workerPc' = [workerPc EXCEPT ![w] = "complete"]
    /\ UNCHANGED <<mOutQueue, mutex, callerPc, PeerSocket, peerUp, accepted,
                   wire, launches>>

(* WriteHandler: lock_guard and pop_front.                                 *)
PopMessage(w) ==
    /\ workerPc[w] = "complete"
    /\ Acquire(w)
    /\ mOutQueue' = Tail(mOutQueue)
    /\ workerPc' = [workerPc EXCEPT ![w] = "popped"]
    /\ UNCHANGED <<callerPc, writes, PeerSocket, peerUp, accepted, wire,
                   launches>>

(* WriteHandler: nothing more to do.                                       *)
QueueEmpty(w) ==
    /\ workerPc[w] = "popped"
    /\ mOutQueue = <<>>
    /\ Release
    /\ workerPc' = [workerPc EXCEPT ![w] = "idle"]
    /\ UNCHANGED <<mOutQueue, callerPc, writes, PeerSocket, peerUp, accepted,
                   wire, launches>>

(* WriteHandler: chain the next message.                                   *)
LaunchNext(w) ==
    /\ workerPc[w] = "popped"
    /\ mOutQueue # <<>>
    /\ LaunchWrite
    /\ Release
    /\ workerPc' = [workerPc EXCEPT ![w] = "idle"]
    /\ UNCHANGED <<mOutQueue, callerPc, PeerSocket, peerUp, accepted, wire>>
-----------------------------------------------------------------------------
AsyncWrite(t) == \/ \E buf \in Payloads : PushMessage(t, buf)
                 \/ ReturnBacklog(t)
                 \/ LaunchFirst(t)

WriteHandler(w) == \/ \E op \in writes : WriteIncomplete(w, op) \/ WriteComplete(w, op)
                   \/ PopMessage(w)
                   \/ QueueEmpty(w)
                   \/ LaunchNext(w)

Next == \/ \E t \in Callers : AsyncWrite(t)
        \/ \E w \in Workers : WriteHandler(w)
        \/ \E op \in writes : TransmitByte(op)
        \/ PeerFails
        \/ Close

(* The threads are scheduled and asio delivers what it can; nobody has to  *)
(* call AsyncWrite or Close, and the peer need not fail.                   *)
Fairness ==
    /\ \A t \in Callers : WF_vars(ReturnBacklog(t)) /\ WF_vars(LaunchFirst(t))
    /\ \A w \in Workers : WF_vars(WriteHandler(w))
    /\ WF_vars(\E op \in writes : TransmitByte(op))

Spec == Init /\ [][Next]_vars /\ Fairness
-----------------------------------------------------------------------------
(* Safety.                                                                 *)

Handling == {w \in Workers : workerPc[w] = "complete"}

(* A thread inside the mutex that is about to call LaunchWrite.            *)
Launching == \/ \E t \in Callers : callerPc[t] = "pushed" /\ Len(mOutQueue) = 1
             \/ \E w \in Workers : workerPc[w] = "popped"

Popped == Len(accepted) - Len(mOutQueue)

(* "For each stream only one async write can be outstanding at a time":    *)
(* whatever the callers and the handlers do, asio never holds two.         *)
AtMostOneWrite == \A a, b \in writes : a = b

(* The buffer asio is writing, or whose completion is being handled, is    *)
(* the front of the queue, and the queue still holds every message         *)
(* accepted after it, in order: pop_front discards that very message.      *)
QueueMatchesWrites ==
    /\ writes # {} \/ Handling # {} => mOutQueue # <<>>
    /\ \A op \in writes : op.msg = Head(mOutQueue)
    /\ \A i \in DOMAIN mOutQueue : mOutQueue[i] = Popped + i

(* A queued message always has somebody who will launch it (a write in     *)
(* flight, its handler, or a thread that holds the mutex), except on a     *)
(* socket that has been closed.                                            *)
NoLostLaunch ==
    mOutQueue # <<>> /\ PeerSocket = "open"
        => writes # {} \/ Handling # {} \/ Launching

(* WriteHandler takes a write for incomplete, and closes the socket, only  *)
(* when the transport cut it short: BoostSize and ToBoost agree on every   *)
(* buffer an application can queue.                                        *)
HealthySocketKept ==
    [][\A w \in Workers : \A op \in writes : WriteIncomplete(w, op) => ~Usable]_vars

MessageLengths == [m \in DOMAIN accepted |-> ToBoost(accepted[m])]

Channel == INSTANCE MessageChannel WITH
               Lengths <- {ToBoost(b) : b \in Payloads},
               accepted <- MessageLengths,
               up <- Usable

(* The connection implements the first-in first-out byte stream: messages  *)
(* leave in the order AsyncWrite accepted them, neither interleaved nor    *)
(* repeated, and nothing leaves once the socket is closed.                 *)
ImplementsChannel == Channel!Safety

(* The bytes the remote end has taken are a beginning of the messages that *)
(* AsyncWrite accepted, whole and in order, whichever threads sent them.   *)
MessagesInOrder == Channel!FirstInFirstOut
-----------------------------------------------------------------------------
(* Liveness.                                                               *)

(* Every accepted message is on the wire in full, sooner or later, unless  *)
(* the socket is closed or the peer has gone.                              *)
MessagesDelivered == Channel!Delivery

(* A write that the peer's failure cuts short closes the socket, which is  *)
(* what ends the connection's read and so its life.                        *)
FailureClosesSocket ==
    (\E op \in writes : ~peerUp /\ op.done < BoostSize(accepted[op.msg]))
        ~> (PeerSocket = "closed")
-----------------------------------------------------------------------------
(* The inductive invariant behind the safety properties.                   *)

MutexInv ==
    /\ \A t \in Callers : callerPc[t] = "pushed" <=> mutex = t
    /\ \A w \in Workers : workerPc[w] = "popped" <=> mutex = w

OneWriter ==
    /\ AtMostOneWrite
    /\ \A v, w \in Handling : v = w
    /\ writes # {} => Handling = {}
    /\ Launching => writes = {} /\ Handling = {}
    /\ (\E t \in Callers : callerPc[t] = "pushed") => mOutQueue # <<>>
    /\ \A op \in writes : op.id <= launches

(* Every message is handed to asio at most once.                           *)
LaunchCount ==
    /\ launches <= Len(accepted)
    /\ launches <= Popped + 1
    /\ Launching => launches <= Popped

OnWire(m, k) == \E i \in DOMAIN wire : wire[i] = <<m, k>>

Size(m) == ToBoost(accepted[m])

(* Nothing is on the wire but bytes of messages up to the front.           *)
WireBytes ==
    \A i \in DOMAIN wire :
        /\ wire[i][1] \in 1 .. Len(accepted)
        /\ wire[i][1] <= Popped + 1
        /\ wire[i][2] \in 1 .. Size(wire[i][1])
        /\ Launching => wire[i][1] <= Popped

(* A message is popped only when all of it is on the wire.                 *)
PoppedWritten == \A m \in 1 .. Popped : \A k \in 1 .. Size(m) : OnWire(m, k)

(* Of the message in flight exactly the bytes asio counted are on the wire.*)
InFlightWritten ==
    \A op \in writes :
        /\ op.done <= Size(op.msg)
        /\ \A k \in 1 .. op.done : OnWire(op.msg, k)
        /\ \A i \in DOMAIN wire : wire[i][1] = op.msg => wire[i][2] <= op.done

HandledWritten ==
    Handling # {} => \A k \in 1 .. Size(Popped + 1) : OnWire(Popped + 1, k)

WireInv == /\ WireBytes
           /\ PoppedWritten
           /\ InFlightWritten
           /\ HandledWritten

IInv == /\ Len(mOutQueue) <= Len(accepted)
        /\ MutexInv
        /\ OneWriter
        /\ LaunchCount
        /\ QueueMatchesWrites
        /\ NoLostLaunch
        /\ WireInv
=============================================================================
