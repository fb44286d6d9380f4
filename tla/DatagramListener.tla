-------------------------- MODULE DatagramListener --------------------------
(***************************************************************************)
(* A datagram listener: the DgramListener the application holds, the       *)
(* UdpListener it points to weakly, and the entry of _listeners that owns  *)
(* that one until it is cleaned up.                                        *)
(*                                                                         *)
(* A bound listener reads at once.  An unbound one cannot, until it is     *)
(* connected or, for one that only sends to addresses, until the           *)
(* application launches the read.  A read owns nothing: its handler holds  *)
(* the raw `this` of the UdpListener.  The connect callback holds the raw  *)
(* `this` of the DgramListener.  A handler that runs on a destroyed object *)
(* may do anything, which ends a behaviour here.                           *)
(*                                                                         *)
(* Listeners share only _listeners, which has a mutex: the model is of     *)
(* one.  Its buffer is CircularBuffer.  The application calls the handle   *)
(* from one thread, besides the callbacks.                                 *)
(*                                                                         *)
(* BeginReadSome is called by LaunchRead and by the connect handler, and   *)
(* its test and its set are two steps: calls that overlap start two reads  *)
(* into one buffer.  Handlers then change it together, and may go on or    *)
(* end the program.                                                        *)
(***************************************************************************)
EXTENDS Naturals, Sequences, FiniteSets

CONSTANTS Threads,  \* threads that run the io_service
          MaxQueue, \* bound: messages queued
          MaxReads  \* bound: reads in progress when another is started

ASSUME DatagramListenerAssumption == MaxQueue \in Nat /\ MaxReads \in Nat

VARIABLES
    made,             \* there is a listener
    listed,           \* it is in _listeners
    kept,             \* the application keeps the handle
    PeerSocket,       \* "open" or "closed"
    _shouldRead,
    reads,            \* how many reads are outstanding, or completed how
    launching,        \* the application is in LaunchRead's BeginReadSome
    connect,          \* the async_connect: "none", "pending", "ok" or "error"
    mOutQueue,        \* per message: where it is sent
    write,            \* the send: "none", "pending", "complete" or "short"
    thread,           \* of each io_service thread: the handler it is in
    threw,            \* history: a callback that ended a chain by throwing
    failed,           \* history: the application's error callback was called
    crashed           \* a handler ran on a destroyed object

vars == <<made, listed, kept, PeerSocket, _shouldRead, reads, launching,
          connect, mOutQueue, write, thread, threw, failed, crashed>>

Handlers == {"receive_callback", "error_callback", "starting", "connected",
             "connect_callback"}

(* A message goes to the address it was given, or to the one that the      *)
(* socket is connected to.                                                 *)
Messages == {"to", "connected"}

(* `lent` says that the handler has locked the handle.                     *)
Idle == [at |-> "idle", lent |-> FALSE]

TypeOK ==
    /\ made \in BOOLEAN
    /\ listed \in BOOLEAN
    /\ kept \in BOOLEAN
    /\ PeerSocket \in {"open", "closed"}
    /\ _shouldRead \in BOOLEAN
    /\ reads \in [{"pending", "data", "error"} -> Nat]
    /\ launching \in BOOLEAN
    /\ connect \in {"none", "pending", "ok", "error"}
    /\ mOutQueue \in Seq(Messages)
    /\ write \in {"none", "pending", "complete", "short"}
    /\ thread \in [Threads -> {Idle} \cup [at : Handlers, lent : BOOLEAN]]
    /\ threw \in BOOLEAN
    /\ failed \in BOOLEAN
    /\ crashed \in BOOLEAN

Init == /\ made = FALSE
        /\ listed = FALSE
        /\ kept = FALSE
        /\ PeerSocket = "closed"
        /\ _shouldRead = FALSE
        /\ reads = [r \in {"pending", "data", "error"} |-> 0]
        /\ launching = FALSE
        /\ connect = "none"
        /\ mOutQueue = <<>>
        /\ write = "none"
        /\ thread = [t \in Threads |-> Idle]
        /\ threw = FALSE
        /\ failed = FALSE
        /\ crashed = FALSE
-----------------------------------------------------------------------------
(* The DgramListener exists.                                               *)
Held == kept \/ \E t \in Threads : thread[t].lent

(* The UdpListener exists: it is listed, bound to a connect or a send, or  *)
(* held by an error or connect handler or by LaunchRead.                   *)
Alive == \/ listed
         \/ launching
         \/ connect # "none"
         \/ write # "none"
         \/ \E t \in Threads : thread[t].at \in Handlers \ {"receive_callback"}

(* What the operations of the handle ask before anything else.             *)
IsValid == kept /\ Alive

Goto(t, at, lent) == thread' = [thread EXCEPT ![t] = [at |-> at, lent |-> lent]]

(* ReadSome: a read on a socket that is not open fails.                    *)
ReadOn(socket, rs) ==
    LET r == IF socket = "open" THEN "pending" ELSE "error"
    IN [rs EXCEPT ![r] = @ + 1]

Read(rs) == ReadOn(PeerSocket, rs)

(* The reads in progress: outstanding, completed, or in their callback.    *)
Reads == reads["pending"] + reads["data"] + reads["error"]

InProgress ==
    Reads + Cardinality({t \in Threads : thread[t].at = "receive_callback"})

(* BeginReadSome: its test ...                                             *)
TestShouldRead == ~_shouldRead /\ InProgress < MaxReads

(* ... and its set, with the read.                                         *)
StartReading ==
    /\ _shouldRead' = TRUE
    /\ reads' = Read(reads)

Aborted(rs) == [rs EXCEPT !["pending"] = 0, !["error"] = @ + rs["pending"]]

FaultyClosed == PeerSocket' = "closed" /\ UNCHANGED reads

(* The socket is closed: what is read is aborted.                          *)
Closed ==
    /\ PeerSocket' = "closed"
    /\ reads' = Aborted(reads)

(* A handler that no longer finds its object: the program ends, and with   *)
(* it all there was.                                                       *)
Dangling ==
    /\ made' = FALSE
    /\ listed' = FALSE
    /\ kept' = FALSE
    /\ PeerSocket' = "closed"
    /\ _shouldRead' = FALSE
    /\ reads' = [r \in {"pending", "data", "error"} |-> 0]
    /\ launching' = FALSE
    /\ connect' = "none"
    /\ mOutQueue' = <<>>
    /\ write' = "none"
    /\ thread' = [t \in Threads |-> Idle]
    /\ threw' = FALSE
    /\ failed' = FALSE
    /\ crashed' = TRUE

OneReceiveInProgress == InProgress <= 1

(* Handlers of two reads change the buffer together.                       *)
CorruptBuffer == ~OneReceiveInProgress /\ Dangling
-----------------------------------------------------------------------------
(* The application.                                                        *)

BindDgramListener ==
    /\ ~made
    /\ made' = TRUE
    /\ listed' = TRUE
    /\ kept' = TRUE
    /\ PeerSocket' = "open"
    /\ _shouldRead' = TRUE
    /\ reads' = [reads EXCEPT !["pending"] = 1]
    /\ UNCHANGED <<launching, connect, mOutQueue, write, thread, threw, failed,
                   crashed>>

UnboundDgramListener ==
    /\ ~made
    /\ made' = TRUE
    /\ listed' = TRUE
    /\ kept' = TRUE
    /\ UNCHANGED <<PeerSocket, _shouldRead, reads, launching, connect,
                   mOutQueue, write, thread, threw, failed, crashed>>

(* Connecting opens a socket that is not open.                             *)
AsyncConnect ==
    /\ IsValid
    /\ connect = "none"
    /\ connect' = "pending"
    /\ PeerSocket' = "open"
    /\ UNCHANGED <<made, listed, kept, _shouldRead, reads, launching,
                   mOutQueue, write, thread, threw, failed, crashed>>

(* "For unbound unconnected listeners": nothing checks that it is one.     *)
LaunchRead ==
    /\ IsValid
    /\ ~launching
    /\ TestShouldRead
    /\ launching' = TRUE
    /\ UNCHANGED <<made, listed, kept, PeerSocket, _shouldRead, reads, connect,
                   mOutQueue, write, thread, threw, failed, crashed>>

Launch ==
    /\ launching
    /\ launching' = FALSE
    /\ StartReading
    /\ UNCHANGED <<made, listed, kept, PeerSocket, connect, mOutQueue, write,
                   thread, threw, failed, crashed>>

EnableBroadcast ==
    /\ IsValid
    /\ PeerSocket' = "open"
    /\ UNCHANGED <<made, listed, kept, _shouldRead, reads, launching, connect,
                   mOutQueue, write, thread, threw, failed, crashed>>

DestEp(msg) == msg # "connected"

(* A message with a destination opens the socket it is sent on, even one   *)
(* that StopListening has closed.                                          *)
LaunchWrite(q) ==
    /\ PeerSocket' = IF DestEp(Head(q)) THEN "open" ELSE PeerSocket
    /\ write' = "pending"

QueueOrWriteBuffer(msg) ==
    /\ IsValid
    /\ Len(mOutQueue) < MaxQueue
    /\ mOutQueue' = Append(mOutQueue, msg)
    /\ IF mOutQueue = <<>>
       THEN LaunchWrite(mOutQueue')
       ELSE UNCHANGED <<PeerSocket, write>>
    /\ UNCHANGED <<made, listed, kept, _shouldRead, reads, launching, connect,
                   thread, threw, failed, crashed>>

AsyncWrite == QueueOrWriteBuffer("connected")

AsyncSendTo == QueueOrWriteBuffer("to")

StopListening ==
    /\ IsValid
    /\ Closed
    /\ UNCHANGED <<made, listed, kept, _shouldRead, launching, connect,
                   mOutQueue, write, thread, threw, failed, crashed>>

(* The last owner of the handle drops it, here or in Return.               *)
Drop ==
    /\ kept
    /\ ~launching
    /\ kept' = FALSE
    /\ UNCHANGED <<made, listed, _shouldRead, launching, connect, mOutQueue,
                   write, thread, threw, failed, crashed>>
    /\ IF Held' THEN UNCHANGED <<PeerSocket, reads>> ELSE Closed
-----------------------------------------------------------------------------
(* asio and the network.                                                   *)

(* A read ends in data, or in an error or a datagram of no length.         *)
ReadEnds ==
    /\ reads["pending"] > 0
    /\ \E r \in {"data", "error"} :
           reads' = [reads EXCEPT !["pending"] = @ - 1, ![r] = @ + 1]
    /\ UNCHANGED <<made, listed, kept, PeerSocket, _shouldRead, launching,
                   connect, mOutQueue, write, thread, threw, failed, crashed>>

ConnectEnds ==
    /\ connect = "pending"
    /\ connect' \in {"ok", "error"}
    /\ UNCHANGED <<made, listed, kept, PeerSocket, _shouldRead, reads,
                   launching, mOutQueue, write, thread, threw, failed,
                   crashed>>

WriteEnds ==
    /\ write = "pending"
    /\ write' \in {"short"} \cup {w \in {"complete"} : PeerSocket = "open"}
    /\ UNCHANGED <<made, listed, kept, PeerSocket, _shouldRead, reads,
                   launching, connect, mOutQueue, thread, threw, failed,
                   crashed>>
-----------------------------------------------------------------------------
(* The io_service: reading.                                                *)

(* A datagram, for which the handle is locked; if that is gone the         *)
(* datagram stays in the buffer.                                           *)
ReadSomeHandler(t) ==
    /\ thread[t] = Idle
    /\ reads["data"] > 0
    /\ Alive
    /\ reads' = [reads EXCEPT !["data"] = @ - 1]
    /\ Goto(t, "receive_callback", Held)
    /\ UNCHANGED <<made, listed, kept, PeerSocket, _shouldRead, launching,
                   connect, mOutQueue, write, threw, failed, crashed>>

(* The handler lets go of the handle, and the read is chained.             *)
ReceiveReturns(t) ==
    /\ thread[t].at = "receive_callback"
    /\ Alive
    /\ thread' = [thread EXCEPT ![t] = Idle]
    /\ UNCHANGED <<made, listed, kept, _shouldRead, launching, connect,
                   mOutQueue, write, threw, failed, crashed>>
    /\ PeerSocket' = IF Held' THEN PeerSocket ELSE "closed"
    /\ LET rs == IF Held' THEN reads ELSE Aborted(reads)
       IN reads' = IF _shouldRead THEN ReadOn(PeerSocket', rs) ELSE rs

(* A handler ends: its reference to the handle may have been the last.     *)
Return(t) ==
    /\ thread' = [thread EXCEPT ![t] = Idle]
    /\ UNCHANGED kept
    /\ IF Held' THEN UNCHANGED <<PeerSocket, reads>> ELSE Closed

(* An exception leaves _shouldRead set, with no read.                      *)
ReceiveThrows(t) ==
    /\ thread[t].at = "receive_callback"
    /\ thread[t].lent
    /\ Alive
    /\ Return(t)
    /\ threw' = TRUE
    /\ UNCHANGED <<made, listed, _shouldRead, launching, connect, mOutQueue,
                   write, failed, crashed>>

ReadFailed(t) ==
    /\ thread[t] = Idle
    /\ reads["error"] > 0
    /\ Alive
    /\ reads' = [reads EXCEPT !["error"] = @ - 1]
    /\ _shouldRead' = FALSE
    /\ Goto(t, "error_callback", Held)
    /\ failed' = TRUE
    /\ UNCHANGED <<made, listed, kept, PeerSocket, launching, connect,
                   mOutQueue, write, threw, crashed>>

(* The application's error callback returns; ErrorHandler erases the       *)
(* listener, or throws because it is not there any more.                   *)
ErrorHandler(t) ==
    /\ thread[t].at = "error_callback"
    /\ listed' = FALSE
    /\ Return(t)
    /\ UNCHANGED <<made, _shouldRead, launching, connect, mOutQueue, write,
                   threw, failed, crashed>>

ErrorCallbackThrows(t) ==
    /\ thread[t].at = "error_callback"
    /\ Return(t)
    /\ threw' = TRUE
    /\ UNCHANGED <<made, listed, _shouldRead, launching, connect, mOutQueue,
                   write, failed, crashed>>

DanglingRead(t) ==
    /\ ~Alive
    /\ \/ thread[t] = Idle /\ reads["data"] + reads["error"] > 0
       \/ thread[t].at = "receive_callback"
    /\ Dangling
-----------------------------------------------------------------------------
(* The io_service: connecting and writing.                                 *)

FaultyConnectHandler(t) ==
    /\ thread[t] = Idle
    /\ connect = "ok"
    /\ connect' = "none"
    /\ Goto(t, "connected", FALSE)
    /\ UNCHANGED <<made, listed, kept, PeerSocket, _shouldRead, reads,
                   launching, mOutQueue, write, threw, failed, crashed>>

(* "If this is a connect of an un-bound socket then launch the chained     *)
(* read."                                                                  *)
ConnectHandler(t) ==
    /\ thread[t] = Idle
    /\ connect = "ok"
    /\ connect' = "none"
    /\ \/ _shouldRead /\ Goto(t, "connected", FALSE)
       \/ TestShouldRead /\ Goto(t, "starting", FALSE)
    /\ UNCHANGED <<made, listed, kept, PeerSocket, _shouldRead, reads,
                   launching, mOutQueue, write, threw, failed, crashed>>

ConnectStarts(t) ==
    /\ thread[t].at = "starting"
    /\ StartReading
    /\ Goto(t, "connected", FALSE)
    /\ UNCHANGED <<made, listed, kept, PeerSocket, launching, connect,
                   mOutQueue, write, threw, failed, crashed>>

ConnectCallback(t) ==
    /\ thread[t].at = "connected"
    /\ Held
    /\ Goto(t, "connect_callback", TRUE)
    /\ UNCHANGED <<made, listed, kept, PeerSocket, _shouldRead, reads,
                   launching, connect, mOutQueue, write, threw, failed,
                   crashed>>

DanglingConnectCallback(t) ==
    /\ thread[t].at = "connected"
    /\ ~Held
    /\ Dangling

ConnectCallbackEnds(t) ==
    /\ thread[t].at = "connect_callback"
    /\ Return(t)
    /\ UNCHANGED <<made, listed, _shouldRead, launching, connect, mOutQueue,
                   write, threw, failed, crashed>>

(* The callback that reports a failed connect is the read's.               *)
ConnectFailed(t) ==
    /\ thread[t] = Idle
    /\ connect = "error"
    /\ connect' = "none"
    /\ Goto(t, "error_callback", Held)
    /\ failed' = TRUE
    /\ UNCHANGED <<made, listed, kept, PeerSocket, _shouldRead, reads,
                   launching, mOutQueue, write, threw, crashed>>

WriteIncomplete(t) ==
    /\ thread[t] = Idle
    /\ write = "short"
    /\ write' = "none"
    /\ Closed
    /\ UNCHANGED <<made, listed, kept, _shouldRead, launching, connect,
                   mOutQueue, thread, threw, failed, crashed>>

WriteHandler(t) ==
    /\ thread[t] = Idle
    /\ write = "complete"
    /\ mOutQueue' = Tail(mOutQueue)
    /\ IF mOutQueue' = <<>>
       THEN write' = "none" /\ UNCHANGED PeerSocket
       ELSE LaunchWrite(mOutQueue')
    /\ UNCHANGED <<made, listed, kept, _shouldRead, reads, launching, connect,
                   thread, threw, failed, crashed>>
-----------------------------------------------------------------------------
Application == \/ BindDgramListener
               \/ UnboundDgramListener
               \/ AsyncConnect
               \/ LaunchRead
               \/ Launch
               \/ EnableBroadcast
               \/ AsyncWrite
               \/ AsyncSendTo
               \/ StopListening
               \/ Drop

Asio == ReadEnds \/ ConnectEnds \/ WriteEnds

ReadEvent(t) == ReadSomeHandler(t) \/ ReadFailed(t) \/ DanglingRead(t)

ConnectEvent(t) == ConnectHandler(t) \/ ConnectFailed(t)

WriteEvent(t) == WriteIncomplete(t) \/ WriteHandler(t)

Continue(t) == \/ ReceiveReturns(t)
               \/ ConnectStarts(t)
               \/ ReceiveThrows(t)
               \/ ErrorHandler(t)
               \/ ErrorCallbackThrows(t)
               \/ ConnectCallback(t)
               \/ DanglingConnectCallback(t)
               \/ ConnectCallbackEnds(t)

Next == /\ ~crashed
        /\ \/ Application
           \/ Asio
           \/ CorruptBuffer
           \/ \E t \in Threads : \/ ReadEvent(t)
                                 \/ ConnectEvent(t)
                                 \/ WriteEvent(t)
                                 \/ Continue(t)

(* Callbacks return, a connect ends, and the io_service runs what has      *)
(* completed in that order.                                                *)
Fairness ==
    /\ WF_vars(~crashed /\ ConnectEnds)
    /\ SF_vars(~crashed /\ \E t \in Threads : ReadEvent(t))
    /\ SF_vars(~crashed /\ \E t \in Threads : ConnectEvent(t))
    /\ \A t \in Threads : WF_vars(~crashed /\ (Continue(t) \/ DanglingRead(t)))

Spec == Init /\ [][Next]_vars /\ Fairness
-----------------------------------------------------------------------------
(* Safety.                                                                 *)

(* When the application is told that the listener is connected it is       *)
(* receiving, or the application has been told, by an error or by its own  *)
(* exception, that it is not.                                              *)
ConnectedListenersReceive ==
    \A t \in Threads : thread[t].at = "connect_callback" =>
        \/ Reads > 0
        \/ \E u \in Threads : thread[u].at = "receive_callback"
        \/ failed
        \/ threw

(* A listener that is said to be reading has a read, or a thread in its    *)
(* callback that will chain one, unless a callback threw; and one whose    *)
(* socket is not open has no read that waits for data, so that a closed    *)
(* listener that was reading finds out.                                    *)
ReadersFindOut ==
    /\ _shouldRead => \/ Reads > 0
                      \/ \E t \in Threads : thread[t].at = "receive_callback"
                      \/ threw
    /\ PeerSocket # "open" => reads["pending"] = 0

(* Liveness.                                                               *)

(* A listener that was reading when its socket was closed, by              *)
(* StopListening, by a short write or by its handle going, leaves          *)
(* _listeners, unless a callback threw, or a send opened the socket again  *)
(* before the read was chained.                                            *)
ClosedReadersAreRemoved ==
    _shouldRead /\ PeerSocket = "closed"
        ~> ~listed \/ threw \/ crashed \/ PeerSocket = "open"
-----------------------------------------------------------------------------
(* What the comments say.                                                  *)

(* IoCircularBuffer.cpp:72: "Only one chained readsome allowed in          *)
(* progress."                                                              *)
=============================================================================
