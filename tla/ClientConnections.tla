------------------------- MODULE ClientConnections -------------------------
(***************************************************************************)
(* The client connections of IoServices: connecting, the callbacks, the    *)
(* application's handle, and the map that owns a connection until it is    *)
(* cleaned up.  TcpPeerConnection with StreamConnection and                *)
(* TcpDomainConnection with UnixStreamConnection have the same code, and a *)
(* map each; the model is of one of the two.                               *)
(*                                                                         *)
(* AsyncConnect is called by the application on its own threads, all the   *)
(* rest of the library runs on the threads of the io_service.  Its         *)
(* comments take every access of the map to be on the io_service, and      *)
(* there is no lock: an insertion, a search and a removal take two steps   *)
(* each, and once a modification has overlapped another access the map may *)
(* lose entries, a search go wrong, or the program crash.                  *)
(*                                                                         *)
(* What is written is WriteQueue, what is read is CircularBuffer: here a   *)
(* failed write closes the socket, and a read brings data or an error.     *)
(***************************************************************************)
EXTENDS Naturals, FiniteSets

CONSTANTS Clients,  \* calls of AsyncConnect, each with a connection of its own
          Threads   \* threads that run the io_service

VARIABLES
    connections,  \* _clientConnections, the keys of the map
    raced,        \* a modification of the map has overlapped another access
    crashed,      \* ... and that has ended the program
    connect,      \* of each client: the async_connect
    socket,       \* "closed" or "open"
    read,         \* its read: "none", "pending", or what completed it
    chained,      \* clients with a read callback set: it owns the connection
    kept,         \* clients whose handle the application keeps
    thread,       \* of each io_service thread: the handler it is in
    told          \* history: what the application has been told of a client

vars == <<connections, raced, crashed, connect, socket, read,
          chained, kept, thread, told>>

(* In the callbacks of a connected client `lent` says that the handler     *)
(* holds the handle too.                                                   *)
Idle == [at |-> "idle"]

Handlers == {"connected", "connect_callback", "refused_callback", "cleanup",
             "finding", "erasing", "read_callback", "error_callback"}

Busy == [at : Handlers, of : Clients, lent : BOOLEAN]

TypeOK ==
    /\ connections \subseteq Clients
    /\ raced \in BOOLEAN
    /\ crashed \in BOOLEAN
    /\ connect \in [Clients -> {"new", "inserting", "pending", "ok", "error",
                             "done"}]
    /\ socket \in [Clients -> {"closed", "open"}]
    /\ read \in [Clients -> {"none", "pending", "data", "error"}]
    /\ chained \subseteq Clients
    /\ kept \subseteq Clients
    /\ thread \in [Threads -> {Idle} \cup Busy]
    /\ told \in [Clients -> SUBSET {"threw", "connected", "refused", "lost",
                                  "stuck"}]

Init == /\ connections = {}
        /\ raced = FALSE
        /\ crashed = FALSE
        /\ connect = [c \in Clients |-> "new"]
        /\ socket = [c \in Clients |-> "closed"]
        /\ read = [c \in Clients |-> "none"]
        /\ chained = {}
        /\ kept = {}
        /\ thread = [t \in Threads |-> Idle]
        /\ told = [c \in Clients |-> {}]
-----------------------------------------------------------------------------
(* Ownership.                                                              *)

In(t, at, c) == thread[t] # Idle /\ thread[t].at = at /\ thread[t].of = c

Lent(t, c) == thread[t] # Idle /\ thread[t].of = c /\ thread[t].lent

(* The handle, a StreamConnection, exists.                                 *)
Held(c) == c \in kept \/ \E t \in Threads : Lent(t, c)

(* The connection exists: the handle's weak pointer to it can be locked.   *)
Alive(c) == \/ c \in connections \cup chained
            \/ connect[c] \in {"inserting", "pending", "ok", "error"}
            \/ \E t \in Threads : thread[t] # Idle /\ thread[t].of = c

Expired(c) == ~Alive(c)

Tell(c, what) == told' = [told EXCEPT ![c] = @ \cup {what}]

Goto(t, at, c, lent) ==
    thread' = [thread EXCEPT ![t] = [at |-> at, of |-> c, lent |-> lent]]

(* A socket is closed: what is outstanding on it is aborted.               *)
Closed(C) ==
    /\ socket' = [c \in Clients |-> IF c \in C THEN "closed" ELSE socket[c]]
    /\ read' = [c \in Clients |->
                   IF c \in C /\ read[c] = "pending" THEN "error" ELSE read[c]]

FaultyReleased(c) == {}

(* The handle goes with its last owner, and closes the socket.             *)
Released(c) == IF Held(c)' THEN {} ELSE {c}

(* The accesses of the map: a search may overlap another search, nothing   *)
(* may overlap an insertion or a removal.                                  *)
Modifying == {c \in Clients : \/ connect[c] = "inserting"
                              \/ \E t \in Threads : In(t, "erasing", c)}

Finding == {c \in Clients : \E t \in Threads : In(t, "finding", c)}

BeginModify(c) == raced' = (raced \/ Modifying \cup (Finding \ {c}) # {})

BeginFind == raced' = (raced \/ Modifying # {})

EndModify(S) ==
    /\ IF raced THEN connections' \in SUBSET S ELSE connections' = S
    /\ crashed' \in {FALSE, raced}
-----------------------------------------------------------------------------
(* The application.                                                        *)

(* AsyncConnect makes the connection and enters it into the map ...        *)
AsyncConnect(c) ==
    /\ connect[c] = "new"
    /\ connect' = [connect EXCEPT ![c] = "inserting"]
    /\ BeginModify(c)
    /\ UNCHANGED <<connections, crashed, socket, read, chained, kept, thread,
                   told>>

(* ... and connects it.                                                    *)
LaunchConnect(c) ==
    /\ connect[c] = "inserting"
    /\ connect' = [connect EXCEPT ![c] = "pending"]
    /\ socket' = [socket EXCEPT ![c] = "open"]
    /\ EndModify(connections \cup {c})
    /\ UNCHANGED <<raced, read, chained, kept, thread, told>>

(* The address is no address, or the path too long: the exception leaves   *)
(* the entry behind.                                                       *)
BadAddress(c) ==
    /\ connect[c] = "inserting"
    /\ connect' = [connect EXCEPT ![c] = "done"]
    /\ EndModify(connections \cup {c})
    /\ Tell(c, "threw")
    /\ UNCHANGED <<raced, socket, read, chained, kept, thread>>

(* A callback is given the handle, and the application may keep it.        *)
Keep(t) ==
    /\ thread[t] # Idle
    /\ thread[t].lent
    /\ thread[t].at # "connected"
    /\ kept' = kept \cup {thread[t].of}
    /\ UNCHANGED <<connections, raced, crashed, connect, socket,
                   read, chained, thread, told>>

Drop(c) ==
    /\ c \in kept
    /\ kept' = kept \ {c}
    /\ UNCHANGED <<connections, raced, crashed, connect, chained,
                   thread, told>>
    /\ Closed(Released(c))

(* Close.  A write of the handle that fails does the same.                 *)
Close(c) ==
    /\ Held(c)
    /\ ~Expired(c)
    /\ Closed({c})
    /\ UNCHANGED <<connections, raced, crashed, connect, chained,
                   kept, thread, told>>
-----------------------------------------------------------------------------
(* asio and the servers.                                                   *)

ConnectEnds(c) ==
    /\ connect[c] = "pending"
    /\ \E outcome \in {"ok", "error"} :
           connect' = [connect EXCEPT ![c] = outcome]
    /\ UNCHANGED <<connections, raced, crashed, socket, read,
                   chained, kept, thread, told>>

ReadEnds(c) ==
    /\ read[c] = "pending"
    /\ \E outcome \in {"data", "error"} : read' = [read EXCEPT ![c] = outcome]
    /\ UNCHANGED <<connections, raced, crashed, connect, socket,
                   chained, kept, thread, told>>
-----------------------------------------------------------------------------
(* The io_service: connecting.                                             *)

(* The handle is made, the callbacks replace those of AsyncConnect, and    *)
(* the read chain starts.                                                  *)
ConnectHandler(t, c) ==
    /\ thread[t] = Idle
    /\ connect[c] = "ok"
    /\ connect' = [connect EXCEPT ![c] = "done"]
    /\ chained' = chained \cup {c}
    /\ read' = [read EXCEPT ![c] = "pending"]
    /\ Goto(t, "connected", c, TRUE)
    /\ UNCHANGED <<connections, raced, crashed, socket, kept, told>>

ConnectCallback(t, c) ==
    /\ In(t, "connected", c)
    /\ Goto(t, "connect_callback", c, TRUE)
    /\ Tell(c, "connected")
    /\ UNCHANGED <<connections, raced, crashed, connect, socket,
                   read, chained, kept>>

(* The connect callback returns or throws.                                 *)
ConnectCallbackEnds(t, c) ==
    /\ In(t, "connect_callback", c)
    /\ thread' = [thread EXCEPT ![t] = Idle]
    /\ UNCHANGED <<connections, raced, crashed, connect, chained,
                   kept, told>>
    /\ Closed(Released(c))

ConnectRefused(t, c) ==
    /\ thread[t] = Idle
    /\ connect[c] = "error"
    /\ connect' = [connect EXCEPT ![c] = "done"]
    /\ Goto(t, "refused_callback", c, FALSE)
    /\ Tell(c, "refused")
    /\ UNCHANGED <<connections, raced, crashed, socket, read,
                   chained, kept>>

(* The application's error callback returns, or throws past the cleanup.   *)
RefusedCallbackEnds(t, c) ==
    /\ In(t, "refused_callback", c)
    /\ \/ Goto(t, "cleanup", c, FALSE) /\ UNCHANGED told
       \/ thread' = [thread EXCEPT ![t] = Idle] /\ Tell(c, "stuck")
    /\ UNCHANGED <<connections, raced, crashed, connect, socket,
                   read, chained, kept>>

FaultyErrorHandler(t, c) ==
    /\ In(t, "cleanup", c)
    /\ thread' = [thread EXCEPT ![t] = Idle]
    /\ UNCHANGED <<connections, raced, crashed, connect, socket,
                   read, chained, kept, told>>

(* ErrorHandler looks for the connection in the map ...                    *)
ErrorHandler(t, c) ==
    /\ In(t, "cleanup", c)
    /\ Goto(t, "finding", c, FALSE)
    /\ BeginFind
    /\ UNCHANGED <<connections, crashed, connect, socket, read, chained, kept,
                   told>>

(* ... and removes it, or throws if it is not there.                       *)
Found(t, c) ==
    /\ In(t, "finding", c)
    /\ \/ /\ raced \/ c \in connections
          /\ Goto(t, "erasing", c, FALSE)
          /\ BeginModify(c)
       \/ /\ raced \/ c \notin connections
          /\ thread' = [thread EXCEPT ![t] = Idle]
          /\ UNCHANGED raced
    /\ crashed' \in {FALSE, raced}
    /\ UNCHANGED <<connections, connect, socket, read, chained, kept, told>>

Erase(t, c) ==
    /\ In(t, "erasing", c)
    /\ EndModify(connections \ {c})
    /\ thread' = [thread EXCEPT ![t] = Idle]
    /\ Closed({c})
    /\ UNCHANGED <<raced, connect, chained, kept, told>>
-----------------------------------------------------------------------------
(* The io_service: reading.                                                *)

(* The handle is looked for; if it has gone the data stays where it is.    *)
ReadHandler(t, c) ==
    /\ thread[t] = Idle
    /\ read[c] = "data"
    /\ read' = [read EXCEPT ![c] = "none"]
    /\ Goto(t, "read_callback", c, Held(c))
    /\ UNCHANGED <<connections, raced, crashed, connect, socket,
                   chained, kept, told>>

FaultyReadCallbackReturns(t, c) ==
    /\ In(t, "read_callback", c)
    /\ thread' = [thread EXCEPT ![t] = Idle]
    /\ UNCHANGED <<connections, raced, crashed, connect, chained,
                   kept, told>>
    /\ socket' = [socket EXCEPT ![c] = IF Held(c)' THEN @ ELSE "closed"]
    /\ read' = [read EXCEPT ![c] = IF ~thread[t].lent THEN "none"
                                   ELSE IF socket'[c] = "open" THEN "pending"
                                   ELSE "error"]

(* The handler lets go of the handle, then chains the next read.           *)
ReadCallbackReturns(t, c) ==
    /\ In(t, "read_callback", c)
    /\ thread' = [thread EXCEPT ![t] = Idle]
    /\ UNCHANGED <<connections, raced, crashed, connect, chained,
                   kept, told>>
    /\ socket' = [socket EXCEPT ![c] = IF Held(c)' THEN @ ELSE "closed"]
    /\ read' = [read EXCEPT
                   ![c] = IF socket'[c] = "open" THEN "pending" ELSE "error"]

ReadCallbackThrows(t, c) ==
    /\ In(t, "read_callback", c)
    /\ thread[t].lent
    /\ thread' = [thread EXCEPT ![t] = Idle]
    /\ Tell(c, "stuck")
    /\ UNCHANGED <<connections, raced, crashed, connect, chained,
                   kept>>
    /\ Closed(Released(c))

FaultyReadFailed(t, c) ==
    /\ thread[t] = Idle
    /\ read[c] = "error"
    /\ read' = [read EXCEPT
                   ![c] = IF socket[c] = "open" THEN "pending" ELSE "none"]
    /\ Goto(t, "error_callback", c, Held(c))
    /\ Tell(c, "lost")
    /\ UNCHANGED <<connections, raced, crashed, connect, socket,
                   chained, kept>>

(* A failed read ends the chain, and the application is told; nothing      *)
(* takes the connection out of the map, or breaks the cycle its read       *)
(* callback makes with it.                                                 *)
ReadFailed(t, c) ==
    /\ thread[t] = Idle
    /\ read[c] = "error"
    /\ read' = [read EXCEPT ![c] = "none"]
    /\ Goto(t, "error_callback", c, Held(c))
    /\ Tell(c, "lost")
    /\ UNCHANGED <<connections, raced, crashed, connect, socket,
                   chained, kept>>

ErrorCallbackEnds(t, c) ==
    /\ In(t, "error_callback", c)
    /\ thread' = [thread EXCEPT ![t] = Idle]
    /\ UNCHANGED <<connections, raced, crashed, connect, chained,
                   kept, told>>
    /\ Closed(Released(c))
-----------------------------------------------------------------------------
Application(c) == \/ AsyncConnect(c)
                  \/ LaunchConnect(c)
                  \/ BadAddress(c)
                  \/ Drop(c)
                  \/ Close(c)

Asio(c) == ConnectEnds(c) \/ ReadEnds(c)

Connecting(c) == LaunchConnect(c) \/ BadAddress(c) \/ ConnectEnds(c)

Start(t, c) == \/ ConnectHandler(t, c)
               \/ ConnectRefused(t, c)
               \/ ReadHandler(t, c)
               \/ ReadFailed(t, c)

Continue(t, c) == \/ ConnectCallback(t, c)
                  \/ ConnectCallbackEnds(t, c)
                  \/ RefusedCallbackEnds(t, c)
                  \/ ErrorHandler(t, c)
                  \/ Found(t, c)
                  \/ Erase(t, c)
                  \/ ReadCallbackReturns(t, c)
                  \/ ReadCallbackThrows(t, c)
                  \/ ErrorCallbackEnds(t, c)

Next == /\ ~crashed
        /\ \/ \E c \in Clients : Application(c) \/ Asio(c)
           \/ \E t \in Threads, c \in Clients : Start(t, c) \/ Continue(t, c)
           \/ \E t \in Threads : Keep(t)

(* Calls and callbacks return, an attempt to connect ends one way or the   *)
(* other, and the io_service runs what has completed in that order.        *)
Fairness ==
    /\ \A c \in Clients :
           /\ WF_vars(~crashed /\ Connecting(c))
           /\ SF_vars(~crashed /\ \E t \in Threads : Start(t, c))
    /\ \A t \in Threads : WF_vars(~crashed /\ \E c \in Clients : Continue(t, c))

Spec == Init /\ [][Next]_vars /\ Fairness
-----------------------------------------------------------------------------
(* Safety.                                                                 *)

(* A connected client nobody holds the handle of is closed: dropping it    *)
(* anywhere, before, in or after any callback, does not leave a socket     *)
(* open that nobody can close any more.                                    *)
UnheldAreClosed ==
    \A c \in chained : ~Held(c) => socket[c] = "closed"

(* The closing of a client is noticed, by whatever end and in whatever     *)
(* callback it is closed: until the application is told of its loss, or a  *)
(* callback of its own has thrown, its read is outstanding or has ended,   *)
(* or the callback runs that begins the next; and no read stays            *)
(* outstanding on a closed socket.                                         *)
ClosingIsNoticed ==
    \A c \in chained :
        /\ told[c] \cap {"lost", "stuck"} = {} =>
               \/ read[c] # "none"
               \/ \E t \in Threads : In(t, "read_callback", c)
        /\ socket[c] = "closed" => read[c] # "pending"

(* No call of AsyncConnect is done with before the application has its     *)
(* answer, or the thread that is about to give it.                         *)
ConnectsAreAnswered ==
    \A c \in Clients :
        connect[c] = "done" =>
            told[c] # {} \/ \E t \in Threads : In(t, "connected", c)

(* A client that was refused is out of the map, or a thread is on its way  *)
(* to remove it, unless the application's callback threw or accesses of    *)
(* the map have overlapped.                                                *)
RefusedLeaveTheMap ==
    \A c \in Clients :
        told[c] = {"refused"} =>
            \/ c \notin connections
            \/ \E t \in Threads, at \in {"refused_callback", "cleanup",
                                         "finding", "erasing"} : In(t, at, c)
            \/ raced

(* The life of a client as the application sees it: the answer to          *)
(* AsyncConnect, and the callbacks of what is read.  A read that finds no  *)
(* handle calls nothing back.                                              *)
Answer(c) ==
    IF \E t \in Threads : In(t, "connect_callback", c) THEN "answering"
    ELSE IF \E t \in Threads : In(t, "refused_callback", c) THEN "refusing"
    ELSE IF "connected" \in told[c] THEN "connected"
    ELSE IF "refused" \in told[c] THEN "refused"
    ELSE IF "threw" \in told[c] THEN "threw"
    ELSE IF connect[c] = "new" THEN "new"
    ELSE "connecting"

Reading(c) ==
    IF c \notin chained THEN "none"
    ELSE IF \E t \in Threads : In(t, "read_callback", c) /\ Lent(t, c)
         THEN "delivering"
    ELSE IF \E t \in Threads : In(t, "error_callback", c) THEN "losing"
    ELSE IF "lost" \in told[c] THEN "lost"
    ELSE IF "stuck" \in told[c] THEN "stuck"
    ELSE "open"

Lifecycle == INSTANCE ConnectionLifecycle
                 WITH Overtaking <- \E t, u \in Threads : t # u,
                      answer <- [c \in Clients |-> Answer(c)],
                      reading <- [c \in Clients |-> Reading(c)]

(* On however many threads, AsyncConnect is answered once, the callbacks   *)
(* of a client's data do not overlap, and none comes after the application *)
(* has been told that the connection is lost.  On one thread, and only on  *)
(* one, the connect callback has returned before any of them.              *)
ImplementsLifecycle == Lifecycle!Spec

(* Liveness.                                                               *)

(* A client whose connection is closed, by either end, by a failed write   *)
(* or by its handle going, is reported lost, unless a read callback threw  *)
(* and broke the chain.                                                    *)
LossIsReported ==
    \A c \in Clients :
        c \in chained /\ socket[c] = "closed"
            ~> told[c] \cap {"lost", "stuck"} # {} \/ crashed

(* Every AsyncConnect is answered, and a client that was refused is taken  *)
(* out of the map and forgotten, unless the application's callback threw.  *)
(* Once accesses of the map have overlapped nothing is promised of it.     *)
RefusedAreForgotten ==
    \A c \in Clients :
        connect[c] = "pending"
            ~> told[c] \cap {"connected", "stuck"} # {} \/ Expired(c) \/ raced
-----------------------------------------------------------------------------
(* What the comments say.                                                  *)

(* StreamConnection.cpp:26, of the handle's destructor: "For closing the   *)
(* socket and removing the underlying peer connection."                    *)
DroppedClientsAreRemoved ==
    \A c \in Clients :
        c \in chained /\ ~Held(c) ~> Held(c) \/ Expired(c) \/ crashed
=============================================================================
