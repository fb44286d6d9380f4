---------------------- MODULE ClientConnectionsProofs ----------------------
(***************************************************************************)
(* Proofs about ClientConnections, for any clients and threads: a client   *)
(* nobody holds is closed, and every client has the life the application   *)
(* is promised.  Both hold however badly the map fares.                    *)
(***************************************************************************)
EXTENDS ClientConnections, TLAPS

(* A client that has not been connected, or has not been refused yet.      *)
Unanswered(c) ==
    connect[c] # "done" => /\ told[c] = {}
                           /\ c \notin chained
                           /\ \A t \in Threads, at \in Handlers : ~In(t, at, c)

Unmaking == {"refused_callback", "cleanup", "finding", "erasing"}

Making == {"connected", "connect_callback", "read_callback", "error_callback"}

(* A client that was never connected has no read and no callbacks of one.  *)
Unconnected(c) ==
    c \notin chained =>
        /\ read[c] = "none"
        /\ connect[c] = "done" => told[c] \cap {"threw", "refused"} # {}
        /\ "connected" \notin told[c]
        /\ \A t \in Threads, at \in Making : ~In(t, at, c)

Connected(c) ==
    c \in chained =>
        /\ told[c] \cap {"threw", "refused"} = {}
        /\ \A t \in Threads, at \in Unmaking : ~In(t, at, c)

(* What the application has been told by the callback a thread is in, or   *)
(* is not told before it: the connect callback comes, and comes once.      *)
Replied(c) ==
    /\ \A t, u \in Threads :
           In(t, "connected", c) /\ In(u, "connected", c) => t = u
    /\ \A t \in Threads :
           /\ In(t, "connected", c) => "connected" \notin told[c]
           /\ In(t, "connect_callback", c) => "connected" \in told[c]
           /\ In(t, "error_callback", c) => "lost" \in told[c]
           /\ In(t, "refused_callback", c) => "refused" \in told[c]
    /\ c \in chained =>
           "connected" \in told[c] \/ \E t \in Threads : In(t, "connected", c)

(* The one link of a client's read chain: its read, or its callback; none  *)
(* when the chain has ended.                                               *)
OneLink(c) ==
    /\ \A t, u \in Threads :
           In(t, "read_callback", c) /\ In(u, "read_callback", c) => t = u
    /\ \A t \in Threads :
           In(t, "read_callback", c) => /\ read[c] = "none"
                                        /\ told[c] \cap {"lost", "stuck"} = {}
    /\ told[c] \cap {"lost", "stuck"} # {} => read[c] = "none"

ClosedUnheld(c) == c \in chained /\ ~Held(c) => socket[c] = "closed"

Good(c) == /\ Unanswered(c)
           /\ Unconnected(c)
           /\ Connected(c)
           /\ Replied(c)
           /\ OneLink(c)
           /\ ClosedUnheld(c)

IInv == TypeOK /\ \A c \in Clients : Good(c)
-----------------------------------------------------------------------------
(* What a step does to the clients it is not about.                        *)

Apart(x, d) == x = Idle \/ x.of # d

Frame(d) ==
    /\ connect'[d] = connect[d]
    /\ socket'[d] = socket[d]
    /\ read'[d] = read[d]
    /\ told'[d] = told[d]
    /\ d \in chained' <=> d \in chained
    /\ d \in kept' <=> d \in kept
    /\ \A t \in Threads : \/ thread'[t] = thread[t]
                          \/ Apart(thread[t], d) /\ Apart(thread'[t], d)

LEMMA FrameFacts ==
    ASSUME NEW d \in Clients, Frame(d)
    PROVE  /\ \A t \in Threads, at \in Handlers : In(t, at, d)' <=> In(t, at, d)
           /\ \A t \in Threads : Lent(t, d)' <=> Lent(t, d)
           /\ Held(d)' <=> Held(d)
<1>1. \A t \in Threads, at \in Handlers : In(t, at, d)' <=> In(t, at, d)
  BY DEF Frame, Apart, In
<1>2. \A t \in Threads : Lent(t, d)' <=> Lent(t, d)
  BY DEF Frame, Apart, Lent
<1>3. Held(d)' <=> Held(d)
  BY <1>2 DEF Held, Frame
<1> QED
  BY <1>1, <1>2, <1>3

LEMMA FramedClient ==
    ASSUME NEW d \in Clients, Frame(d), Good(d)
    PROVE  /\ Good(d)'
           /\ Answer(d)' = Answer(d)
           /\ Reading(d)' = Reading(d)
<1>1. /\ \A t \in Threads, at \in Handlers : In(t, at, d)' <=> In(t, at, d)
      /\ \A t \in Threads : Lent(t, d)' <=> Lent(t, d)
      /\ Held(d)' <=> Held(d)
  BY FrameFacts
<1>2. /\ connect'[d] = connect[d]
      /\ socket'[d] = socket[d]
      /\ read'[d] = read[d]
      /\ told'[d] = told[d]
      /\ d \in chained' <=> d \in chained
  BY DEF Frame
<1>3. \A t \in Threads :
          /\ In(t, "read_callback", d)' <=> In(t, "read_callback", d)
          /\ In(t, "error_callback", d)' <=> In(t, "error_callback", d)
          /\ In(t, "connected", d)' <=> In(t, "connected", d)
          /\ In(t, "connect_callback", d)' <=> In(t, "connect_callback", d)
          /\ In(t, "refused_callback", d)' <=> In(t, "refused_callback", d)
  BY <1>1 DEF Handlers
<1>4. \A t \in Threads, at \in Unmaking \cup Making :
          In(t, at, d)' <=> In(t, at, d)
  BY <1>1 DEF Handlers, Unmaking, Making
<1>5. Unanswered(d)'
  BY <1>1, <1>2 DEF Good, Unanswered
<1>6. Unconnected(d)'
  BY <1>2, <1>4 DEF Good, Unconnected
<1>7. Connected(d)'
  BY <1>2, <1>4 DEF Good, Connected
<1>8. Replied(d)'
  BY <1>2, <1>3 DEF Good, Replied
<1>9. OneLink(d)'
  BY <1>2, <1>3 DEF Good, OneLink
<1>10. ClosedUnheld(d)'
  BY <1>1, <1>2 DEF Good, ClosedUnheld
<1>11. Answer(d)' = Answer(d)
  BY <1>2, <1>3 DEF Answer
<1>12. Reading(d)' = Reading(d)
  BY <1>1, <1>2, <1>3 DEF Reading
<1> QED
  BY <1>5, <1>6, <1>7, <1>8, <1>9, <1>10, <1>11, <1>12 DEF Good

(* A thread that is idle or in a handler of c turns to c or to nothing.    *)
LEMMA ThreadOfOne ==
    ASSUME thread \in [Threads -> {Idle} \cup Busy],
           NEW t \in Threads, NEW c \in Clients, NEW x,
           Idle = thread[t] \/ thread[t].of = c,
           Idle = x \/ x.of = c,
           thread' = [thread EXCEPT ![t] = x],
           NEW d \in Clients, d # c
    PROVE  \A u \in Threads : \/ thread'[u] = thread[u]
                              \/ Apart(thread[u], d) /\ Apart(thread'[u], d)
<1> SUFFICES ASSUME NEW u \in Threads
             PROVE  \/ thread'[u] = thread[u]
                    \/ Apart(thread[u], d) /\ Apart(thread'[u], d)
  OBVIOUS
<1>1. CASE u = t
  BY <1>1 DEF Apart
<1>2. CASE u # t
  BY <1>2
<1> QED
  BY <1>1, <1>2
-----------------------------------------------------------------------------
LEMMA InitIInv == Init => IInv
<1> SUFFICES ASSUME Init PROVE IInv
  OBVIOUS
<1>1. TypeOK
  BY DEF Init, TypeOK, Idle
<1>2. ASSUME NEW c \in Clients PROVE Good(c)
  <2>1. \A t \in Threads, at \in Handlers : ~In(t, at, c)
    BY DEF Init, In
  <2>2. Unanswered(c) /\ Unconnected(c) /\ Connected(c) /\ OneLink(c)
        /\ Replied(c)
    BY <2>1 DEF Init, Unanswered, Unconnected, Connected, OneLink, Replied,
                Handlers, Making
  <2>3. ClosedUnheld(c)
    BY DEF Init, ClosedUnheld
  <2> QED
    BY <2>2, <2>3 DEF Good
<1> QED
  BY <1>1, <1>2 DEF IInv

Words == {"threw", "connected", "refused", "lost", "stuck"}

LEMMA Turns ==
    ASSUME TypeOK, NEW t \in Threads, NEW c \in Clients
    PROVE  /\ \A at \in Handlers, lent \in BOOLEAN :
                  Goto(t, at, c, lent)
                      => thread' \in [Threads -> {Idle} \cup Busy]
           /\ thread' = [thread EXCEPT ![t] = Idle]
                  => thread' \in [Threads -> {Idle} \cup Busy]
           /\ \A what \in Words :
                  Tell(c, what) => told' \in [Clients -> SUBSET Words]
<1>1. ASSUME NEW at \in Handlers, NEW lent \in BOOLEAN, Goto(t, at, c, lent)
      PROVE  thread' \in [Threads -> {Idle} \cup Busy]
  <2>1. [at |-> at, of |-> c, lent |-> lent] \in Busy
    BY DEF Busy
  <2> QED
    BY <1>1, <2>1 DEF Goto, TypeOK
<1>2. ASSUME thread' = [thread EXCEPT ![t] = Idle]
      PROVE  thread' \in [Threads -> {Idle} \cup Busy]
  BY <1>2 DEF TypeOK
<1>3. ASSUME NEW what \in Words, Tell(c, what)
      PROVE  told' \in [Clients -> SUBSET Words]
  BY <1>3 DEF Tell, TypeOK, Words
<1> QED
  BY <1>1, <1>2, <1>3

LEMMA TypeStep ==
    ASSUME TypeOK, [Next]_vars
    PROVE  TypeOK'
<1> USE DEF TypeOK, Handlers
<1>1. ASSUME NEW c \in Clients, AsyncConnect(c)
      PROVE  TypeOK'
  BY <1>1 DEF AsyncConnect, BeginModify
<1>2. ASSUME NEW c \in Clients, LaunchConnect(c)
      PROVE  TypeOK'
  BY <1>2 DEF LaunchConnect, EndModify
<1>3. ASSUME NEW c \in Clients, BadAddress(c)
      PROVE  TypeOK'
  BY <1>3, Turns DEF BadAddress, EndModify, Tell
<1>4. ASSUME NEW c \in Clients, Drop(c) \/ Close(c)
      PROVE  TypeOK'
  BY <1>4 DEF Drop, Close, Closed
<1>5. ASSUME NEW t \in Threads, Keep(t)
      PROVE  TypeOK'
  BY <1>5 DEF Keep, Idle, Busy
<1>6. ASSUME NEW c \in Clients, Asio(c)
      PROVE  TypeOK'
  BY <1>6 DEF Asio, ConnectEnds, ReadEnds
<1>7. ASSUME NEW t \in Threads, NEW c \in Clients, Start(t, c)
      PROVE  TypeOK'
  <2>1. Held(c) \in BOOLEAN
    BY DEF Held
  <2>2. CASE ConnectHandler(t, c)
    BY <2>2, Turns DEF ConnectHandler
  <2>3. CASE ConnectRefused(t, c)
    BY <2>3, Turns DEF ConnectRefused, Words
  <2>4. CASE ReadHandler(t, c)
    BY <2>1, <2>4, Turns DEF ReadHandler
  <2>5. CASE ReadFailed(t, c)
    BY <2>1, <2>5, Turns DEF ReadFailed, Words
  <2> QED
    BY <1>7, <2>2, <2>3, <2>4, <2>5 DEF Start
<1>8. ASSUME NEW t \in Threads, NEW c \in Clients, Continue(t, c)
      PROVE  TypeOK'
  <2>1. CASE ConnectCallback(t, c)
    BY <2>1, Turns DEF ConnectCallback, Words
  <2>2. CASE ConnectCallbackEnds(t, c)
    BY <2>2, Turns DEF ConnectCallbackEnds, Closed
  <2>3. CASE ErrorCallbackEnds(t, c)
    BY <2>3, Turns DEF ErrorCallbackEnds, Closed
  <2>4. CASE ReadCallbackThrows(t, c)
    BY <2>4, Turns DEF ReadCallbackThrows, Closed, Words
  <2>5. CASE RefusedCallbackEnds(t, c)
    BY <2>5, Turns DEF RefusedCallbackEnds, Words
  <2>6. CASE ErrorHandler(t, c)
    BY <2>6, Turns DEF ErrorHandler, BeginFind
  <2>7. CASE Erase(t, c)
    BY <2>7, Turns DEF Erase, EndModify, Closed
  <2>8. CASE ReadCallbackReturns(t, c)
    BY <2>8, Turns DEF ReadCallbackReturns
  <2>9. CASE Found(t, c)
    <3>1. raced' \in BOOLEAN /\ crashed' \in BOOLEAN
      BY <2>9 DEF Found, BeginModify
    <3>2. thread' \in [Threads -> {Idle} \cup Busy]
      BY <2>9, Turns DEF Found
    <3> QED
      BY <2>9, <3>1, <3>2 DEF Found
  <2> QED
    BY <1>8, <2>1, <2>2, <2>3, <2>4, <2>5, <2>6, <2>7, <2>8, <2>9 DEF Continue
<1>9. CASE UNCHANGED vars
  BY <1>9 DEF vars
<1> QED
  BY <1>1, <1>2, <1>3, <1>4, <1>5, <1>6, <1>7, <1>8, <1>9
     DEF Next, Application
-----------------------------------------------------------------------------
(* What a step does to the client it is about: the client keeps the        *)
(* invariant, and its life moves as the abstract one may.                  *)

Overtaken == \E t, u \in Threads : t # u

Replies(c) ==
    \/ Answer(c) = "new" /\ Answer(c)' = "connecting"
    \/ /\ Answer(c) = "connecting" /\ Reading(c) = "none"
       /\ Answer(c)' \in {"threw", "refusing"}
    \/ Answer(c) = "refusing" /\ Answer(c)' = "refused"
    \/ /\ Answer(c) = "connecting" /\ Reading(c) # "none"
       /\ Answer(c)' = "answering"
    \/ Answer(c) = "answering" /\ Answer(c)' = "connected"

Receives(c) ==
    \/ /\ Reading(c) = "none" /\ Answer(c) = "connecting"
       /\ Reading(c)' = "open"
    \/ /\ Reading(c) = "open" /\ (Overtaken \/ Answer(c) = "connected")
       /\ Reading(c)' \in {"delivering", "losing"}
    \/ Reading(c) = "delivering" /\ Reading(c)' \in {"open", "stuck"}
    \/ Reading(c) = "losing" /\ Reading(c)' = "lost"

Lives(c) == \/ Answer(c)' = Answer(c) /\ Reading(c)' = Reading(c)
            \/ Reading(c)' = Reading(c) /\ Replies(c)
            \/ Answer(c)' = Answer(c) /\ Receives(c)

Step(c) == /\ Good(c)'
           /\ Lives(c)
           /\ \A d \in Clients \ {c} : Frame(d)

(* The thread is in the handler `at` of c.                                 *)
LEMMA InHandler ==
    ASSUME TypeOK, NEW t \in Threads, NEW c \in Clients, NEW at \in Handlers,
           NEW lent \in BOOLEAN, Goto(t, at, c, lent),
           thread[t] = Idle \/ thread[t].of = c
    PROVE  /\ \A u \in Threads, h \in Handlers :
                  In(u, h, c)' <=> IF u = t THEN h = at ELSE In(u, h, c)
           /\ lent => Held(c)'
           /\ \A u \in Threads :
                  Lent(u, c)' <=> IF u = t THEN lent ELSE Lent(u, c)
           /\ \A d \in Clients \ {c} : \A u \in Threads :
                  \/ thread'[u] = thread[u]
                  \/ Apart(thread[u], d) /\ Apart(thread'[u], d)
<1> DEFINE x == [at |-> at, of |-> c, lent |-> lent]
<1>1. /\ thread \in [Threads -> {Idle} \cup Busy]
      /\ thread' = [thread EXCEPT ![t] = x]
  BY DEF TypeOK, Goto
<1>2. x # Idle /\ x.at = at /\ x.of = c /\ x.lent = lent
  BY DEF Idle, Handlers
<1> HIDE DEF x
<1>3. thread'[t] = x /\ \A u \in Threads \ {t} : thread'[u] = thread[u]
  BY <1>1
<1>4. \A u \in Threads, h \in Handlers :
          In(u, h, c)' <=> IF u = t THEN h = at ELSE In(u, h, c)
  BY <1>2, <1>3 DEF In
<1>5. \A u \in Threads : Lent(u, c)' <=> IF u = t THEN lent ELSE Lent(u, c)
  BY <1>2, <1>3 DEF Lent
<1>6. lent => Held(c)'
  BY <1>5 DEF Held
<1>7. \A d \in Clients \ {c} : \A u \in Threads :
          \/ thread'[u] = thread[u]
          \/ Apart(thread[u], d) /\ Apart(thread'[u], d)
  BY <1>1, <1>2, ThreadOfOne
<1> QED
  BY <1>4, <1>5, <1>6, <1>7

(* The thread leaves a handler of c.                                       *)
LEMMA LeavesHandler ==
    ASSUME TypeOK, NEW t \in Threads, NEW c \in Clients,
           thread' = [thread EXCEPT ![t] = Idle],
           thread[t] = Idle \/ thread[t].of = c
    PROVE  /\ \A u \in Threads, h \in Handlers :
                  In(u, h, c)' <=> u # t /\ In(u, h, c)
           /\ \A u \in Threads : Lent(u, c)' <=> u # t /\ Lent(u, c)
           /\ \A d \in Clients \ {c} : \A u \in Threads :
                  \/ thread'[u] = thread[u]
                  \/ Apart(thread[u], d) /\ Apart(thread'[u], d)
<1>1. thread \in [Threads -> {Idle} \cup Busy]
  BY DEF TypeOK
<1>2. thread'[t] = Idle /\ \A u \in Threads \ {t} : thread'[u] = thread[u]
  BY <1>1
<1>3. \A u \in Threads, h \in Handlers : In(u, h, c)' <=> u # t /\ In(u, h, c)
  BY <1>2 DEF In
<1>4. \A d \in Clients \ {c} : \A u \in Threads :
          \/ thread'[u] = thread[u]
          \/ Apart(thread[u], d) /\ Apart(thread'[u], d)
  BY <1>1, ThreadOfOne
<1>5. \A u \in Threads : Lent(u, c)' <=> u # t /\ Lent(u, c)
  BY <1>2 DEF Lent
<1> QED
  BY <1>3, <1>4, <1>5

(* A thread is idle: if it is the only one, the connect callback of a      *)
(* connected client has returned.                                          *)
LEMMA NothingOvertakes ==
    ASSUME NEW t \in Threads, NEW c \in Clients, thread[t] = Idle,
           c \in chained, Good(c)
    PROVE  Overtaken \/ Answer(c) = "connected"
<1>1. SUFFICES ASSUME \A u \in Threads : u = t
               PROVE  Answer(c) = "connected"
  BY DEF Overtaken
<1>2. \A u \in Threads, h \in Handlers : ~In(u, h, c)
  BY <1>1 DEF In
<1>3. "connected" \in told[c]
  BY <1>2 DEF Good, Replied, Handlers
<1> QED
  BY <1>2, <1>3 DEF Answer, Handlers

LEMMA ReadHandlerStep ==
    ASSUME IInv, NEW t \in Threads, NEW c \in Clients, ReadHandler(t, c)
    PROVE  Step(c)
<1>1. TypeOK /\ Good(c) /\ Held(c) \in BOOLEAN
  BY DEF IInv, Held
<1>2. /\ \A u \in Threads, h \in Handlers :
             In(u, h, c)' <=> IF u = t THEN h = "read_callback" ELSE In(u, h, c)
      /\ \A u \in Threads :
             Lent(u, c)' <=> IF u = t THEN Held(c) ELSE Lent(u, c)
      /\ \A d \in Clients \ {c} : \A u \in Threads :
             \/ thread'[u] = thread[u]
             \/ Apart(thread[u], d) /\ Apart(thread'[u], d)
  BY <1>1, InHandler DEF ReadHandler, Handlers
<1>3. UNCHANGED <<connect, socket, chained, kept, told>>
  BY DEF ReadHandler
<1>4. /\ read[c] = "data" /\ read'[c] = "none"
      /\ \A d \in Clients \ {c} : read'[d] = read[d]
      /\ thread[t] = Idle
  BY <1>1 DEF ReadHandler, TypeOK
<1>5. Held(c)' <=> Held(c)
  BY <1>2, <1>3, <1>4 DEF Held, Lent
<1>6. /\ c \in chained
      /\ connect[c] = "done"
      /\ told[c] \cap {"threw", "refused"} = {}
      /\ told[c] \cap {"lost", "stuck"} = {}
      /\ \A u \in Threads : ~In(u, "read_callback", c)
  BY <1>1, <1>4 DEF Good, Unanswered, Unconnected, Connected, OneLink
<1>7. /\ \A u \in Threads : ~In(u, "error_callback", c)
      /\ \A u \in Threads, h \in Handlers \ {"read_callback"} :
             In(u, h, c)' <=> In(u, h, c)
  BY <1>1, <1>2, <1>4, <1>6 DEF Good, Replied, Handlers, In
<1>8. Reading(c) = "open"
  BY <1>6, <1>7 DEF Reading
<1>9. Lives(c)
  <2>1. Answer(c)' = Answer(c)
    BY <1>3, <1>7 DEF Answer, Handlers
  <2>2. CASE Held(c)
    <3>1. Reading(c)' = "delivering"
      BY <1>2, <1>3, <1>6, <2>2 DEF Reading, Handlers
    <3> QED
      BY <1>1, <1>4, <1>6, <1>8, <2>1, <3>1, NothingOvertakes
      DEF Lives, Receives
  <2>3. CASE ~Held(c)
    <3>1. \A u \in Threads : ~(In(u, "read_callback", c) /\ Lent(u, c))'
      BY <1>2, <1>6, <2>3 DEF Handlers
    <3>2. \A u \in Threads : ~In(u, "error_callback", c)'
      BY <1>7 DEF Handlers
    <3>3. Reading(c)' = "open"
      BY <1>3, <1>6, <3>1, <3>2 DEF Reading
    <3> QED
      BY <1>8, <2>1, <3>3 DEF Lives
  <2> QED
    BY <2>2, <2>3
<1>10. Good(c)'
  <2>1. Unanswered(c)' /\ Unconnected(c)'
    BY <1>3, <1>6 DEF Unanswered, Unconnected
  <2>2. Connected(c)'
    BY <1>1, <1>3, <1>6, <1>7 DEF Good, Connected, Handlers, Unmaking
  <2>3. OneLink(c)'
    BY <1>2, <1>3, <1>4, <1>6 DEF OneLink, Handlers
  <2>4. ClosedUnheld(c)'
    BY <1>1, <1>3, <1>5 DEF Good, ClosedUnheld
  <2>5. Replied(c)'
    BY <1>1, <1>3, <1>6, <1>7 DEF Good, Replied, Handlers
  <2> QED
    BY <2>1, <2>2, <2>3, <2>4, <2>5 DEF Good
<1>11. \A d \in Clients \ {c} : Frame(d)
  BY <1>2, <1>3, <1>4 DEF Frame
<1> QED
  BY <1>9, <1>10, <1>11 DEF Step

LEMMA ConnectingStep ==
    ASSUME IInv, NEW c \in Clients,
           AsyncConnect(c) \/ LaunchConnect(c) \/ ConnectEnds(c)
    PROVE  Step(c)
<1>1. TypeOK /\ Good(c)
  BY DEF IInv
<1>2. /\ connect[c] # "done" /\ connect'[c] \notin {"new", "done"}
      /\ \A d \in Clients \ {c} : /\ connect'[d] = connect[d]
                                  /\ socket'[d] = socket[d]
  BY <1>1 DEF TypeOK, AsyncConnect, LaunchConnect, ConnectEnds
<1>3. UNCHANGED <<thread, read, chained, kept, told>>
  BY DEF AsyncConnect, LaunchConnect, ConnectEnds
<1>4. /\ c \notin chained
      /\ told[c] = {}
      /\ \A u \in Threads, h \in Handlers : ~In(u, h, c)
  BY <1>1, <1>2 DEF Good, Unanswered
<1>5. \A u \in Threads, h \in Handlers : ~In(u, h, c)'
  BY <1>3, <1>4 DEF In
<1>6. Good(c)'
  <2>1. Unanswered(c)'
    BY <1>3, <1>4, <1>5 DEF Unanswered
  <2>2. Unconnected(c)'
    BY <1>1, <1>2, <1>3, <1>4, <1>5 DEF Good, Unconnected, Handlers, Making
  <2>3. Connected(c)' /\ ClosedUnheld(c)'
    BY <1>3, <1>4 DEF Connected, ClosedUnheld
  <2>4. OneLink(c)' /\ Replied(c)'
    BY <1>3, <1>4, <1>5 DEF OneLink, Replied, Handlers
  <2> QED
    BY <2>1, <2>2, <2>3, <2>4 DEF Good
<1>7. Lives(c)
  <2>1. Answer(c) = IF connect[c] = "new" THEN "new" ELSE "connecting"
    BY <1>4 DEF Answer, Handlers
  <2>2. Answer(c)' = "connecting"
    BY <1>2, <1>3, <1>4, <1>5 DEF Answer, Handlers
  <2>3. Reading(c) = "none" /\ Reading(c)' = "none"
    BY <1>3, <1>4 DEF Reading
  <2> QED
    BY <2>1, <2>2, <2>3 DEF Lives, Replies
<1>8. \A d \in Clients \ {c} : Frame(d)
  BY <1>2, <1>3 DEF Frame
<1> QED
  BY <1>6, <1>7, <1>8 DEF Step

LEMMA BadAddressStep ==
    ASSUME IInv, NEW c \in Clients, BadAddress(c)
    PROVE  Step(c)
<1>1. TypeOK /\ Good(c)
  BY DEF IInv
<1>2. /\ connect[c] = "inserting" /\ connect'[c] = "done"
      /\ told'[c] = told[c] \cup {"threw"}
      /\ \A d \in Clients \ {c} : connect'[d] = connect[d] /\ told'[d] = told[d]
  BY <1>1 DEF TypeOK, BadAddress, Tell
<1>3. UNCHANGED <<thread, socket, read, chained, kept>>
  BY DEF BadAddress
<1>4. /\ c \notin chained
      /\ told[c] = {}
      /\ \A u \in Threads, h \in Handlers : ~In(u, h, c)
  BY <1>1, <1>2 DEF Good, Unanswered
<1>5. \A u \in Threads, h \in Handlers : ~In(u, h, c)'
  BY <1>3, <1>4 DEF In
<1>6. Good(c)'
  <2>1. Unanswered(c)' /\ Connected(c)' /\ ClosedUnheld(c)'
    BY <1>2, <1>3, <1>4 DEF Unanswered, Connected, ClosedUnheld
  <2>2. Unconnected(c)'
    BY <1>1, <1>2, <1>3, <1>4, <1>5 DEF Good, Unconnected, Handlers, Making
  <2>3. OneLink(c)' /\ Replied(c)'
    BY <1>2, <1>3, <1>4, <1>5 DEF OneLink, Replied, Handlers
  <2> QED
    BY <2>1, <2>2, <2>3 DEF Good
<1>7. Lives(c)
  <2>1. Answer(c) = "connecting"
    BY <1>2, <1>4 DEF Answer, Handlers
  <2>2. Answer(c)' = "threw"
    BY <1>2, <1>4, <1>5 DEF Answer, Handlers
  <2>3. Reading(c) = "none" /\ Reading(c)' = "none"
    BY <1>3, <1>4 DEF Reading
  <2> QED
    BY <2>1, <2>2, <2>3 DEF Lives, Replies
<1>8. \A d \in Clients \ {c} : Frame(d)
  BY <1>2, <1>3 DEF Frame
<1> QED
  BY <1>6, <1>7, <1>8 DEF Step

(* The application keeps the handle, gives it up, or closes the client; or *)
(* the read completes.                                                     *)
LEMMA HandleStep ==
    ASSUME IInv, NEW c \in Clients,
           \/ Drop(c) \/ Close(c) \/ ReadEnds(c)
           \/ \E t \in Threads : Keep(t) /\ c = thread[t].of
    PROVE  Step(c)
<1>1. TypeOK /\ Good(c)
  BY DEF IInv
<1>2. UNCHANGED <<connect, chained, thread, told>>
  BY DEF Drop, Close, ReadEnds, Keep
<1>3. \A d \in Clients \ {c} : /\ socket'[d] = socket[d]
                               /\ read'[d] = read[d]
                               /\ d \in kept' <=> d \in kept
  BY <1>1 DEF TypeOK, Drop, Close, ReadEnds, Keep, Closed, Released
<1>4. read[c] = "none" <=> read'[c] = "none"
  BY <1>1 DEF TypeOK, Drop, Close, ReadEnds, Keep, Closed, Released
<1>5. ClosedUnheld(c)'
  <2>1. CASE Drop(c)
    BY <1>1, <2>1 DEF TypeOK, Drop, Closed, Released, ClosedUnheld
  <2>2. CASE Close(c)
    BY <1>1, <2>2 DEF TypeOK, Close, Closed, ClosedUnheld
  <2>3. CASE ReadEnds(c)
    BY <1>1, <2>3 DEF ReadEnds, Good, ClosedUnheld, Held, Lent
  <2>4. CASE \E t \in Threads : Keep(t) /\ c = thread[t].of
    BY <2>4 DEF Keep, ClosedUnheld, Held
  <2> QED
    BY <2>1, <2>2, <2>3, <2>4
<1>6. Good(c)'
  <2>1. Unanswered(c)' /\ Unconnected(c)' /\ Connected(c)' /\ OneLink(c)'
        /\ Replied(c)'
    BY <1>1, <1>2, <1>4
       DEF Good, Unanswered, Unconnected, Connected, Replied, OneLink, In
  <2> QED
    BY <1>5, <2>1 DEF Good
<1>7. Answer(c)' = Answer(c) /\ Reading(c)' = Reading(c)
  BY <1>2 DEF Answer, Reading, In, Lent
<1>8. \A d \in Clients \ {c} : Frame(d)
  BY <1>2, <1>3 DEF Frame
<1> QED
  BY <1>6, <1>7, <1>8 DEF Step, Lives

LEMMA ConnectHandlerStep ==
    ASSUME IInv, NEW t \in Threads, NEW c \in Clients, ConnectHandler(t, c)
    PROVE  Step(c)
<1>1. TypeOK /\ Good(c)
  BY DEF IInv
<1>2. /\ \A u \in Threads, h \in Handlers :
             In(u, h, c)' <=> IF u = t THEN h = "connected" ELSE In(u, h, c)
      /\ Held(c)'
      /\ \A d \in Clients \ {c} : \A u \in Threads :
             \/ thread'[u] = thread[u]
             \/ Apart(thread[u], d) /\ Apart(thread'[u], d)
  BY <1>1, InHandler DEF ConnectHandler, Handlers
<1>3. UNCHANGED <<socket, kept, told>> /\ chained' = chained \cup {c}
  BY DEF ConnectHandler
<1>4. /\ connect[c] = "ok" /\ connect'[c] = "done"
      /\ \A d \in Clients \ {c} : connect'[d] = connect[d] /\ read'[d] = read[d]
  BY <1>1 DEF ConnectHandler, TypeOK
<1>5. /\ c \notin chained
      /\ told[c] = {}
      /\ \A u \in Threads, h \in Handlers : ~In(u, h, c)
  BY <1>1, <1>4 DEF Good, Unanswered
<1>6. Good(c)'
  <2>1. Unanswered(c)' /\ Unconnected(c)' /\ ClosedUnheld(c)'
    BY <1>2, <1>3, <1>4 DEF Unanswered, Unconnected, ClosedUnheld
  <2>2. Connected(c)' /\ OneLink(c)'
    BY <1>2, <1>3, <1>5 DEF Connected, OneLink, Handlers, Unmaking
  <2>3. Replied(c)'
    BY <1>2, <1>3, <1>5 DEF Replied, Handlers
  <2> QED
    BY <2>1, <2>2, <2>3 DEF Good
<1>7. Lives(c)
  <2>1. Answer(c) = "connecting" /\ Reading(c) = "none"
    BY <1>4, <1>5 DEF Answer, Reading, Handlers
  <2>2. /\ \A u \in Threads : ~In(u, "connect_callback", c)'
        /\ \A u \in Threads : ~In(u, "refused_callback", c)'
        /\ \A u \in Threads : ~In(u, "read_callback", c)'
        /\ \A u \in Threads : ~In(u, "error_callback", c)'
    BY <1>2, <1>5 DEF Handlers
  <2>3. Answer(c)' = "connecting"
    BY <1>3, <1>4, <1>5, <2>2 DEF Answer
  <2>4. Reading(c)' = "open"
    BY <1>3, <1>5, <2>2 DEF Reading
  <2> QED
    BY <2>1, <2>3, <2>4 DEF Lives, Receives
<1>8. \A d \in Clients \ {c} : Frame(d)
  BY <1>2, <1>3, <1>4 DEF Frame
<1> QED
  BY <1>6, <1>7, <1>8 DEF Step

LEMMA ConnectRefusedStep ==
    ASSUME IInv, NEW t \in Threads, NEW c \in Clients, ConnectRefused(t, c)
    PROVE  Step(c)
<1>1. TypeOK /\ Good(c)
  BY DEF IInv
<1>2. /\ \A u \in Threads, h \in Handlers :
             In(u, h, c)' <=> IF u = t THEN h = "refused_callback"
                                       ELSE In(u, h, c)
      /\ \A d \in Clients \ {c} : \A u \in Threads :
             \/ thread'[u] = thread[u]
             \/ Apart(thread[u], d) /\ Apart(thread'[u], d)
  BY <1>1, InHandler DEF ConnectRefused, Handlers
<1>3. UNCHANGED <<socket, read, chained, kept>>
  BY DEF ConnectRefused
<1>4. /\ connect[c] = "error" /\ connect'[c] = "done"
      /\ told'[c] = told[c] \cup {"refused"}
      /\ \A d \in Clients \ {c} : connect'[d] = connect[d] /\ told'[d] = told[d]
  BY <1>1 DEF ConnectRefused, TypeOK, Tell
<1>5. /\ c \notin chained
      /\ told[c] = {}
      /\ \A u \in Threads, h \in Handlers : ~In(u, h, c)
  BY <1>1, <1>4 DEF Good, Unanswered
<1>6. Good(c)'
  <2>1. Unanswered(c)' /\ Connected(c)' /\ ClosedUnheld(c)'
    BY <1>3, <1>4, <1>5 DEF Unanswered, Connected, ClosedUnheld
  <2>2. Unconnected(c)' /\ OneLink(c)'
    BY <1>1, <1>2, <1>3, <1>4, <1>5
       DEF Good, Unconnected, OneLink, Handlers, Making
  <2>3. Replied(c)'
    BY <1>2, <1>3, <1>4, <1>5 DEF Replied, Handlers
  <2> QED
    BY <2>1, <2>2, <2>3 DEF Good
<1>7. Lives(c)
  <2>1. Answer(c) = "connecting"
    BY <1>4, <1>5 DEF Answer, Handlers
  <2>2. Answer(c)' = "refusing"
    BY <1>2, <1>4, <1>5 DEF Answer, Handlers
  <2>3. Reading(c) = "none" /\ Reading(c)' = "none"
    BY <1>3, <1>5 DEF Reading
  <2> QED
    BY <2>1, <2>2, <2>3 DEF Lives, Replies
<1>8. \A d \in Clients \ {c} : Frame(d)
  BY <1>2, <1>3, <1>4 DEF Frame
<1> QED
  BY <1>6, <1>7, <1>8 DEF Step

LEMMA ConnectCallbackStep ==
    ASSUME IInv, NEW t \in Threads, NEW c \in Clients, ConnectCallback(t, c)
    PROVE  Step(c)
<1>1. TypeOK /\ Good(c) /\ In(t, "connected", c)
  BY DEF IInv, ConnectCallback
<1>2. /\ \A u \in Threads, h \in Handlers :
             In(u, h, c)' <=> IF u = t THEN h = "connect_callback"
                                       ELSE In(u, h, c)
      /\ Held(c)'
      /\ \A u \in Threads : Lent(u, c)' <=> IF u = t THEN TRUE ELSE Lent(u, c)
      /\ \A d \in Clients \ {c} : \A u \in Threads :
             \/ thread'[u] = thread[u]
             \/ Apart(thread[u], d) /\ Apart(thread'[u], d)
  <2>1. /\ thread[t] = Idle \/ thread[t].of = c
        /\ Goto(t, "connect_callback", c, TRUE)
        /\ "connect_callback" \in Handlers
    BY <1>1 DEF ConnectCallback, Handlers, In
  <2> QED
    BY <1>1, <2>1, InHandler
<1>3. UNCHANGED <<connect, socket, read, chained, kept>>
  BY DEF ConnectCallback
<1>4. /\ told'[c] = told[c] \cup {"connected"}
      /\ \A d \in Clients \ {c} : told'[d] = told[d]
  BY <1>1 DEF ConnectCallback, TypeOK, Tell
<1>5. /\ connect[c] = "done"
      /\ c \in chained
      /\ told[c] \cap {"threw", "refused", "connected"} = {}
      /\ \A u \in Threads : /\ In(u, "connected", c) => u = t
                            /\ ~In(u, "connect_callback", c)
                            /\ ~In(u, "refused_callback", c)
  BY <1>1 DEF Good, Unanswered, Unconnected, Connected, Replied, Handlers,
              Making, Unmaking
<1>6. \A u \in Threads :
          /\ In(u, "read_callback", c)' <=> In(u, "read_callback", c)
          /\ In(u, "error_callback", c)' <=> In(u, "error_callback", c)
          /\ In(u, "connect_callback", c)' <=> u = t
          /\ ~In(u, "connected", c)'
          /\ ~In(u, "refused_callback", c)'
          /\ In(u, "read_callback", c) => (Lent(u, c)' <=> Lent(u, c))
  BY <1>1, <1>2, <1>5 DEF Handlers, In
<1>7. Good(c)'
  <2>1. Unanswered(c)' /\ ClosedUnheld(c)'
    BY <1>2, <1>3, <1>5 DEF Unanswered, ClosedUnheld
  <2>2. Unconnected(c)'
    BY <1>3, <1>5 DEF Unconnected
  <2>3. Connected(c)'
    BY <1>1, <1>2, <1>3, <1>4 DEF Good, Connected, Handlers, Unmaking
  <2>4. OneLink(c)'
    BY <1>1, <1>3, <1>4, <1>6 DEF Good, OneLink
  <2>5. Replied(c)'
    BY <1>1, <1>3, <1>4, <1>6 DEF Good, Replied
  <2> QED
    BY <2>1, <2>2, <2>3, <2>4, <2>5 DEF Good
<1>8. Lives(c)
  <2>1. Answer(c) = "connecting" /\ Answer(c)' = "answering"
    BY <1>5, <1>6 DEF Answer
  <2>2. Reading(c)' = Reading(c) /\ Reading(c) # "none"
    BY <1>3, <1>4, <1>5, <1>6 DEF Reading
  <2> QED
    BY <2>1, <2>2 DEF Lives, Replies
<1>9. \A d \in Clients \ {c} : Frame(d)
  BY <1>2, <1>3, <1>4 DEF Frame
<1> QED
  BY <1>7, <1>8, <1>9 DEF Step

(* The callbacks that let go of the handle and tell nothing.               *)
LEMMA CallbackEndsStep ==
    ASSUME IInv, NEW t \in Threads, NEW c \in Clients,
           ConnectCallbackEnds(t, c) \/ ErrorCallbackEnds(t, c)
    PROVE  Step(c)
<1>1. TypeOK /\ Good(c)
  BY DEF IInv
<1>2. /\ \A u \in Threads, h \in Handlers :
             In(u, h, c)' <=> u # t /\ In(u, h, c)
      /\ \A u \in Threads : Lent(u, c)' <=> u # t /\ Lent(u, c)
      /\ \A d \in Clients \ {c} : \A u \in Threads :
             \/ thread'[u] = thread[u]
             \/ Apart(thread[u], d) /\ Apart(thread'[u], d)
  BY <1>1, LeavesHandler DEF ConnectCallbackEnds, ErrorCallbackEnds, In
<1>3. UNCHANGED <<connect, chained, kept, told>> /\ Closed(Released(c))
  BY DEF ConnectCallbackEnds, ErrorCallbackEnds
<1>4. /\ \A d \in Clients \ {c} : socket'[d] = socket[d] /\ read'[d] = read[d]
      /\ read'[c] = "none" <=> read[c] = "none"
  BY <1>1, <1>3 DEF TypeOK, Closed, Released
<1>5. \A h \in Handlers : In(t, h, c) =>
          h = IF ConnectCallbackEnds(t, c) THEN "connect_callback"
                                           ELSE "error_callback"
  BY DEF ConnectCallbackEnds, ErrorCallbackEnds, In
<1>6. \A u \in Threads :
          /\ In(u, "read_callback", c)' <=> In(u, "read_callback", c)
          /\ In(u, "connected", c)' <=> In(u, "connected", c)
          /\ In(u, "refused_callback", c)' <=> In(u, "refused_callback", c)
          /\ In(u, "connect_callback", c)' => In(u, "connect_callback", c)
          /\ In(u, "error_callback", c)' => In(u, "error_callback", c)
          /\ In(u, "read_callback", c) => (Lent(u, c)' <=> Lent(u, c))
  BY <1>2, <1>5 DEF Handlers
<1>7. Good(c)'
  <2>1. Unanswered(c)'
    BY <1>1, <1>2, <1>3 DEF Good, Unanswered
  <2>2. Unconnected(c)'
    BY <1>1, <1>2, <1>3, <1>4 DEF Good, Unconnected, Handlers, Making
  <2>3. Connected(c)'
    BY <1>1, <1>2, <1>3 DEF Good, Connected, Handlers, Unmaking
  <2>4. OneLink(c)'
    BY <1>1, <1>3, <1>4, <1>6 DEF Good, OneLink
  <2>5. ClosedUnheld(c)'
    BY <1>1, <1>3 DEF TypeOK, ClosedUnheld, Closed, Released
  <2>6. Replied(c)'
    BY <1>1, <1>3, <1>6 DEF Good, Replied
  <2> QED
    BY <2>1, <2>2, <2>3, <2>4, <2>5, <2>6 DEF Good
<1>8. ASSUME ConnectCallbackEnds(t, c)
      PROVE  Lives(c)
  <2>1. In(t, "connect_callback", c) /\ c \in chained
        /\ "connected" \in told[c]
    BY <1>1, <1>8 DEF ConnectCallbackEnds, Good, Unconnected, Replied, Making
  <2>2. \A u \in Threads : ~In(u, "refused_callback", c)'
    BY <1>1, <1>6, <2>1 DEF Good, Connected, Unmaking
  <2>3. Answer(c) = "answering" /\ Answer(c)' \in {"answering", "connected"}
    BY <1>3, <2>1, <2>2 DEF Answer
  <2>4. \A u \in Threads :
            In(u, "error_callback", c)' <=> In(u, "error_callback", c)
    BY <1>2, <1>5, <1>8 DEF Handlers
  <2>5. Reading(c)' = Reading(c)
    BY <1>3, <1>6, <2>4 DEF Reading
  <2> QED
    BY <2>3, <2>5 DEF Lives, Replies
<1>9. ASSUME ErrorCallbackEnds(t, c)
      PROVE  Lives(c)
  <2>1. In(t, "error_callback", c) /\ c \in chained /\ "lost" \in told[c]
    BY <1>1, <1>9 DEF ErrorCallbackEnds, Good, Unconnected, Replied, Making
  <2>2. \A u \in Threads : ~In(u, "read_callback", c)
    BY <1>1, <2>1 DEF Good, OneLink
  <2>3. Reading(c) = "losing" /\ Reading(c)' \in {"losing", "lost"}
    BY <1>3, <1>6, <2>1, <2>2 DEF Reading
  <2>4. \A u \in Threads :
            In(u, "connect_callback", c)' <=> In(u, "connect_callback", c)
    <3>1. ~In(t, "connect_callback", c)
      BY <2>1 DEF In
    <3> QED
      BY <1>2, <3>1 DEF Handlers
  <2>5. Answer(c)' = Answer(c)
    BY <1>3, <1>6, <2>4 DEF Answer
  <2> QED
    BY <2>3, <2>5 DEF Lives, Receives
<1>10. \A d \in Clients \ {c} : Frame(d)
  BY <1>2, <1>3, <1>4 DEF Frame
<1> QED
  BY <1>7, <1>8, <1>9, <1>10 DEF Step

(* After a refusal: the error callback, and the cleanup.                   *)
LEMMA RefusedStep ==
    ASSUME IInv, NEW t \in Threads, NEW c \in Clients,
           \/ RefusedCallbackEnds(t, c) \/ ErrorHandler(t, c)
           \/ Found(t, c) \/ Erase(t, c)
    PROVE  Step(c)
<1> USE DEF Unmaking
<1>1. TypeOK /\ Good(c)
  BY DEF IInv
<1>2. \E h \in Unmaking : In(t, h, c)
  BY DEF RefusedCallbackEnds, ErrorHandler, Found, Erase
<1>3. /\ connect[c] = "done"
      /\ c \notin chained
      /\ read[c] = "none"
      /\ told[c] \cap {"threw", "refused"} # {}
      /\ "connected" \notin told[c]
      /\ \A u \in Threads, h \in Making : ~In(u, h, c)
  BY <1>1, <1>2 DEF Good, Unanswered, Unconnected, Connected, Handlers
<1>4. /\ \A u \in Threads, h \in Making : ~In(u, h, c)'
      /\ \A u \in Threads : \/ In(u, "refused_callback", c)'
                                   <=> In(u, "refused_callback", c)
                            \/ /\ u = t
                               /\ ~In(u, "refused_callback", c)'
      /\ \A d \in Clients \ {c} : \A u \in Threads :
             \/ thread'[u] = thread[u]
             \/ Apart(thread[u], d) /\ Apart(thread'[u], d)
  <2>1. thread[t] = Idle \/ thread[t].of = c
    BY <1>2 DEF In
  <2>2. ASSUME NEW h \in {"cleanup", "finding", "erasing"},
               Goto(t, h, c, FALSE)
        PROVE  /\ \A u \in Threads, k \in Handlers :
                      In(u, k, c)' <=> IF u = t THEN k = h ELSE In(u, k, c)
               /\ \A d \in Clients \ {c} : \A u \in Threads :
                      \/ thread'[u] = thread[u]
                      \/ Apart(thread[u], d) /\ Apart(thread'[u], d)
    <3>1. h \in Handlers
      BY DEF Handlers
    <3> QED
      BY <1>1, <2>1, <2>2, <3>1, InHandler
  <2>3. CASE \E h \in {"cleanup", "finding", "erasing"} : Goto(t, h, c, FALSE)
    BY <1>3, <2>2, <2>3 DEF Handlers, Making
  <2>4. CASE thread' = [thread EXCEPT ![t] = Idle]
    <3>1. /\ \A u \in Threads, h \in Handlers :
                 In(u, h, c)' <=> u # t /\ In(u, h, c)
          /\ \A d \in Clients \ {c} : \A u \in Threads :
                 \/ thread'[u] = thread[u]
                 \/ Apart(thread[u], d) /\ Apart(thread'[u], d)
      BY <1>1, <2>1, <2>4, LeavesHandler
    <3>2. \A u \in Threads, h \in Making : ~In(u, h, c)'
      BY <1>3, <3>1 DEF Handlers, Making
    <3>3. \A u \in Threads :
              In(u, "refused_callback", c)'
                  <=> u # t /\ In(u, "refused_callback", c)
      BY <3>1 DEF Handlers
    <3> QED
      BY <3>1, <3>2, <3>3
  <2> QED
    BY <2>3, <2>4 DEF RefusedCallbackEnds, ErrorHandler, Found, Erase
<1>5. UNCHANGED <<connect, chained, kept>>
  BY DEF RefusedCallbackEnds, ErrorHandler, Found, Erase
<1>6. /\ told'[c] = told[c] \/ told'[c] = told[c] \cup {"stuck"}
      /\ \A d \in Clients \ {c} : told'[d] = told[d]
  BY <1>1 DEF TypeOK, RefusedCallbackEnds, ErrorHandler, Found, Erase, Tell
<1>7. read'[c] = "none" /\ \A d \in Clients \ {c} : /\ socket'[d] = socket[d]
                                                    /\ read'[d] = read[d]
  BY <1>1, <1>3
     DEF TypeOK, RefusedCallbackEnds, ErrorHandler, Found, Erase, Closed
<1>8. Good(c)'
  <2>1. Unanswered(c)' /\ Connected(c)' /\ ClosedUnheld(c)'
    BY <1>3, <1>5 DEF Unanswered, Connected, ClosedUnheld
  <2>2. Unconnected(c)' /\ OneLink(c)'
    BY <1>3, <1>4, <1>6, <1>7 DEF Unconnected, OneLink, Making
  <2>3. Replied(c)'
    BY <1>1, <1>3, <1>4, <1>5, <1>6 DEF Good, Replied, Making
  <2> QED
    BY <2>1, <2>2, <2>3 DEF Good
<1>9. Lives(c)
  <2>1. Reading(c) = "none" /\ Reading(c)' = "none"
    BY <1>3, <1>5 DEF Reading
  <2>2. CASE RefusedCallbackEnds(t, c)
    <3>1. In(t, "refused_callback", c) /\ "refused" \in told[c]
      BY <1>1, <2>2 DEF RefusedCallbackEnds, Good, Replied
    <3>2. Answer(c) = "refusing"
      BY <1>3, <3>1 DEF Answer, Making
    <3>3. Answer(c)' \in {"refusing", "refused"}
      BY <1>3, <1>4, <1>6, <3>1 DEF Answer, Making
    <3> QED
      BY <2>1, <3>2, <3>3 DEF Lives, Replies
  <2>3. CASE ErrorHandler(t, c) \/ Found(t, c) \/ Erase(t, c)
    <3>1. ~In(t, "refused_callback", c) /\ told' = told
      BY <2>3 DEF ErrorHandler, Found, Erase, In
    <3>2. \A u \in Threads : In(u, "refused_callback", c)'
                                 <=> In(u, "refused_callback", c)
      BY <1>4, <3>1
    <3>3. Answer(c)' = Answer(c)
      BY <1>3, <1>4, <1>5, <3>1, <3>2 DEF Answer, Making
    <3> QED
      BY <2>1, <3>3 DEF Lives
  <2> QED
    BY <2>2, <2>3
<1>10. \A d \in Clients \ {c} : Frame(d)
  BY <1>4, <1>5, <1>6, <1>7 DEF Frame
<1> QED
  BY <1>8, <1>9, <1>10 DEF Step

(* The read callback returns or throws.                                    *)
LEMMA ReadCallbackStep ==
    ASSUME IInv, NEW t \in Threads, NEW c \in Clients,
           ReadCallbackReturns(t, c) \/ ReadCallbackThrows(t, c)
    PROVE  Step(c)
<1>1. TypeOK /\ Good(c) /\ In(t, "read_callback", c)
  BY DEF IInv, ReadCallbackReturns, ReadCallbackThrows
<1>2. /\ \A u \in Threads, h \in Handlers :
             In(u, h, c)' <=> u # t /\ In(u, h, c)
      /\ \A u \in Threads : Lent(u, c)' <=> u # t /\ Lent(u, c)
      /\ \A d \in Clients \ {c} : \A u \in Threads :
             \/ thread'[u] = thread[u]
             \/ Apart(thread[u], d) /\ Apart(thread'[u], d)
  BY <1>1, LeavesHandler DEF ReadCallbackReturns, ReadCallbackThrows, In
<1>3. /\ c \in chained
      /\ connect[c] = "done"
      /\ read[c] = "none"
      /\ told[c] \cap {"threw", "refused"} = {}
      /\ told[c] \cap {"lost", "stuck"} = {}
      /\ \A u \in Threads : In(u, "read_callback", c) => u = t
  <2>1. c \in chained /\ connect[c] = "done"
    BY <1>1 DEF Good, Unanswered, Unconnected, Handlers, Making
  <2> QED
    BY <1>1, <2>1 DEF Good, Connected, OneLink
<1>4. \A u \in Threads : ~In(u, "read_callback", c)'
  BY <1>2, <1>3 DEF Handlers
<1>5. UNCHANGED <<connect, chained, kept>>
  BY DEF ReadCallbackReturns, ReadCallbackThrows
<1>6. /\ Reading(c) = IF Lent(t, c) THEN "delivering" ELSE "open"
      /\ \A u \in Threads : ~In(u, "error_callback", c)'
      /\ \A u \in Threads, h \in Handlers \ {"read_callback"} :
             In(u, h, c)' <=> In(u, h, c)
  <2>1. \A u \in Threads : ~In(u, "error_callback", c)
    BY <1>1, <1>3 DEF Good, Replied
  <2>2. \A h \in Handlers : In(t, h, c) => h = "read_callback"
    BY <1>1 DEF In
  <2>3. Reading(c) = IF Lent(t, c) THEN "delivering" ELSE "open"
    <3>1. (\E u \in Threads : In(u, "read_callback", c) /\ Lent(u, c))
              <=> Lent(t, c)
      BY <1>1, <1>3
    <3> QED
      BY <1>3, <2>1, <3>1 DEF Reading
  <2> QED
    BY <1>2, <2>1, <2>2, <2>3 DEF Handlers
<1>7. Unanswered(c)' /\ Unconnected(c)'
  BY <1>3, <1>5 DEF Unanswered, Unconnected
<1>8. CASE ReadCallbackReturns(t, c)
  <2>1. told' = told /\ \A d \in Clients \ {c} : /\ socket'[d] = socket[d]
                                                 /\ read'[d] = read[d]
    BY <1>1, <1>8 DEF TypeOK, ReadCallbackReturns
  <2>2. ClosedUnheld(c)'
    BY <1>1, <1>8 DEF TypeOK, ReadCallbackReturns, ClosedUnheld
  <2>3. Connected(c)' /\ Replied(c)'
    BY <1>1, <1>6, <2>1, <1>5 DEF Good, Connected, Replied, Handlers, Unmaking
  <2>4. OneLink(c)'
    BY <1>3, <1>4, <2>1 DEF OneLink
  <2>5. Reading(c)' = "open"
    BY <1>3, <1>4, <1>5, <1>6, <2>1 DEF Reading
  <2>6. Lives(c)
    <3>1. Answer(c)' = Answer(c)
      BY <1>5, <1>6, <2>1 DEF Answer, Handlers
    <3> QED
      BY <1>6, <2>5, <3>1 DEF Lives, Receives
  <2>7. \A d \in Clients \ {c} : Frame(d)
    BY <1>2, <1>5, <2>1 DEF Frame
  <2> QED
    BY <1>7, <2>2, <2>3, <2>4, <2>6, <2>7 DEF Step, Good
<1>9. CASE ReadCallbackThrows(t, c)
  <2>1. /\ told'[c] = told[c] \cup {"stuck"}
        /\ \A d \in Clients \ {c} : told'[d] = told[d]
        /\ Closed(Released(c))
    BY <1>1, <1>9 DEF TypeOK, ReadCallbackThrows, Tell
  <2>2. /\ \A d \in Clients \ {c} : socket'[d] = socket[d] /\ read'[d] = read[d]
        /\ read'[c] = "none"
    BY <1>1, <1>3, <2>1 DEF TypeOK, Closed, Released
  <2>3. ClosedUnheld(c)'
    BY <1>1, <2>1 DEF TypeOK, ClosedUnheld, Closed, Released
  <2>4. Connected(c)' /\ Replied(c)'
    BY <1>1, <1>3, <1>5, <1>6, <2>1
       DEF Good, Connected, Replied, Handlers, Unmaking
  <2>5. OneLink(c)'
    BY <1>4, <2>2 DEF OneLink
  <2>6. Reading(c)' = "stuck"
    BY <1>3, <1>4, <1>5, <1>6, <2>1 DEF Reading
  <2>7. Lives(c)
    <3>1. Answer(c)' = Answer(c)
      BY <1>5, <1>6, <2>1 DEF Answer, Handlers
    <3>2. Lent(t, c)
      BY <1>1, <1>9 DEF ReadCallbackThrows, In, Lent
    <3> QED
      BY <1>6, <2>6, <3>1, <3>2 DEF Lives, Receives
  <2>8. \A d \in Clients \ {c} : Frame(d)
    BY <1>2, <1>5, <2>1, <2>2 DEF Frame
  <2> QED
    BY <1>7, <2>3, <2>4, <2>5, <2>7, <2>8 DEF Step, Good
<1> QED
  BY <1>8, <1>9

LEMMA ReadFailedStep ==
    ASSUME IInv, NEW t \in Threads, NEW c \in Clients, ReadFailed(t, c)
    PROVE  Step(c)
<1>1. TypeOK /\ Good(c) /\ Held(c) \in BOOLEAN
  BY DEF IInv, Held
<1>2. /\ \A u \in Threads, h \in Handlers :
             In(u, h, c)' <=> IF u = t THEN h = "error_callback"
                                       ELSE In(u, h, c)
      /\ \A u \in Threads :
             Lent(u, c)' <=> IF u = t THEN Held(c) ELSE Lent(u, c)
      /\ \A d \in Clients \ {c} : \A u \in Threads :
             \/ thread'[u] = thread[u]
             \/ Apart(thread[u], d) /\ Apart(thread'[u], d)
  BY <1>1, InHandler DEF ReadFailed, Handlers
<1>3. UNCHANGED <<connect, socket, chained, kept>>
  BY DEF ReadFailed
<1>4. /\ read[c] = "error" /\ read'[c] = "none"
      /\ told'[c] = told[c] \cup {"lost"}
      /\ \A d \in Clients \ {c} : read'[d] = read[d] /\ told'[d] = told[d]
      /\ thread[t] = Idle
  BY <1>1 DEF ReadFailed, TypeOK, Tell
<1>5. Held(c)' <=> Held(c)
  BY <1>2, <1>3, <1>4 DEF Held, Lent
<1>6. /\ c \in chained
      /\ connect[c] = "done"
      /\ told[c] \cap {"threw", "refused"} = {}
      /\ told[c] \cap {"lost", "stuck"} = {}
      /\ \A u \in Threads : ~In(u, "read_callback", c)
  BY <1>1, <1>4 DEF Good, Unanswered, Unconnected, Connected, OneLink
<1>7. /\ \A u \in Threads : ~In(u, "read_callback", c)'
      /\ \A u \in Threads : ~In(u, "error_callback", c)
      /\ In(t, "error_callback", c)'
      /\ \A u \in Threads, h \in Handlers \ {"error_callback"} :
             In(u, h, c)' <=> In(u, h, c)
  BY <1>1, <1>2, <1>4, <1>6 DEF Good, Replied, Handlers, In
<1>8. Good(c)'
  <2>1. Unanswered(c)' /\ Unconnected(c)'
    BY <1>3, <1>6 DEF Unanswered, Unconnected
  <2>2. Connected(c)'
    BY <1>1, <1>3, <1>4, <1>6, <1>7 DEF Good, Connected, Handlers, Unmaking
  <2>3. OneLink(c)'
    BY <1>4, <1>7 DEF OneLink
  <2>4. ClosedUnheld(c)'
    BY <1>1, <1>3, <1>5 DEF Good, ClosedUnheld
  <2>5. Replied(c)'
    BY <1>1, <1>3, <1>4, <1>7 DEF Good, Replied, Handlers
  <2> QED
    BY <2>1, <2>2, <2>3, <2>4, <2>5 DEF Good
<1>9. Lives(c)
  <2>1. Reading(c) = "open" /\ Reading(c)' = "losing"
    BY <1>3, <1>6, <1>7 DEF Reading
  <2>2. Answer(c)' = Answer(c)
    BY <1>3, <1>4, <1>7 DEF Answer, Handlers
  <2> QED
    BY <1>1, <1>4, <1>6, <2>1, <2>2, NothingOvertakes DEF Lives, Receives
<1>10. \A d \in Clients \ {c} : Frame(d)
  BY <1>2, <1>3, <1>4 DEF Frame
<1> QED
  BY <1>8, <1>9, <1>10 DEF Step
-----------------------------------------------------------------------------
(* Every step is about one client.                                         *)
LEMMA EveryStep ==
    ASSUME IInv, Next
    PROVE  \E c \in Clients : Step(c)
<1>1. ASSUME NEW c \in Clients, Application(c) \/ Asio(c)
      PROVE  Step(c)
  BY <1>1, ConnectingStep, BadAddressStep, HandleStep DEF Application, Asio
<1>2. ASSUME NEW t \in Threads, NEW c \in Clients, Start(t, c)
      PROVE  Step(c)
  BY <1>2, ConnectHandlerStep, ConnectRefusedStep, ReadHandlerStep,
     ReadFailedStep DEF Start
<1>3. ASSUME NEW t \in Threads, NEW c \in Clients, Continue(t, c)
      PROVE  Step(c)
  BY <1>3, ConnectCallbackStep, CallbackEndsStep, RefusedStep,
     ReadCallbackStep DEF Continue
<1>4. ASSUME NEW t \in Threads, Keep(t)
      PROVE  thread[t].of \in Clients /\ Step(thread[t].of)
  <2>1. thread[t].of \in Clients
    BY <1>4 DEF IInv, TypeOK, Keep, Busy
  <2> QED
    BY <1>4, <2>1, HandleStep
<1> QED
  BY <1>1, <1>2, <1>3, <1>4 DEF Next

LEMMA InvStep ==
    ASSUME IInv, [Next]_vars
    PROVE  IInv'
<1>1. TypeOK'
  BY TypeStep DEF IInv
<1>2. CASE Next
  <2>1. PICK c \in Clients : Step(c)
    BY <1>2, EveryStep
  <2>2. \A d \in Clients \ {c} : Good(d)'
    BY <2>1, FramedClient DEF Step, IInv
  <2> QED
    BY <1>1, <2>1, <2>2 DEF Step, IInv
<1>3. CASE UNCHANGED vars
  <2>1. ASSUME NEW d \in Clients PROVE Good(d)'
    BY <1>3, FramedClient DEF vars, Frame, IInv
  <2> QED
    BY <1>1, <2>1 DEF IInv
<1> QED
  BY <1>2, <1>3

(* The types and every client's part of the invariant hold in every state. *)
THEOREM ClientsInvariance == Spec => []IInv
<1> QED
  BY InitIInv, InvStep, PTL DEF Spec

(* A connected client whose handle nobody has any more is closed, whatever *)
(* the order in which callbacks and the application let go of it           *)
(* (StreamConnection.cpp:26-33).                                           *)
THEOREM UnheldClientsAreClosed == Spec => []UnheldAreClosed
<1>1. IInv => UnheldAreClosed
  BY DEF IInv, TypeOK, Good, ClosedUnheld, UnheldAreClosed
<1> QED
  BY <1>1, ClientsInvariance, PTL

LEMMA RefinesNext ==
    ASSUME IInv, [Next]_vars
    PROVE  [Lifecycle!Next]_<<[c \in Clients |-> Answer(c)],
                              [c \in Clients |-> Reading(c)]>>
<1> DEFINE answer == [c \in Clients |-> Answer(c)]
           reading == [c \in Clients |-> Reading(c)]
<1>1. CASE Next
  <2>1. PICK c \in Clients : Step(c)
    BY <1>1, EveryStep
  <2>2. \A d \in Clients \ {c} : Answer(d)' = Answer(d)
                                 /\ Reading(d)' = Reading(d)
    BY <2>1, FramedClient DEF Step, IInv
  <2>3. /\ answer' = [answer EXCEPT ![c] = Answer(c)']
        /\ reading' = [reading EXCEPT ![c] = Reading(c)']
        /\ answer[c] = Answer(c) /\ reading[c] = Reading(c)
    BY <2>2
  <2>4. CASE Answer(c)' = Answer(c) /\ Reading(c)' = Reading(c)
    BY <2>2, <2>4
  <2>5. CASE Reading(c)' = Reading(c) /\ Replies(c)
    <3>1. reading' = reading
      BY <2>2, <2>5
    <3>2. \/ Lifecycle!AsyncConnect(c) \/ Lifecycle!Throw(c)
          \/ Lifecycle!Refuse(c) \/ Lifecycle!Refused(c)
          \/ Lifecycle!Connect(c) \/ Lifecycle!Connected(c)
      BY <2>3, <2>5, <3>1
         DEF Replies, Lifecycle!AsyncConnect, Lifecycle!Throw,
             Lifecycle!Refuse, Lifecycle!Refused, Lifecycle!Connect,
             Lifecycle!Connected, Lifecycle!Answers
    <3> QED
      BY <3>2 DEF Lifecycle!Next
  <2>6. CASE Answer(c)' = Answer(c) /\ Receives(c)
    <3>1. answer' = answer
      BY <2>2, <2>6
    <3>2. \/ Lifecycle!Open(c) \/ Lifecycle!Deliver(c)
          \/ Lifecycle!Delivered(c) \/ Lifecycle!Lose(c) \/ Lifecycle!Lost(c)
      BY <2>3, <2>6, <3>1
         DEF Receives, Overtaken, Lifecycle!Open, Lifecycle!Deliver,
             Lifecycle!Delivered, Lifecycle!Lose, Lifecycle!Lost,
             Lifecycle!Reads
    <3> QED
      BY <3>2 DEF Lifecycle!Next
  <2> QED
    BY <2>1, <2>4, <2>5, <2>6 DEF Step, Lives
<1>2. CASE UNCHANGED vars
  <2>1. ASSUME NEW d \in Clients
        PROVE  Answer(d)' = Answer(d) /\ Reading(d)' = Reading(d)
    BY <1>2, FramedClient DEF vars, Frame, IInv
  <2> QED
    BY <2>1
<1> QED
  BY <1>1, <1>2

(* AsyncConnect is answered once, a client's read callbacks do not overlap *)
(* and its loss is the last word, for any clients and threads, though the  *)
(* map is not locked.  Where one thread runs the io_service the connect    *)
(* callback has returned first; with more, data may overtake it            *)
(* (IoServices.cpp:118-168, IoCircularBuffer.cpp:109-134).                 *)
THEOREM ClientsLiveAsPromised == Spec => ImplementsLifecycle
<1>1. Init => Lifecycle!Init
  <2> SUFFICES ASSUME Init PROVE Lifecycle!Init
    OBVIOUS
  <2>1. \A c \in Clients : Answer(c) = "new" /\ Reading(c) = "none"
    BY DEF Init, Answer, Reading, In
  <2> QED
    BY <2>1 DEF Lifecycle!Init
<1> QED
  BY <1>1, ClientsInvariance, RefinesNext, PTL
     DEF Spec, ImplementsLifecycle, Lifecycle!Spec
-----------------------------------------------------------------------------
(* What a client comes to: its connect is answered, its closing noticed,   *)
(* its refusal followed by its removal.                                    *)

(* Nobody has the handle of a client that is not connected, so that its    *)
(* socket is open when the read chain starts.                              *)
Fresh(c) ==
    /\ connect[c] # "done" => c \notin kept
    /\ connect[c] \in {"pending", "ok", "error"} => socket[c] = "open"

Answered(c) ==
    connect[c] = "done" =>
        told[c] # {} \/ \E t \in Threads : In(t, "connected", c)

Noticed(c) ==
    c \in chained =>
        /\ told[c] \cap {"lost", "stuck"} = {} =>
               \/ read[c] # "none"
               \/ \E t \in Threads : In(t, "read_callback", c)
        /\ socket[c] = "closed" => read[c] # "pending"

Removed(c) ==
    told[c] = {"refused"} =>
        \/ c \notin connections
        \/ \E t \in Threads, at \in Unmaking : In(t, at, c)
        \/ raced

Followed(c) == Fresh(c) /\ Answered(c) /\ Noticed(c) /\ Removed(c)

LEMMA FramedFollowed ==
    ASSUME NEW d \in Clients, Frame(d), Followed(d),
           d \in connections' => d \in connections, raced => raced'
    PROVE  Followed(d)'
<1>1. \A t \in Threads, at \in Handlers : In(t, at, d)' <=> In(t, at, d)
  BY FrameFacts
<1>2. Fresh(d)'
  BY DEF Followed, Fresh, Frame
<1>3. Answered(d)'
  BY <1>1 DEF Followed, Answered, Frame, Handlers
<1>4. Noticed(d)'
  BY <1>1 DEF Followed, Noticed, Frame, Handlers
<1>5. Removed(d)'
  BY <1>1 DEF Followed, Removed, Frame, Handlers, Unmaking
<1> QED
  BY <1>2, <1>3, <1>4, <1>5 DEF Followed

(* A step follows the client it is about, and enters no other in the map.  *)
Follows(c) == /\ Step(c)
              /\ Followed(c)'
              /\ raced => raced'
              /\ \A d \in Clients \ {c} : d \in connections' => d \in connections

LEMMA FollowsConnecting ==
    ASSUME IInv, NEW c \in Clients, Followed(c),
           AsyncConnect(c) \/ LaunchConnect(c) \/ BadAddress(c) \/ ConnectEnds(c)
    PROVE  Follows(c)
<1>1. TypeOK /\ Good(c)
  BY DEF IInv
<1>2. /\ told[c] = {}
      /\ c \notin chained
      /\ c \notin kept
  BY <1>1 DEF Good, Unanswered, Followed, Fresh, AsyncConnect, LaunchConnect,
              BadAddress, ConnectEnds
<1>3. \/ connect'[c] = "done" /\ told'[c] = {"threw"}
      \/ connect'[c] = "inserting" /\ told'[c] = {}
      \/ /\ connect'[c] \in {"pending", "ok", "error"}
         /\ socket'[c] = "open"
         /\ told'[c] = {}
  BY <1>1, <1>2 DEF TypeOK, AsyncConnect, LaunchConnect, BadAddress,
                    ConnectEnds, Tell, Followed, Fresh
<1>4. UNCHANGED <<chained, kept>>
  BY DEF AsyncConnect, LaunchConnect, BadAddress, ConnectEnds
<1>5. Followed(c)'
  BY <1>2, <1>3, <1>4 DEF Followed, Fresh, Answered, Noticed, Removed
<1>6. \A d \in Clients \ {c} : d \in connections' => d \in connections
  BY <1>1 DEF AsyncConnect, LaunchConnect, BadAddress, ConnectEnds, EndModify
<1>7. raced => raced'
  BY DEF AsyncConnect, LaunchConnect, BadAddress, ConnectEnds, BeginModify
<1> QED
  BY <1>5, <1>6, <1>7, ConnectingStep, BadAddressStep DEF Follows

LEMMA FollowsHandle ==
    ASSUME IInv, NEW c \in Clients, Followed(c),
           \/ Drop(c) \/ Close(c) \/ ReadEnds(c)
           \/ \E t \in Threads : Keep(t) /\ c = thread[t].of
    PROVE  Follows(c)
<1>1. TypeOK /\ Good(c)
  BY DEF IInv
<1>2. UNCHANGED <<connect, chained, thread, told, connections, raced>>
  BY DEF Drop, Close, ReadEnds, Keep
<1>3. connect[c] = "done" \/ UNCHANGED <<kept, socket>>
  <2>1. ASSUME NEW t \in Threads, Keep(t), c = thread[t].of
        PROVE  connect[c] = "done"
    <3>1. In(t, thread[t].at, c) /\ thread[t].at \in Handlers
      BY <1>1, <2>1 DEF TypeOK, Keep, Busy, In
    <3> QED
      BY <1>1, <3>1 DEF Good, Unanswered
  <2>2. CASE Drop(c)
    BY <2>2 DEF Drop, Followed, Fresh
  <2>3. CASE Close(c)
    <3>1. CASE c \in kept
      BY <3>1 DEF Followed, Fresh
    <3>2. ASSUME NEW t \in Threads, Lent(t, c)
          PROVE  connect[c] = "done"
      <4>1. In(t, thread[t].at, c) /\ thread[t].at \in Handlers
        BY <1>1, <3>2 DEF TypeOK, Lent, Busy, In
      <4> QED
        BY <1>1, <4>1 DEF Good, Unanswered
    <3> QED
      BY <2>3, <3>1, <3>2 DEF Close, Held
  <2>4. CASE ReadEnds(c)
    BY <2>4 DEF ReadEnds
  <2> QED
    BY <2>1, <2>2, <2>3, <2>4
<1>4. /\ read[c] # "none" => read'[c] # "none"
      /\ (socket[c] = "closed" => read[c] # "pending")
             => (socket'[c] = "closed" => read'[c] # "pending")
  BY <1>1 DEF TypeOK, Drop, Close, ReadEnds, Keep, Closed, Released
<1>5. Followed(c)'
  <2>1. Fresh(c)'
    BY <1>2, <1>3 DEF Followed, Fresh
  <2>2. Noticed(c)'
    BY <1>2, <1>4 DEF Followed, Noticed, In
  <2>3. Answered(c)' /\ Removed(c)'
    BY <1>2 DEF Followed, Answered, Removed, In
  <2> QED
    BY <2>1, <2>2, <2>3 DEF Followed
<1> QED
  BY <1>2, <1>5, HandleStep DEF Follows

LEMMA FollowsStart ==
    ASSUME IInv, NEW t \in Threads, NEW c \in Clients, Followed(c), Start(t, c)
    PROVE  Follows(c)
<1>1. TypeOK /\ Good(c) /\ Held(c) \in BOOLEAN
  BY DEF IInv, Held
<1>2. UNCHANGED <<socket, kept, connections, raced>>
  BY DEF Start, ConnectHandler, ConnectRefused, ReadHandler, ReadFailed
<1>3. CASE ConnectHandler(t, c)
  <2>1. In(t, "connected", c)'
    BY <1>1, <1>3, InHandler DEF ConnectHandler, Handlers
  <2>2. connect'[c] = "done" /\ read'[c] = "pending" /\ socket'[c] = "open"
    BY <1>1, <1>2, <1>3 DEF TypeOK, ConnectHandler, Followed, Fresh
  <2>3. told'[c] = {}
    BY <1>1, <1>3 DEF ConnectHandler, Good, Unanswered
  <2>4. Followed(c)'
    BY <2>1, <2>2, <2>3 DEF Followed, Fresh, Answered, Noticed, Removed
  <2> QED
    BY <1>2, <1>3, <2>4, ConnectHandlerStep DEF Follows
<1>4. CASE ConnectRefused(t, c)
  <2>1. In(t, "refused_callback", c)'
    BY <1>1, <1>4, InHandler DEF ConnectRefused, Handlers
  <2>2. connect'[c] = "done" /\ c \notin chained' /\ "refused" \in told'[c]
    BY <1>1, <1>4 DEF TypeOK, ConnectRefused, Tell, Good, Unanswered
  <2>3. Followed(c)'
    BY <2>1, <2>2 DEF Followed, Fresh, Answered, Noticed, Removed, Unmaking
  <2> QED
    BY <1>2, <1>4, <2>3, ConnectRefusedStep DEF Follows
<1>5. CASE ReadHandler(t, c)
  <2>1. \A u \in Threads, h \in Handlers :
            In(u, h, c)' <=> IF u = t THEN h = "read_callback" ELSE In(u, h, c)
    BY <1>1, <1>5, InHandler DEF ReadHandler, Handlers
  <2>2. In(t, "read_callback", c)' /\ read'[c] = "none"
    BY <1>1, <1>5, <2>1 DEF TypeOK, ReadHandler, Handlers
  <2>3. UNCHANGED <<connect, chained, told>> /\ thread[t] = Idle
    BY <1>5 DEF ReadHandler
  <2>4. \A u \in Threads, h \in Handlers : In(u, h, c) => In(u, h, c)'
    BY <2>1, <2>3 DEF In
  <2>5. Fresh(c)' /\ Noticed(c)'
    BY <1>2, <2>2, <2>3 DEF Followed, Fresh, Noticed
  <2>6. Answered(c)'
    BY <2>3, <2>4 DEF Followed, Answered, Handlers
  <2>7. Removed(c)'
    BY <1>2, <2>3, <2>4 DEF Followed, Removed, Handlers, Unmaking
  <2> QED
    BY <1>2, <1>5, <2>5, <2>6, <2>7, ReadHandlerStep DEF Follows, Followed
<1>6. CASE ReadFailed(t, c)
  <2>1. read'[c] = "none" /\ "lost" \in told'[c]
    BY <1>1, <1>6 DEF TypeOK, ReadFailed, Tell
  <2>2. UNCHANGED <<connect, chained>>
    BY <1>6 DEF ReadFailed
  <2>3. Followed(c)'
    BY <1>2, <2>1, <2>2 DEF Followed, Fresh, Answered, Noticed, Removed
  <2> QED
    BY <1>2, <1>6, <2>3, ReadFailedStep DEF Follows
<1> QED
  BY <1>3, <1>4, <1>5, <1>6 DEF Start

(* The callbacks of a connected client end.                                *)
LEMMA FollowsCallback ==
    ASSUME IInv, NEW t \in Threads, NEW c \in Clients, Followed(c),
           \/ ConnectCallback(t, c)
           \/ ConnectCallbackEnds(t, c)
           \/ ErrorCallbackEnds(t, c)
           \/ ReadCallbackReturns(t, c)
           \/ ReadCallbackThrows(t, c)
    PROVE  Follows(c)
<1>1. TypeOK /\ Good(c)
  BY DEF IInv
<1>2. \E h \in Handlers \ Unmaking : In(t, h, c)
  BY DEF ConnectCallback, ConnectCallbackEnds, ErrorCallbackEnds,
         ReadCallbackReturns, ReadCallbackThrows, Handlers, Unmaking
<1>3. connect[c] = "done" /\ (thread[t] = Idle \/ thread[t].of = c)
  BY <1>1, <1>2 DEF Good, Unanswered, In
<1>4. UNCHANGED <<connect, chained, kept, connections, raced>>
  BY DEF ConnectCallback, ConnectCallbackEnds, ErrorCallbackEnds,
         ReadCallbackReturns, ReadCallbackThrows
<1>5. Fresh(c)'
  BY <1>3, <1>4 DEF Fresh
<1>6. \A u \in Threads, h \in Handlers : u # t => (In(u, h, c)' <=> In(u, h, c))
  <2>1. CASE ConnectCallback(t, c)
    <3>1. Goto(t, "connect_callback", c, TRUE) /\ "connect_callback" \in Handlers
      BY <2>1 DEF ConnectCallback, Handlers
    <3> QED
      BY <1>1, <1>3, <3>1, InHandler
  <2>2. CASE thread' = [thread EXCEPT ![t] = Idle]
    BY <1>1, <1>3, <2>2, LeavesHandler
  <2> QED
    BY <2>1, <2>2 DEF ConnectCallbackEnds, ErrorCallbackEnds,
                      ReadCallbackReturns, ReadCallbackThrows
<1>7. told'[c] = told[c] \/ told'[c] = told[c] \cup {"connected"}
                         \/ told'[c] = told[c] \cup {"stuck"}
  BY <1>1 DEF TypeOK, ConnectCallback, ConnectCallbackEnds, ErrorCallbackEnds,
              ReadCallbackReturns, ReadCallbackThrows, Tell
<1>8. Removed(c)'
  <2>1. SUFFICES ASSUME told'[c] = {"refused"} PROVE Removed(c)'
    BY DEF Removed
  <2>2. told[c] = {"refused"}
    BY <1>1, <1>7, <2>1 DEF TypeOK
  <2>3. \A at \in Unmaking : ~In(t, at, c)
    BY <1>2 DEF In
  <2>4. \A u \in Threads, at \in Unmaking : In(u, at, c) => In(u, at, c)'
    BY <1>6, <2>3 DEF Handlers, Unmaking
  <2> QED
    BY <1>4, <2>2, <2>4 DEF Followed, Removed
<1>9. Answered(c)'
  <2>1. CASE told'[c] # {}
    BY <2>1 DEF Answered
  <2>2. CASE told'[c] = {}
    <3>1. told[c] = {} /\ ~In(t, "connected", c)
      <4>1. told[c] = {}
        BY <1>7, <2>2
      <4>2. ~ConnectCallback(t, c)
        <5>1. SUFFICES ASSUME ConnectCallback(t, c) PROVE FALSE
          OBVIOUS
        <5>2. told' = [told EXCEPT ![c] = told[c] \cup {"connected"}]
          BY <5>1 DEF ConnectCallback, Tell
        <5>3. DOMAIN told = Clients
          BY <1>1 DEF TypeOK
        <5> QED
          BY <2>2, <5>2, <5>3
      <4> QED
        BY <4>1, <4>2 DEF ConnectCallbackEnds, ErrorCallbackEnds,
                          ReadCallbackReturns, ReadCallbackThrows, In
    <3>2. PICK u \in Threads : In(u, "connected", c)
      BY <1>3, <3>1 DEF Followed, Answered
    <3>3. In(u, "connected", c)'
      BY <1>6, <3>1, <3>2 DEF Handlers
    <3> QED
      BY <3>3 DEF Answered
  <2> QED
    BY <2>1, <2>2
<1>10. Noticed(c)'
  <2>1. CASE ConnectCallback(t, c)
    <3>1. UNCHANGED <<socket, read, chained>>
      BY <2>1 DEF ConnectCallback
    <3>2. ~In(t, "read_callback", c)
      BY <2>1 DEF ConnectCallback, In
    <3> QED
      BY <1>6, <1>7, <3>1, <3>2 DEF Followed, Noticed, Handlers
  <2>2. CASE ConnectCallbackEnds(t, c) \/ ErrorCallbackEnds(t, c)
    <3>1. chained' = chained /\ Closed(Released(c))
      BY <2>2 DEF ConnectCallbackEnds, ErrorCallbackEnds
    <3>2. ~In(t, "read_callback", c)
      BY <2>2 DEF ConnectCallbackEnds, ErrorCallbackEnds, In
    <3>3. /\ read[c] # "none" => read'[c] # "none"
          /\ (socket[c] = "closed" => read[c] # "pending")
                 => (socket'[c] = "closed" => read'[c] # "pending")
      BY <1>1, <3>1 DEF TypeOK, Closed, Released
    <3> QED
      BY <1>6, <1>7, <3>1, <3>2, <3>3 DEF Followed, Noticed, Handlers
  <2>3. CASE ReadCallbackReturns(t, c)
    BY <1>1, <2>3 DEF TypeOK, ReadCallbackReturns, Noticed
  <2>4. CASE ReadCallbackThrows(t, c)
    <3>1. read[c] = "none" /\ "stuck" \in told'[c] /\ Closed(Released(c))
      BY <1>1, <2>4
         DEF TypeOK, ReadCallbackThrows, Good, OneLink, Tell
    <3>2. read'[c] = "none"
      BY <1>1, <3>1 DEF TypeOK, Closed
    <3> QED
      BY <3>1, <3>2 DEF Noticed
  <2> QED
    BY <2>1, <2>2, <2>3, <2>4
<1> QED
  BY <1>4, <1>5, <1>8, <1>9, <1>10, ConnectCallbackStep, CallbackEndsStep,
     ReadCallbackStep DEF Follows, Followed

(* A refused client on its way out of the map.                             *)
LEMMA FollowsRefused ==
    ASSUME IInv, NEW t \in Threads, NEW c \in Clients, Followed(c),
           \/ RefusedCallbackEnds(t, c) \/ ErrorHandler(t, c)
           \/ Found(t, c) \/ Erase(t, c)
    PROVE  Follows(c)
<1>1. TypeOK /\ Good(c)
  BY DEF IInv
<1>2. \E h \in Unmaking : In(t, h, c)
  BY DEF RefusedCallbackEnds, ErrorHandler, Found, Erase, Unmaking
<1>3. /\ connect[c] = "done"
      /\ c \notin chained
      /\ told[c] # {}
      /\ thread[t] = Idle \/ thread[t].of = c
  BY <1>1, <1>2 DEF Good, Unanswered, Unconnected, Connected, Handlers,
                    Unmaking, In
<1>4. UNCHANGED <<connect, chained, kept>>
  BY DEF RefusedCallbackEnds, ErrorHandler, Found, Erase
<1>5. told'[c] = told[c] \/ "stuck" \in told'[c]
  <2>1. Tell(c, "stuck") => "stuck" \in told'[c]
    BY <1>1 DEF TypeOK, Tell
  <2> QED
    BY <2>1 DEF RefusedCallbackEnds, ErrorHandler, Found, Erase
<1>6. Fresh(c)' /\ Answered(c)' /\ Noticed(c)'
  BY <1>3, <1>4, <1>5 DEF Fresh, Answered, Noticed
<1>7. Removed(c)'
  <2>1. ASSUME NEW h \in {"cleanup", "finding", "erasing"}, Goto(t, h, c, FALSE)
        PROVE  Removed(c)'
    <3>1. h \in Handlers
      BY DEF Handlers
    <3>2. In(t, h, c)'
      BY <1>1, <1>3, <2>1, <3>1, InHandler
    <3> QED
      BY <3>2 DEF Removed, Unmaking
  <2>2. CASE RefusedCallbackEnds(t, c)
    <3>1. CASE Goto(t, "cleanup", c, FALSE)
      BY <2>1, <3>1
    <3>2. CASE Tell(c, "stuck")
      BY <1>1, <3>2 DEF TypeOK, Tell, Removed
    <3> QED
      BY <2>2, <3>1, <3>2 DEF RefusedCallbackEnds
  <2>3. CASE ErrorHandler(t, c)
    BY <2>1, <2>3 DEF ErrorHandler
  <2>5. CASE Found(t, c)
    <3>1. CASE Goto(t, "erasing", c, FALSE)
      BY <2>1, <3>1
    <3>2. CASE raced \/ c \notin connections
      <4>1. raced' = (raced \/ raced') /\ connections' = connections
        BY <1>1, <2>5 DEF TypeOK, Found, BeginModify
      <4> QED
        BY <3>2, <4>1 DEF Removed
    <3> QED
      BY <2>5, <3>1, <3>2 DEF Found
  <2>4. CASE Erase(t, c)
    BY <2>4 DEF Erase, EndModify, Removed
  <2> QED
    BY <2>2, <2>3, <2>4, <2>5
<1>8. \A d \in Clients \ {c} : d \in connections' => d \in connections
  BY DEF RefusedCallbackEnds, ErrorHandler, Found, Erase, EndModify
<1>9. raced => raced'
  BY DEF RefusedCallbackEnds, ErrorHandler, Found, Erase, BeginFind, BeginModify
<1> QED
  BY <1>6, <1>7, <1>8, <1>9, RefusedStep DEF Follows, Followed

LEMMA EveryStepFollows ==
    ASSUME IInv, \A c \in Clients : Followed(c), Next
    PROVE  \E c \in Clients : Follows(c)
<1>1. ASSUME NEW c \in Clients, Application(c) \/ Asio(c)
      PROVE  Follows(c)
  BY <1>1, FollowsConnecting, FollowsHandle DEF Application, Asio
<1>2. ASSUME NEW t \in Threads, NEW c \in Clients, Start(t, c)
      PROVE  Follows(c)
  BY <1>2, FollowsStart
<1>3. ASSUME NEW t \in Threads, NEW c \in Clients, Continue(t, c)
      PROVE  Follows(c)
  BY <1>3, FollowsCallback, FollowsRefused DEF Continue
<1>4. ASSUME NEW t \in Threads, Keep(t)
      PROVE  thread[t].of \in Clients /\ Follows(thread[t].of)
  <2>1. thread[t].of \in Clients
    BY <1>4 DEF IInv, TypeOK, Keep, Busy
  <2> QED
    BY <1>4, <2>1, FollowsHandle
<1> QED
  BY <1>1, <1>2, <1>3, <1>4 DEF Next

FollowedInv == \A c \in Clients : Followed(c)

LEMMA FollowedInvariance == Spec => []FollowedInv
<1>1. Init => FollowedInv
  BY DEF Init, FollowedInv, Followed, Fresh, Answered, Noticed, Removed
<1>2. IInv /\ FollowedInv /\ [Next]_vars => FollowedInv'
  <2> SUFFICES ASSUME IInv, FollowedInv, [Next]_vars PROVE FollowedInv'
    OBVIOUS
  <2>1. CASE Next
    <3>1. PICK c \in Clients : Follows(c)
      BY <2>1, EveryStepFollows DEF FollowedInv
    <3>2. \A d \in Clients \ {c} : Followed(d)'
      BY <3>1, FramedFollowed DEF Follows, Step, FollowedInv
    <3> QED
      BY <3>1, <3>2 DEF Follows, FollowedInv
  <2>2. CASE UNCHANGED vars
    BY <2>2, FramedFollowed DEF FollowedInv, vars, Frame
  <2> QED
    BY <2>1, <2>2
<1> QED
  BY <1>1, <1>2, ClientsInvariance, PTL DEF Spec

(* A client's closing never goes unnoticed, wherever it is closed, for any *)
(* clients and threads and however badly the map fares: what makes the     *)
(* report of a loss possible in every state                                *)
(* (IoCircularBuffer.cpp:109-134, TcpPeerConnection.cpp:26-33, 127-134).   *)
THEOREM ClosedClientsAreNoticed == Spec => []ClosingIsNoticed
<1>1. TypeOK /\ FollowedInv => ClosingIsNoticed
  BY DEF TypeOK, FollowedInv, Followed, Noticed, ClosingIsNoticed
<1> QED
  BY <1>1, FollowedInvariance, ClientsInvariance, PTL DEF IInv

(* No call of AsyncConnect is done with unanswered (IoServices.cpp:118-168). *)
THEOREM EveryConnectIsAnswered == Spec => []ConnectsAreAnswered
<1>1. FollowedInv => ConnectsAreAnswered
  BY DEF FollowedInv, Followed, Answered, ConnectsAreAnswered
<1> QED
  BY <1>1, FollowedInvariance, PTL

(* A refused client leaves the map as long as no two accesses of the map   *)
(* have overlapped, for any clients and threads (IoServicesImpl.cpp:148-170). *)
THEOREM RefusedClientsLeave == Spec => []RefusedLeaveTheMap
<1>1. FollowedInv => RefusedLeaveTheMap
  BY DEF FollowedInv, Followed, Removed, RefusedLeaveTheMap, Unmaking
<1> QED
  BY <1>1, FollowedInvariance, PTL
=============================================================================
