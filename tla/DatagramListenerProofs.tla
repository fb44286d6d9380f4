----------------------- MODULE DatagramListenerProofs -----------------------
(***************************************************************************)
(* Proofs about DatagramListener, for any threads and bounds, with however *)
(* many reads in progress: what a listener can rely on although two starts *)
(* of its reading may overlap.                                             *)
(***************************************************************************)
EXTENDS DatagramListener, TLAPS

InCallback == \E t \in Threads : thread[t].at = "receive_callback"

(* A write is outstanding for the first message of the queue.              *)
Sending == write # "none" => mOutQueue # <<>>

(* A read, or a callback that will chain one, is in progress only while    *)
(* _shouldRead is set or after a failure; and while it is set there is     *)
(* one, unless a callback threw.                                           *)
ReadChain ==
    /\ Reads > 0 \/ InCallback => _shouldRead \/ failed
    /\ _shouldRead => Reads > 0 \/ InCallback \/ threw

(* No read waits for data on a socket that is not open.                    *)
NoneWaits == PeerSocket # "open" => reads["pending"] = 0

(* ConnectedListenersReceive, of the handler that has connected too.       *)
Told == \A t \in Threads : thread[t].at \in {"connected", "connect_callback"} =>
            Reads > 0 \/ InCallback \/ failed \/ threw

IInv == TypeOK /\ Sending /\ ReadChain /\ Told /\ NoneWaits
-----------------------------------------------------------------------------
(* How many reads there are after a step on them.                          *)
Results == {"pending", "data", "error"}

LEMMA ReadsType ==
    ASSUME TypeOK
    PROVE  /\ reads \in [Results -> Nat]
           /\ Reads \in Nat
           /\ reads["pending"] \in Nat /\ reads["data"] \in Nat /\ reads["error"] \in Nat
BY DEF TypeOK, Results, Reads

LEMMA ReadOnEffect ==
    ASSUME TypeOK, NEW socket, reads' = ReadOn(socket, reads)
    PROVE  reads' \in [Results -> Nat] /\ Reads' = Reads + 1
<1>1. CASE socket = "open"
  BY <1>1, ReadsType DEF ReadOn, Results, Reads
<1>2. CASE socket # "open"
  BY <1>2, ReadsType DEF ReadOn, Results, Reads
<1> QED
  BY <1>1, <1>2

LEMMA ClosedEffect ==
    ASSUME TypeOK, Closed
    PROVE  /\ PeerSocket' = "closed"
           /\ reads' \in [Results -> Nat]
           /\ Reads' = Reads
           /\ reads'["pending"] = 0
<1>1. /\ reads' \in [Results -> Nat]
      /\ reads'["pending"] = 0 /\ reads'["data"] = reads["data"]
      /\ reads'["error"] = reads["error"] + reads["pending"]
  BY ReadsType DEF Closed, Aborted, Results
<1> QED
  BY <1>1, ReadsType DEF Closed, Reads

LEMMA StartEffect ==
    ASSUME TypeOK, StartReading
    PROVE  /\ _shouldRead' = TRUE
           /\ reads' \in [Results -> Nat]
           /\ Reads' = Reads + 1
BY ReadOnEffect DEF StartReading, Read

(* The end of a receive callback: what was read is aborted if the handle   *)
(* goes with it, and a read is chained unless reading has ended.           *)
LEMMA ReceiveReturnsEffect ==
    ASSUME TypeOK, NEW t \in Threads, ReceiveReturns(t)
    PROVE  /\ PeerSocket' \in {"open", "closed"}
           /\ reads' \in [Results -> Nat]
           /\ Reads' = IF _shouldRead THEN Reads + 1 ELSE Reads
           /\ NoneWaits => NoneWaits'
<1> DEFINE rs == IF Held' THEN reads ELSE Aborted(reads)
<1>1. PeerSocket' = (IF Held' THEN PeerSocket ELSE "closed")
      /\ reads' = IF _shouldRead THEN ReadOn(PeerSocket', rs) ELSE rs
  BY DEF ReceiveReturns
<1>2. /\ rs \in [Results -> Nat]
      /\ rs["pending"] \in Nat /\ rs["data"] \in Nat /\ rs["error"] \in Nat
      /\ rs["pending"] + rs["data"] + rs["error"] = Reads
      /\ NoneWaits => (PeerSocket' # "open" => rs["pending"] = 0)
  <2>1. CASE Held'
    BY <1>1, <2>1, ReadsType DEF Reads, NoneWaits
  <2>2. CASE ~Held'
    <3>1. /\ rs["pending"] = 0 /\ rs["data"] = reads["data"]
          /\ rs["error"] = reads["error"] + reads["pending"]
          /\ rs \in [Results -> Nat]
      BY <2>2, ReadsType DEF Aborted, Results
    <3> QED
      BY <3>1, ReadsType DEF Reads
  <2> QED
    BY <2>1, <2>2
<1>3. PeerSocket' \in {"open", "closed"}
  BY <1>1 DEF TypeOK
<1> HIDE DEF rs
<1>4. CASE ~_shouldRead
  BY <1>1, <1>2, <1>3, <1>4 DEF Reads, NoneWaits
<1>5. CASE _shouldRead /\ PeerSocket' = "open"
  BY <1>1, <1>2, <1>3, <1>5 DEF ReadOn, Reads, NoneWaits, Results
<1>6. CASE _shouldRead /\ PeerSocket' # "open"
  BY <1>1, <1>2, <1>3, <1>6 DEF ReadOn, Reads, NoneWaits, Results
<1> QED
  BY <1>4, <1>5, <1>6

LEMMA ThreadShape ==
    ASSUME TypeOK, NEW t \in Threads
    PROVE  /\ thread[t] = Idle <=> thread[t].at = "idle"
           /\ Idle.at = "idle"
BY DEF TypeOK, Idle, Handlers
-----------------------------------------------------------------------------
LEMMA InitIInv == Init => IInv
<1> SUFFICES ASSUME Init PROVE IInv
  OBVIOUS
<1> USE DatagramListenerAssumption DEF Init, Idle
<1>1. TypeOK
  <2>1. /\ thread \in [Threads -> {Idle} \cup [at : Handlers, lent : BOOLEAN]]
        /\ mOutQueue \in Seq(Messages)
    OBVIOUS
  <2>2. reads \in [{"pending", "data", "error"} -> Nat]
    OBVIOUS
  <2> QED
    BY <2>1, <2>2 DEF TypeOK
<1>2. Reads = 0 /\ ~InCallback
  BY DEF Reads, InCallback
<1>3. Sending /\ ReadChain /\ Told /\ NoneWaits
  BY <1>2 DEF Sending, ReadChain, Told, NoneWaits
<1> QED
  BY <1>1, <1>3 DEF IInv

(* When the program has ended nothing is left that could break it.         *)
LEMMA DanglingIInv ==
    ASSUME Dangling
    PROVE  IInv'
<1> USE DatagramListenerAssumption DEF Dangling, Idle
<1>1. TypeOK'
  <2>1. /\ thread' \in [Threads -> {Idle} \cup [at : Handlers, lent : BOOLEAN]]
        /\ mOutQueue' \in Seq(Messages)
    OBVIOUS
  <2>2. reads' \in [{"pending", "data", "error"} -> Nat]
    OBVIOUS
  <2> QED
    BY <2>1, <2>2 DEF TypeOK
<1>2. Reads' = 0 /\ ~InCallback'
  BY DEF Reads, InCallback
<1>3. Sending' /\ ReadChain' /\ Told' /\ NoneWaits'
  BY <1>2 DEF Sending, ReadChain, Told, NoneWaits
<1> QED
  BY <1>1, <1>3 DEF IInv

(* Types.                                                                  *)
LEMMA ApplicationTypes ==
    ASSUME TypeOK, Sending, Application
    PROVE  TypeOK' /\ Sending'
<1> USE DEF TypeOK, Sending
<1>1. CASE BindDgramListener \/ UnboundDgramListener
  <2>1. reads' \in [Results -> Nat]
    BY <1>1, ReadsType DEF BindDgramListener, UnboundDgramListener, Results
  <2>2. /\ made' = TRUE
        /\ listed' = TRUE /\ kept' = TRUE /\ _shouldRead' \in BOOLEAN
        /\ PeerSocket' \in {"open", "closed"}
        /\ UNCHANGED <<launching, connect, mOutQueue, write, thread, threw,
                       failed, crashed>>
    BY <1>1 DEF BindDgramListener, UnboundDgramListener
  <2> QED
    BY <2>1, <2>2, Zenon DEF Results
<1>2. CASE AsyncConnect \/ EnableBroadcast
  BY <1>2 DEF AsyncConnect, EnableBroadcast
<1>3. CASE LaunchRead \/ Launch
  <2>1. CASE LaunchRead
    BY <2>1 DEF LaunchRead
  <2>2. CASE Launch
    <3>1. reads' \in [Results -> Nat] /\ _shouldRead' \in BOOLEAN
      BY <2>2, StartEffect DEF Launch
    <3>2. /\ launching' \in BOOLEAN
          /\ UNCHANGED <<made, listed, kept, PeerSocket, connect, mOutQueue,
                         write, thread, threw, failed, crashed>>
      BY <2>2 DEF Launch
    <3> QED
      BY <3>1, <3>2 DEF Results
  <2> QED
    BY <1>3, <2>1, <2>2
<1>4. ASSUME NEW m \in Messages, QueueOrWriteBuffer(m)
      PROVE  TypeOK' /\ Sending'
  <2>1. mOutQueue' \in Seq(Messages) /\ mOutQueue' # <<>>
    BY <1>4 DEF QueueOrWriteBuffer
  <2> QED
    BY <1>4, <2>1 DEF QueueOrWriteBuffer, LaunchWrite
<1>5. CASE AsyncWrite \/ AsyncSendTo
  BY <1>4, <1>5 DEF AsyncWrite, AsyncSendTo, Messages
<1>6. CASE StopListening
  BY <1>6, ClosedEffect DEF StopListening, Results
<1>7. CASE Drop
  <2>1. /\ kept' \in BOOLEAN
        /\ UNCHANGED <<made, listed, _shouldRead, launching, connect,
                       mOutQueue, write, thread, threw, failed, crashed>>
    BY <1>7 DEF Drop
  <2>2. CASE UNCHANGED <<PeerSocket, reads>>
    BY <2>1, <2>2
  <2>3. CASE Closed
    BY <2>1, <2>3, ClosedEffect DEF Results
  <2> QED
    BY <1>7, <2>2, <2>3 DEF Drop
<1> QED
  BY <1>1, <1>2, <1>3, <1>5, <1>6, <1>7 DEF Application

LEMMA AsioTypes ==
    ASSUME TypeOK, Sending, Asio
    PROVE  TypeOK' /\ Sending'
BY DEF TypeOK, Sending, Asio, ReadEnds, ConnectEnds, WriteEnds

LEMMA ReturnTypes ==
    ASSUME TypeOK, NEW t \in Threads, Return(t)
    PROVE  /\ kept' \in BOOLEAN
           /\ thread' \in [Threads -> {Idle} \cup [at : Handlers, lent : BOOLEAN]]
           /\ PeerSocket' \in {"open", "closed"}
           /\ reads' \in [Results -> Nat]
           /\ Reads' = Reads
<1>1. CASE UNCHANGED <<PeerSocket, reads>>
  BY <1>1 DEF Return, TypeOK, Results, Reads
<1>2. CASE Closed
  BY <1>2, ClosedEffect DEF Return, TypeOK
<1> QED
  BY <1>1, <1>2 DEF Return

LEMMA EventTypes ==
    ASSUME TypeOK, Sending, NEW t \in Threads,
           ReadEvent(t) \/ ConnectEvent(t) \/ WriteEvent(t)
    PROVE  TypeOK' /\ Sending'
<1> USE DEF TypeOK, Sending, Goto, Handlers
<1>1. CASE ReadSomeHandler(t)
  BY <1>1 DEF ReadSomeHandler, Held
<1>2. CASE ReadFailed(t)
  <2>1. reads' \in [Results -> Nat]
    BY <1>2, ReadsType DEF ReadFailed
  <2>2. thread' \in [Threads -> {Idle} \cup [at : Handlers, lent : BOOLEAN]]
    BY <1>2 DEF ReadFailed, Held
  <2>3. /\ _shouldRead' \in BOOLEAN /\ failed' \in BOOLEAN
        /\ UNCHANGED <<made, listed, kept, PeerSocket, launching, connect,
                       mOutQueue, write, threw, crashed>>
    BY <1>2 DEF ReadFailed
  <2> QED
    BY <2>1, <2>2, <2>3 DEF Results
<1>3. CASE DanglingRead(t)
  BY <1>3, DanglingIInv DEF DanglingRead, IInv
<1>4. CASE ConnectHandler(t)
  <2>1. PICK s \in {"connected", "starting"} : Goto(t, s, FALSE)
    BY <1>4 DEF ConnectHandler
  <2>2. thread' \in [Threads -> {Idle} \cup [at : Handlers, lent : BOOLEAN]]
    BY <2>1
  <2> QED
    BY <1>4, <2>2 DEF ConnectHandler
<1>5. CASE ConnectFailed(t)
  BY <1>5 DEF ConnectFailed, Held
<1>6. CASE WriteIncomplete(t)
  BY <1>6, ClosedEffect DEF WriteIncomplete, Results
<1>7. CASE WriteHandler(t)
  <2>1. mOutQueue' \in Seq(Messages)
    BY <1>7 DEF WriteHandler
  <2> QED
    BY <1>7, <2>1 DEF WriteHandler, LaunchWrite
<1> QED
  BY <1>1, <1>2, <1>3, <1>4, <1>5, <1>6, <1>7 DEF ReadEvent, ConnectEvent, WriteEvent

LEMMA ContinueTypes ==
    ASSUME TypeOK, Sending, NEW t \in Threads, Continue(t)
    PROVE  TypeOK' /\ Sending'
<1> USE DEF TypeOK, Sending
<1>1. CASE ReceiveReturns(t)
  <2>1. reads' \in [Results -> Nat]
        /\ PeerSocket' \in {"open", "closed"}
    BY <1>1, ReceiveReturnsEffect
  <2>2. thread' \in [Threads -> {Idle} \cup [at : Handlers, lent : BOOLEAN]]
    BY <1>1 DEF ReceiveReturns
  <2> QED
    BY <1>1, <2>1, <2>2 DEF ReceiveReturns, Results
<1>2. CASE ReceiveThrows(t) \/ ErrorHandler(t) \/ ErrorCallbackThrows(t)
  <2>1. Return(t)
    BY <1>2 DEF ReceiveThrows, ErrorHandler, ErrorCallbackThrows
  <2>2. /\ kept' \in BOOLEAN
        /\ thread' \in [Threads -> {Idle} \cup [at : Handlers, lent : BOOLEAN]]
        /\ PeerSocket' \in {"open", "closed"}
        /\ reads' \in [Results -> Nat]
    BY <2>1, ReturnTypes
  <2>3. CASE ReceiveThrows(t)
    BY <2>2, <2>3 DEF ReceiveThrows, Results
  <2>4. CASE ErrorHandler(t)
    BY <2>2, <2>4 DEF ErrorHandler, Results
  <2>5. CASE ErrorCallbackThrows(t)
    BY <2>2, <2>5 DEF ErrorCallbackThrows, Results
  <2> QED
    BY <1>2, <2>3, <2>4, <2>5
<1>3. CASE ConnectCallback(t)
  BY <1>3 DEF ConnectCallback, Goto, Handlers
<1>4. CASE DanglingConnectCallback(t)
  BY <1>4, DanglingIInv DEF DanglingConnectCallback, IInv
<1>5. CASE ConnectCallbackEnds(t)
  BY <1>5, ReturnTypes DEF ConnectCallbackEnds, Results
<1>6. CASE ConnectStarts(t)
  <2>1. reads' \in [Results -> Nat] /\ _shouldRead' = TRUE
    BY <1>6, StartEffect DEF ConnectStarts
  <2>2. thread' \in [Threads -> {Idle} \cup [at : Handlers, lent : BOOLEAN]]
    BY <1>6 DEF ConnectStarts, Goto, Handlers
  <2> QED
    BY <1>6, <2>1, <2>2 DEF ConnectStarts, Results
<1> QED
  BY <1>1, <1>2, <1>3, <1>4, <1>5, <1>6 DEF Continue

LEMMA TypesStep ==
    ASSUME TypeOK, Sending, [Next]_vars
    PROVE  TypeOK' /\ Sending'
<1>1. CASE UNCHANGED vars
  BY <1>1 DEF vars, TypeOK, Sending
<1>2. CASE CorruptBuffer
  BY <1>2, DanglingIInv DEF CorruptBuffer, IInv
<1> QED
  BY <1>1, <1>2, ApplicationTypes, AsioTypes, EventTypes, ContinueTypes
  DEF Next
-----------------------------------------------------------------------------
(* The read chain.                                                         *)

(* What the chain's invariants say of a state, apart from the types.       *)
Chained == ReadChain /\ Told

(* A step that neither reads nor enters or leaves a callback of the read   *)
(* or of the connect keeps them.                                           *)
LEMMA ChainedKept ==
    ASSUME TypeOK, Chained, Reads' = Reads, _shouldRead' = _shouldRead,
           failed => failed', threw => threw',
           \A t \in Threads : thread'[t].at = "receive_callback"
                                  <=> thread[t].at = "receive_callback",
           \A t \in Threads : thread'[t].at \in {"connected", "connect_callback"}
                                  => \/ thread[t].at \in {"connected",
                                                           "connect_callback"}
                                     \/ _shouldRead
    PROVE  Chained'
<1>1. InCallback' <=> InCallback
  BY DEF InCallback
<1> QED
  BY <1>1 DEF Chained, ReadChain, Told

(* A step that starts a read keeps them.                                   *)
LEMMA ChainedByStart ==
    ASSUME TypeOK, StartReading
    PROVE  Chained'
BY StartEffect, ReadsType DEF Chained, ReadChain, Told

LEMMA ApplicationChained ==
    ASSUME TypeOK, Chained, Application
    PROVE  Chained'
<1>1. CASE BindDgramListener
  <2>1. _shouldRead' /\ reads' = [reads EXCEPT !["pending"] = 1]
    BY <1>1 DEF BindDgramListener
  <2>2. Reads' > 0
    BY <2>1, ReadsType DEF Reads, Results
  <2> QED
    BY <2>1, <2>2 DEF Chained, ReadChain, Told
<1>2. CASE UnboundDgramListener \/ AsyncConnect \/ EnableBroadcast
                                \/ LaunchRead
  BY <1>2, ChainedKept DEF UnboundDgramListener, AsyncConnect, EnableBroadcast,
                           LaunchRead, Reads
<1>3. CASE Launch
  BY <1>3, ChainedByStart DEF Launch
<1>4. ASSUME NEW m \in Messages, QueueOrWriteBuffer(m)
      PROVE  Chained'
  BY <1>4, ChainedKept DEF QueueOrWriteBuffer, Reads
<1>5. CASE AsyncWrite \/ AsyncSendTo
  BY <1>4, <1>5 DEF AsyncWrite, AsyncSendTo, Messages
<1>6. CASE StopListening
  BY <1>6, ClosedEffect, ChainedKept DEF StopListening
<1>7. CASE Drop
  <2>1. Reads' = Reads
    BY <1>7, ClosedEffect DEF Drop, Reads
  <2> QED
    BY <1>7, <2>1, ChainedKept DEF Drop
<1> QED
  BY <1>1, <1>2, <1>3, <1>5, <1>6, <1>7 DEF Application

LEMMA AsioChained ==
    ASSUME TypeOK, Chained, Asio
    PROVE  Chained'
<1>1. CASE ReadEnds
  <2>1. Reads' = Reads
    <3>1. PICK r \in {"data", "error"} :
              reads' = [reads EXCEPT !["pending"] = @ - 1, ![r] = @ + 1]
      BY <1>1 DEF ReadEnds
    <3>2. reads'["pending"] = reads["pending"] - 1
      BY <3>1, ReadsType DEF Results
    <3>3. reads'["data"] + reads'["error"] = reads["data"] + reads["error"] + 1
      BY <3>1, ReadsType DEF Results
    <3>4. /\ reads'["data"] \in Nat /\ reads'["error"] \in Nat
      BY <3>1, ReadsType DEF Results
    <3> QED
      BY <3>2, <3>3, <3>4, ReadsType DEF Reads
  <2> QED
    BY <1>1, <2>1, ChainedKept DEF ReadEnds
<1>2. CASE ConnectEnds \/ WriteEnds
  BY <1>2, ChainedKept DEF ConnectEnds, WriteEnds, Reads
<1> QED
  BY <1>1, <1>2 DEF Asio

LEMMA EventChained ==
    ASSUME TypeOK, Chained, NEW t \in Threads,
           ReadEvent(t) \/ ConnectEvent(t) \/ WriteEvent(t)
    PROVE  Chained'
<1>1. CASE ReadSomeHandler(t)
  <2>1. /\ thread'[t].at = "receive_callback"
        /\ \A u \in Threads \ {t} : thread'[u] = thread[u]
        /\ _shouldRead' = _shouldRead /\ failed' = failed /\ threw' = threw
    BY <1>1 DEF ReadSomeHandler, Goto, TypeOK
  <2>2. Reads > 0
    BY <1>1, ReadsType DEF ReadSomeHandler, Reads
  <2>3. InCallback' /\ (_shouldRead \/ failed)
    BY <2>1, <2>2 DEF InCallback, Chained, ReadChain
  <2> QED
    BY <2>1, <2>3 DEF Chained, ReadChain, Told
<1>2. CASE ReadFailed(t)
  BY <1>2 DEF ReadFailed, Chained, ReadChain, Told
<1>3. CASE DanglingRead(t)
  BY <1>3, DanglingIInv DEF DanglingRead, IInv, Chained
<1>4. CASE ConnectHandler(t)
  <2>1. \A u \in Threads : thread'[u].at = "receive_callback"
                               <=> thread[u].at = "receive_callback"
    BY <1>4, ThreadShape DEF ConnectHandler, Goto, TypeOK
  <2>2. \A u \in Threads : thread'[u].at \in {"connected", "connect_callback"}
                               => \/ thread[u].at \in {"connected",
                                                        "connect_callback"}
                                  \/ _shouldRead
    BY <1>4 DEF ConnectHandler, Goto, TypeOK
  <2> QED
    BY <1>4, <2>1, <2>2, ChainedKept DEF ConnectHandler, Reads
<1>5. CASE ConnectFailed(t)
  <2>1. /\ thread[t].at = "idle"
        /\ thread'[t].at = "error_callback"
        /\ \A u \in Threads \ {t} : thread'[u] = thread[u]
    BY <1>5, ThreadShape DEF ConnectFailed, Goto, TypeOK
  <2> QED
    BY <1>5, <2>1, ChainedKept DEF ConnectFailed, Reads
<1>6. CASE WriteIncomplete(t)
  BY <1>6, ClosedEffect, ChainedKept DEF WriteIncomplete
<1>7. CASE WriteHandler(t)
  BY <1>7, ChainedKept DEF WriteHandler, Reads
<1> QED
  BY <1>1, <1>2, <1>3, <1>4, <1>5, <1>6, <1>7
  DEF ReadEvent, ConnectEvent, WriteEvent

LEMMA ContinueChained ==
    ASSUME TypeOK, Chained, NEW t \in Threads, Continue(t)
    PROVE  Chained'
<1>1. CASE ReceiveReturns(t)
  <2>1. /\ thread[t].at = "receive_callback"
        /\ thread'[t].at = "idle"
        /\ \A u \in Threads \ {t} : thread'[u] = thread[u]
        /\ _shouldRead' = _shouldRead /\ failed' = failed /\ threw' = threw
    BY <1>1, ThreadShape DEF ReceiveReturns, TypeOK
  <2>2. _shouldRead \/ failed
    BY <2>1 DEF Chained, ReadChain, InCallback
  <2>3. _shouldRead => Reads' > 0
    BY <1>1, ReceiveReturnsEffect, ReadsType
  <2> QED
    BY <2>1, <2>2, <2>3 DEF Chained, ReadChain, Told
<1>2. CASE ReceiveThrows(t)
  <2>1. /\ thread[t].at = "receive_callback"
        /\ _shouldRead' = _shouldRead /\ failed' = failed /\ threw' = TRUE
    BY <1>2 DEF ReceiveThrows
  <2>2. _shouldRead \/ failed
    BY <2>1 DEF Chained, ReadChain, InCallback
  <2> QED
    BY <2>1, <2>2 DEF Chained, ReadChain, Told
<1>3. CASE ErrorHandler(t) \/ ErrorCallbackThrows(t) \/ ConnectCallbackEnds(t)
  <2>1. /\ Return(t)
        /\ thread[t].at \in {"error_callback", "connect_callback"}
        /\ _shouldRead' = _shouldRead /\ failed' = failed
        /\ threw => threw'
    BY <1>3 DEF ErrorHandler, ErrorCallbackThrows, ConnectCallbackEnds
  <2>2. /\ thread'[t].at = "idle"
        /\ \A u \in Threads \ {t} : thread'[u] = thread[u]
        /\ Reads' = Reads
    BY <2>1, ThreadShape, ReturnTypes DEF Return, TypeOK
  <2> QED
    BY <2>1, <2>2, ChainedKept
<1>4. CASE ConnectCallback(t)
  <2>1. /\ thread[t].at = "connected"
        /\ thread'[t].at = "connect_callback"
        /\ \A u \in Threads \ {t} : thread'[u] = thread[u]
    BY <1>4 DEF ConnectCallback, Goto, TypeOK
  <2> QED
    BY <1>4, <2>1, ChainedKept DEF ConnectCallback, Reads
<1>5. CASE DanglingConnectCallback(t)
  BY <1>5, DanglingIInv DEF DanglingConnectCallback, IInv, Chained
<1>6. CASE ConnectStarts(t)
  BY <1>6, ChainedByStart DEF ConnectStarts
<1> QED
  BY <1>1, <1>2, <1>3, <1>4, <1>5, <1>6 DEF Continue
-----------------------------------------------------------------------------
(* Reads that wait.                                                        *)

LEMMA ClosedNoneWaits ==
    ASSUME TypeOK, Closed
    PROVE  NoneWaits'
BY ClosedEffect DEF NoneWaits

LEMMA StartNoneWaits ==
    ASSUME TypeOK, NoneWaits, StartReading, PeerSocket' = PeerSocket
    PROVE  NoneWaits'
<1>1. reads' = ReadOn(PeerSocket, reads)
  BY DEF StartReading, Read
<1> QED
  BY <1>1, ReadsType DEF ReadOn, NoneWaits, Results

LEMMA ReturnNoneWaits ==
    ASSUME TypeOK, NoneWaits, NEW t \in Threads, Return(t)
    PROVE  NoneWaits'
<1>1. CASE UNCHANGED <<PeerSocket, reads>>
  BY <1>1 DEF NoneWaits
<1>2. CASE Closed
  BY <1>2, ClosedNoneWaits
<1> QED
  BY <1>1, <1>2 DEF Return

LEMMA NoneWaitsStep ==
    ASSUME TypeOK, NoneWaits, [Next]_vars
    PROVE  NoneWaits'
<1>1. CASE Application
  <2>1. CASE \/ BindDgramListener \/ UnboundDgramListener \/ AsyncConnect
             \/ EnableBroadcast \/ LaunchRead
    BY <2>1 DEF BindDgramListener, UnboundDgramListener, AsyncConnect,
                EnableBroadcast, LaunchRead, NoneWaits
  <2>2. CASE Launch
    BY <2>2, StartNoneWaits DEF Launch
  <2>3. ASSUME NEW m \in Messages, QueueOrWriteBuffer(m)
        PROVE  NoneWaits'
    BY <2>3 DEF QueueOrWriteBuffer, LaunchWrite, NoneWaits
  <2>4. CASE AsyncWrite \/ AsyncSendTo
    BY <2>3, <2>4 DEF AsyncWrite, AsyncSendTo, Messages
  <2>5. CASE StopListening
    BY <2>5, ClosedNoneWaits DEF StopListening
  <2>6. CASE Drop
    BY <2>6, ClosedNoneWaits DEF Drop, NoneWaits
  <2> QED
    BY <1>1, <2>1, <2>2, <2>4, <2>5, <2>6 DEF Application
<1>2. CASE Asio
  <2>1. CASE ReadEnds
    <3>1. reads["pending"] # 0 /\ PeerSocket' = PeerSocket
      BY <2>1, ReadsType DEF ReadEnds
    <3> QED
      BY <3>1 DEF NoneWaits
  <2> QED
    BY <1>2, <2>1 DEF Asio, ConnectEnds, WriteEnds, NoneWaits
<1>3. ASSUME NEW t \in Threads, ReadEvent(t)
      PROVE  NoneWaits'
  <2>1. CASE ReadSomeHandler(t)
    BY <2>1, ReadsType DEF ReadSomeHandler, Results, NoneWaits
  <2>2. CASE ReadFailed(t)
    BY <2>2, ReadsType DEF ReadFailed, Results, NoneWaits
  <2>3. CASE DanglingRead(t)
    BY <2>3, DanglingIInv DEF DanglingRead, IInv
  <2> QED
    BY <1>3, <2>1, <2>2, <2>3 DEF ReadEvent
<1>4. ASSUME NEW t \in Threads, ConnectEvent(t)
      PROVE  NoneWaits'
  BY <1>4 DEF ConnectEvent, ConnectHandler, ConnectFailed, NoneWaits
<1>5. ASSUME NEW t \in Threads, WriteEvent(t)
      PROVE  NoneWaits'
  BY <1>5, ClosedNoneWaits DEF WriteEvent, WriteIncomplete, WriteHandler,
                               LaunchWrite, NoneWaits
<1>6. ASSUME NEW t \in Threads, Continue(t)
      PROVE  NoneWaits'
  <2>1. CASE ReceiveReturns(t)
    BY <2>1, ReceiveReturnsEffect
  <2>2. CASE ReceiveThrows(t) \/ ErrorHandler(t) \/ ErrorCallbackThrows(t)
                 \/ ConnectCallbackEnds(t)
    BY <2>2, ReturnNoneWaits DEF ReceiveThrows, ErrorHandler,
       ErrorCallbackThrows, ConnectCallbackEnds
  <2>3. CASE ConnectCallback(t)
    BY <2>3 DEF ConnectCallback, NoneWaits
  <2>4. CASE DanglingConnectCallback(t)
    BY <2>4, DanglingIInv DEF DanglingConnectCallback, IInv
  <2>5. CASE ConnectStarts(t)
    BY <2>5, StartNoneWaits DEF ConnectStarts
  <2> QED
    BY <1>6, <2>1, <2>2, <2>3, <2>4, <2>5 DEF Continue
<1>7. CASE CorruptBuffer
  BY <1>7, DanglingIInv DEF CorruptBuffer, IInv
<1>8. CASE UNCHANGED vars
  BY <1>8 DEF vars, NoneWaits
<1> QED
  BY <1>1, <1>2, <1>3, <1>4, <1>5, <1>6, <1>7, <1>8 DEF Next
-----------------------------------------------------------------------------
LEMMA NextIInv == IInv /\ [Next]_vars => IInv'
<1> SUFFICES ASSUME IInv, [Next]_vars PROVE IInv'
  OBVIOUS
<1>1. TypeOK' /\ Sending' /\ NoneWaits'
  BY TypesStep, NoneWaitsStep DEF IInv
<1>2. Chained'
  <2>1. CASE Next
    <3>1. CASE CorruptBuffer
      BY <3>1, DanglingIInv DEF CorruptBuffer, IInv, Chained
    <3> QED
      BY <2>1, <3>1, ApplicationChained, AsioChained, EventChained,
         ContinueChained DEF Next, IInv, Chained
  <2>2. CASE UNCHANGED vars
    BY <2>2 DEF vars, IInv, Chained, ReadChain, Told, InCallback, Reads
  <2> QED
    BY <2>1, <2>2
<1> QED
  BY <1>1, <1>2 DEF IInv, Chained

(* The types, the write queue and the read chains hold together in every   *)
(* state, however the starts of the reading overlap.                       *)
THEOREM ListenerInvariance == Spec => []IInv
BY InitIInv, NextIInv, PTL DEF Spec

(* A listener whose application is told that it is connected is receiving, *)
(* or has failed or thrown before, also when the connect handler found the *)
(* reading launched by somebody else (UdpListener.cpp:219-255).            *)
THEOREM ConnectStartsReceiving == Spec => []ConnectedListenersReceive
<1>1. IInv => ConnectedListenersReceive
  BY DEF IInv, Told, InCallback, ConnectedListenersReceive
<1> QED
  BY <1>1, ListenerInvariance, PTL

(* What makes a closed listener find out that it is closed: its read has   *)
(* been aborted or is about to be chained, and fails then; only a callback *)
(* that threw leaves it listed with nothing under way                      *)
(* (UdpListener.cpp:72-102, 206-228).                                      *)
THEOREM ClosedReadersFindOut == Spec => []ReadersFindOut
<1>1. IInv => ReadersFindOut
  BY DEF IInv, ReadChain, InCallback, NoneWaits, ReadersFindOut
<1> QED
  BY <1>1, ListenerInvariance, PTL
=============================================================================
