-------------------------- MODULE WriteQueueProofs --------------------------
(***************************************************************************)
(* Proofs about WriteQueue, for any number of callers and io_service       *)
(* threads, any messages and any bound on their number.                    *)
(***************************************************************************)
EXTENDS WriteQueue, SequenceTheorems, TLAPS

Inv == TypeOK /\ IInv

(* The size of a buffer is a natural number.                               *)
LEMMA SizeNat ==
    ASSUME NEW b \in IoBufferWrapper
    PROVE  ToBoost(b) \in Nat /\ BoostSize(b) = ToBoost(b)
BY DEF IoBufferWrapper, ToBoost, BoostSize

LEMMA InitInv == Init => Inv
<1> SUFFICES ASSUME Init PROVE Inv
  OBVIOUS
<1> USE WriteQueueAssumption DEF Init
<1>1. TypeOK
  BY DEF TypeOK, Messages
<1>2. MutexInv
  BY DEF MutexInv
<1>3. OneWriter /\ LaunchCount /\ QueueMatchesWrites /\ NoLostLaunch /\ WireInv
  BY DEF OneWriter, LaunchCount, QueueMatchesWrites, NoLostLaunch, WireInv,
         WireBytes, PoppedWritten, InFlightWritten, HandledWritten, AtMostOneWrite, Handling, Launching, Popped
<1> QED
  BY <1>1, <1>2, <1>3 DEF Inv, IInv

(* The queue is empty exactly when its length is zero, the numbers of      *)
(* messages are naturals, and a launch is possible only with a message.    *)
LEMMA QueueFacts ==
    ASSUME Inv
    PROVE  /\ Len(mOutQueue) \in Nat
           /\ Len(accepted) \in Nat
           /\ Popped \in Nat
           /\ Popped = Len(accepted) - Len(mOutQueue)
           /\ mOutQueue = <<>> <=> Len(mOutQueue) = 0
           /\ DOMAIN mOutQueue = 1 .. Len(mOutQueue)
           /\ mOutQueue # <<>> => Head(mOutQueue) = Popped + 1
<1> USE DEF Inv, TypeOK, IInv, Popped
<1>1. Len(mOutQueue) \in Nat /\ Len(accepted) \in Nat
  OBVIOUS
<1>2. mOutQueue = <<>> <=> Len(mOutQueue) = 0
  BY EmptySeq
<1>3. DOMAIN mOutQueue = 1 .. Len(mOutQueue)
  OBVIOUS
<1>4. mOutQueue # <<>> => Head(mOutQueue) = Popped + 1
  BY <1>1, <1>2, <1>3 DEF QueueMatchesWrites
<1> QED
  BY <1>1, <1>2, <1>3, <1>4

(* LaunchWrite, called by a thread that holds the mutex and a nonempty     *)
(* queue, hands asio a well-formed operation.                              *)
LEMMA LaunchType ==
    ASSUME Inv, Launching, mOutQueue # <<>>, LaunchWrite
    PROVE  /\ launches' \in 0 .. MaxMessages
           /\ writes' \subseteq WriteOp
<1>1. launches + 1 \in Messages
  BY QueueFacts, WriteQueueAssumption DEF Inv, IInv, TypeOK, LaunchCount, Messages
<1>2. Head(mOutQueue) \in Messages
  BY QueueFacts DEF Inv, TypeOK
<1> QED
  BY <1>1, <1>2, WriteQueueAssumption DEF LaunchWrite, Inv, TypeOK, WriteOp, Messages

LEMMA TypeStep ==
    ASSUME Inv, [Next]_vars
    PROVE  TypeOK'
<1> USE WriteQueueAssumption DEF TypeOK
<1>0. TypeOK
  BY DEF Inv
<1>1. ASSUME NEW t \in Callers, NEW buf \in Payloads, PushMessage(t, buf)
      PROVE  TypeOK'
  <2>1. Len(accepted) + 1 \in Messages
    BY <1>0, <1>1 DEF PushMessage, Messages
  <2>2. accepted' \in Seq(Payloads) /\ Len(accepted') = Len(accepted) + 1
    BY <1>0, <1>1 DEF PushMessage
  <2>3. mOutQueue' \in Seq(Messages)
    BY <1>0, <1>1, <2>1 DEF PushMessage
  <2> QED
    BY <1>0, <1>1, <2>1, <2>2, <2>3 DEF PushMessage, Acquire, Messages
<1>2. ASSUME NEW t \in Callers, ReturnBacklog(t)
      PROVE  TypeOK'
  BY <1>0, <1>2 DEF ReturnBacklog, Release
<1>3. ASSUME NEW t \in Callers, LaunchFirst(t)
      PROVE  TypeOK'
  <2>1. mOutQueue # <<>>
    BY <1>3 DEF LaunchFirst, Inv, IInv, OneWriter
  <2>2. Launching
    BY <1>3, <2>1, QueueFacts DEF LaunchFirst, Launching
  <2> QED
    BY <1>0, <1>3, <2>1, <2>2, LaunchType DEF LaunchFirst, Release
<1>4. ASSUME NEW op \in writes, TransmitByte(op)
      PROVE  TypeOK'
  <2>1. Advanced(op) \in WriteOp
    BY <1>0 DEF WriteOp, Advanced
  <2>2. <<op.msg, op.done + 1>> \in Messages \X Nat
    BY <1>0 DEF WriteOp
  <2> QED
    BY <1>0, <1>4, <2>1, <2>2 DEF TransmitByte, queueVars
<1>5. ASSUME PeerFails
      PROVE  TypeOK'
  BY <1>0, <1>5 DEF PeerFails, queueVars
<1>6. ASSUME Close
      PROVE  TypeOK'
  BY <1>0, <1>6 DEF Close, queueVars
<1>7. ASSUME NEW w \in Workers, NEW op \in writes, WriteIncomplete(w, op)
      PROVE  TypeOK'
  BY <1>0, <1>7 DEF WriteIncomplete, queueVars
<1>8. ASSUME NEW w \in Workers, NEW op \in writes, WriteComplete(w, op)
      PROVE  TypeOK'
  BY <1>0, <1>8 DEF WriteComplete
<1>9. ASSUME NEW w \in Workers, PopMessage(w)
      PROVE  TypeOK'
  <2>1. mOutQueue # <<>>
    BY <1>9 DEF PopMessage, Inv, IInv, QueueMatchesWrites, Handling
  <2>2. Tail(mOutQueue) \in Seq(Messages)
    BY <1>0, <2>1
  <2> QED
    BY <1>0, <1>9, <2>2 DEF PopMessage, Acquire
<1>10. ASSUME NEW w \in Workers, QueueEmpty(w)
       PROVE  TypeOK'
  BY <1>0, <1>10 DEF QueueEmpty, Release
<1>11. ASSUME NEW w \in Workers, LaunchNext(w)
       PROVE  TypeOK'
  <2>1. mOutQueue # <<>> /\ Launching
    BY <1>11 DEF LaunchNext, Launching
  <2> QED
    BY <1>0, <1>11, <2>1, LaunchType DEF LaunchNext, Release
<1>12. CASE UNCHANGED vars
  BY <1>0, <1>12 DEF vars
<1> QED
  BY <1>1, <1>2, <1>3, <1>4, <1>5, <1>6, <1>7, <1>8, <1>9, <1>10, <1>11, <1>12
     DEF Next, AsyncWrite, WriteHandler

-----------------------------------------------------------------------------
(* The mutex is held by exactly the thread that is inside it.              *)
LEMMA MutexStep ==
    ASSUME Inv, [Next]_vars
    PROVE  MutexInv'
<1> USE WriteQueueAssumption DEF MutexInv
<1>0. TypeOK /\ MutexInv
  BY DEF Inv, IInv
<1>1. ASSUME NEW t \in Callers, NEW buf \in Payloads, PushMessage(t, buf)
      PROVE  MutexInv'
  BY <1>0, <1>1 DEF PushMessage, Acquire, TypeOK
<1>2. ASSUME NEW t \in Callers, ReturnBacklog(t) \/ LaunchFirst(t)
      PROVE  MutexInv'
  BY <1>0, <1>2 DEF ReturnBacklog, LaunchFirst, Release, TypeOK
<1>3. ASSUME NEW w \in Workers, NEW op \in writes, WriteComplete(w, op)
      PROVE  MutexInv'
  BY <1>0, <1>3 DEF WriteComplete, TypeOK
<1>4. ASSUME NEW w \in Workers, PopMessage(w)
      PROVE  MutexInv'
  BY <1>0, <1>4 DEF PopMessage, Acquire, TypeOK
<1>5. ASSUME NEW w \in Workers, QueueEmpty(w) \/ LaunchNext(w)
      PROVE  MutexInv'
  BY <1>0, <1>5 DEF QueueEmpty, LaunchNext, Release, TypeOK
<1>6. ASSUME UNCHANGED <<mutex, callerPc, workerPc>>
      PROVE  MutexInv'
  BY <1>0, <1>6
<1> QED
  BY <1>1, <1>2, <1>3, <1>4, <1>5, <1>6
     DEF Next, AsyncWrite, WriteHandler, TransmitByte, PeerFails, Close,
         WriteIncomplete, queueVars, vars

(* With the mutex free nobody is about to launch.                          *)
LEMMA FreeMutex ==
    /\ MutexInv /\ mutex = NoThread => ~Launching
    /\ (MutexInv /\ mutex = NoThread => ~Launching)'
BY WriteQueueAssumption DEF MutexInv, Launching

(* Handling changes only when a completion handler starts or takes the     *)
(* mutex.                                                                  *)
LEMMA HandlingStep ==
    ASSUME TypeOK, NEW w \in Workers
    PROVE  /\ \A op : WriteComplete(w, op) => Handling' = Handling \cup {w}
           /\ PopMessage(w) => w \in Handling /\ Handling' = Handling \ {w}
           /\ QueueEmpty(w) => Handling' = Handling
           /\ LaunchNext(w) => Handling' = Handling
BY DEF TypeOK, Handling, WriteComplete, PopMessage, QueueEmpty, LaunchNext

LEMMA OneWriterStep ==
    ASSUME Inv, [Next]_vars
    PROVE  OneWriter'
<1> USE WriteQueueAssumption
<1>0. TypeOK /\ MutexInv /\ OneWriter /\ MutexInv'
  BY MutexStep DEF Inv, IInv
<1>1. ASSUME NEW t \in Callers, NEW buf \in Payloads, PushMessage(t, buf)
      PROVE  OneWriter'
  <2>1. Handling' = Handling /\ writes' = writes /\ launches' = launches
    BY <1>1 DEF PushMessage, Handling
  <2>2. mOutQueue' # <<>> /\ Len(mOutQueue') = Len(mOutQueue) + 1
    BY <1>0, <1>1, AppendProperties DEF PushMessage, TypeOK
  <2>3. Launching' => mOutQueue = <<>>
    <3>1. \A w \in Workers : workerPc'[w] # "popped"
      BY <1>0, <1>1 DEF PushMessage, Acquire, MutexInv
    <3> QED
      BY <2>2, <3>1, QueueFacts DEF Launching
  <2>4. Launching' => writes' = {} /\ Handling' = {}
    BY <2>1, <2>3 DEF Inv, IInv, QueueMatchesWrites
  <2> QED
    BY <1>0, <2>1, <2>2, <2>4 DEF OneWriter, AtMostOneWrite
<1>2. ASSUME NEW t \in Callers, ReturnBacklog(t)
      PROVE  OneWriter'
  <2>1. Handling' = Handling /\ ~Launching'
    BY <1>0, <1>2, FreeMutex DEF ReturnBacklog, Release, Handling
  <2> QED
    BY <1>0, <1>2, <2>1 DEF OneWriter, AtMostOneWrite, ReturnBacklog, Release, MutexInv
<1>3. ASSUME NEW t \in Callers, LaunchFirst(t)
      PROVE  OneWriter'
  <2>1. Handling' = Handling /\ ~Launching'
    BY <1>0, <1>3, FreeMutex DEF LaunchFirst, Release, Handling
  <2>2. Launching
    BY <1>0, <1>3, QueueFacts DEF LaunchFirst, Launching, OneWriter
  <2>3. writes = {} /\ Handling = {}
    BY <1>0, <2>2 DEF OneWriter
  <2> QED
    BY <1>0, <1>3, <2>1, <2>3
       DEF OneWriter, AtMostOneWrite, LaunchFirst, LaunchWrite, Release, MutexInv, TypeOK
<1>4. ASSUME NEW op \in writes, TransmitByte(op)
      PROVE  OneWriter'
  <2>1. Handling' = Handling /\ Launching' = Launching
    BY <1>4 DEF TransmitByte, queueVars, Handling, Launching
  <2>2. writes = {op} /\ writes' = {Advanced(op)}
    BY <1>0, <1>4 DEF TransmitByte, OneWriter, AtMostOneWrite
  <2> QED
    BY <1>0, <1>4, <2>1, <2>2
       DEF OneWriter, AtMostOneWrite, TransmitByte, queueVars, Advanced
<1>5. ASSUME UNCHANGED <<queueVars, launches>>, writes' \subseteq writes
      PROVE  OneWriter'
  <2>1. Handling' = Handling /\ Launching' = Launching
    BY <1>5 DEF queueVars, Handling, Launching
  <2> QED
    BY <1>0, <1>5, <2>1 DEF OneWriter, AtMostOneWrite, queueVars
<1>6. ASSUME NEW w \in Workers, NEW op \in writes, WriteComplete(w, op)
      PROVE  OneWriter'
  <2>1. writes = {op} /\ Handling = {} /\ writes' = {}
    BY <1>0, <1>6 DEF OneWriter, AtMostOneWrite, WriteComplete
  <2>2. Handling' = {w}
    BY <1>0, <1>6, <2>1, HandlingStep
  <2>3. ~Launching
    BY <1>0, <2>1 DEF OneWriter
  <2>4. ~Launching'
    BY <1>0, <1>6, <2>3 DEF WriteComplete, Launching, TypeOK
  <2> QED
    BY <1>0, <1>6, <2>1, <2>2, <2>4 DEF OneWriter, AtMostOneWrite, WriteComplete
<1>7. ASSUME NEW w \in Workers, PopMessage(w)
      PROVE  OneWriter'
  <2>1. Handling = {w} /\ Handling' = {}
    BY <1>0, <1>7, HandlingStep DEF OneWriter
  <2>2. writes = {} /\ writes' = {}
    BY <1>0, <1>7, <2>1 DEF OneWriter, PopMessage
  <2>3. \A t \in Callers : callerPc'[t] # "pushed"
    BY <1>0, <1>7 DEF PopMessage, Acquire, MutexInv
  <2> QED
    BY <2>1, <2>2, <2>3 DEF OneWriter, AtMostOneWrite
<1>8. ASSUME NEW w \in Workers, QueueEmpty(w)
      PROVE  OneWriter'
  <2>1. Handling' = Handling /\ ~Launching'
    BY <1>0, <1>8, HandlingStep, FreeMutex DEF QueueEmpty, Release
  <2> QED
    BY <1>0, <1>8, <2>1 DEF OneWriter, AtMostOneWrite, QueueEmpty, Release, MutexInv
<1>9. ASSUME NEW w \in Workers, LaunchNext(w)
      PROVE  OneWriter'
  <2>1. Handling' = Handling /\ ~Launching'
    BY <1>0, <1>9, HandlingStep, FreeMutex DEF LaunchNext, Release
  <2>2. writes = {} /\ Handling = {}
    BY <1>0, <1>9 DEF OneWriter, Launching, LaunchNext
  <2> QED
    BY <1>0, <1>9, <2>1, <2>2
       DEF OneWriter, AtMostOneWrite, LaunchNext, LaunchWrite, Release, MutexInv, TypeOK
<1> QED
  BY <1>1, <1>2, <1>3, <1>4, <1>5, <1>6, <1>7, <1>8, <1>9
     DEF Next, AsyncWrite, WriteHandler, PeerFails, Close, WriteIncomplete, vars, queueVars

-----------------------------------------------------------------------------
(* How each step changes the queue, the history of accepted messages and   *)
(* the number of popped messages.                                          *)
Pushed == /\ mOutQueue' \in Seq(Messages)
          /\ mOutQueue' # <<>>
          /\ Len(mOutQueue') = Len(mOutQueue) + 1
          /\ Len(accepted') = Len(accepted) + 1
          /\ Popped' = Popped
          /\ \A i \in 1 .. Len(mOutQueue) : mOutQueue'[i] = mOutQueue[i]
          /\ mOutQueue'[Len(mOutQueue) + 1] = Len(accepted) + 1
          /\ \A m \in 1 .. Len(accepted) : accepted'[m] = accepted[m]

Removed == /\ mOutQueue # <<>>
           /\ mOutQueue' \in Seq(Messages)
           /\ Len(mOutQueue') = Len(mOutQueue) - 1
           /\ accepted' = accepted
           /\ Popped' = Popped + 1
           /\ \A i \in 1 .. Len(mOutQueue') : mOutQueue'[i] = mOutQueue[i + 1]

LEMMA PushChange ==
    ASSUME Inv, NEW t \in Callers, NEW buf \in Payloads, PushMessage(t, buf)
    PROVE  Pushed
<1>0. TypeOK
  BY DEF Inv
<1>1. Len(accepted) + 1 \in Messages
  BY <1>0, WriteQueueAssumption DEF PushMessage, Messages, TypeOK
<1>2. /\ mOutQueue' \in Seq(Messages)
      /\ mOutQueue' # <<>>
      /\ Len(mOutQueue') = Len(mOutQueue) + 1
      /\ \A i \in 1 .. Len(mOutQueue) : mOutQueue'[i] = mOutQueue[i]
      /\ mOutQueue'[Len(mOutQueue) + 1] = Len(accepted) + 1
  <2>1. mOutQueue' = Append(mOutQueue, Len(accepted) + 1) /\ mOutQueue \in Seq(Messages)
    BY <1>0 DEF PushMessage, TypeOK
  <2> QED
    BY <1>1, <2>1, AppendProperties
<1>3. /\ Len(accepted') = Len(accepted) + 1
      /\ \A m \in 1 .. Len(accepted) : accepted'[m] = accepted[m]
  BY <1>0, AppendProperties DEF PushMessage, TypeOK
<1>4. Popped' = Popped
  <2>1. Len(mOutQueue') = Len(mOutQueue) + 1 /\ Len(accepted') = Len(accepted) + 1
    BY <1>2, <1>3
  <2> QED
    BY <2>1, QueueFacts DEF Popped
<1> QED
  BY <1>2, <1>3, <1>4 DEF Pushed

LEMMA PopChange ==
    ASSUME Inv, NEW w \in Workers, PopMessage(w)
    PROVE  Removed
<1>0. TypeOK
  BY DEF Inv
<1>1. mOutQueue # <<>>
  BY DEF PopMessage, Inv, IInv, QueueMatchesWrites, Handling
<1>2. /\ mOutQueue' \in Seq(Messages)
      /\ Len(mOutQueue') = Len(mOutQueue) - 1
      /\ \A i \in 1 .. Len(mOutQueue') : mOutQueue'[i] = mOutQueue[i + 1]
  BY <1>0, <1>1, HeadTailProperties DEF PopMessage, TypeOK
<1>3. accepted' = accepted
  BY DEF PopMessage
<1>4. Popped' = Popped + 1
  BY <1>2, <1>3, QueueFacts DEF Popped
<1> QED
  BY <1>1, <1>2, <1>3, <1>4 DEF Removed

(* Launches are counted one per message.                                   *)
LEMMA LaunchCountStep ==
    ASSUME Inv, [Next]_vars
    PROVE  LaunchCount'
<1>0. TypeOK /\ MutexInv /\ OneWriter /\ LaunchCount /\ MutexInv' /\ launches \in Nat
  BY MutexStep, WriteQueueAssumption DEF Inv, IInv, TypeOK
<1>1. ASSUME NEW t \in Callers, NEW buf \in Payloads, PushMessage(t, buf)
      PROVE  LaunchCount'
  <2>0. Pushed
    BY <1>1, PushChange
  <2>1. Launching' => mOutQueue = <<>>
    <3>1. \A w \in Workers : workerPc'[w] # "popped"
      BY <1>0, <1>1, WriteQueueAssumption DEF PushMessage, Acquire, MutexInv
    <3> QED
      BY <2>0, <3>1, QueueFacts DEF Launching, Pushed
  <2>2. launches' = launches
    BY <1>1 DEF PushMessage
  <2> QED
    BY <1>0, <2>0, <2>1, <2>2, QueueFacts DEF LaunchCount, Pushed
<1>2. ASSUME NEW t \in Callers, ReturnBacklog(t)
      PROVE  LaunchCount'
  <2>1. ~Launching'
    BY <1>0, <1>2, FreeMutex DEF ReturnBacklog, Release
  <2> QED
    BY <1>0, <1>2, <2>1 DEF LaunchCount, ReturnBacklog, Popped
<1>3. ASSUME NEW t \in Callers, LaunchFirst(t)
      PROVE  LaunchCount'
  <2>1. ~Launching' /\ Popped' = Popped /\ launches' = launches + 1 /\ accepted' = accepted
    BY <1>0, <1>3, FreeMutex DEF LaunchFirst, LaunchWrite, Release, Popped
  <2>2. Launching /\ Len(mOutQueue) = 1
    BY <1>0, <1>3, QueueFacts DEF LaunchFirst, Launching, OneWriter
  <2> QED
    BY <1>0, <2>1, <2>2, QueueFacts DEF LaunchCount
<1>4. ASSUME UNCHANGED <<queueVars, accepted, launches>>
      PROVE  LaunchCount'
  BY <1>0, <1>4 DEF LaunchCount, Launching, Popped, queueVars
<1>5. ASSUME NEW w \in Workers, NEW op \in writes, WriteComplete(w, op)
      PROVE  LaunchCount'
  <2>1. Launching' => Launching
    BY <1>0, <1>5 DEF WriteComplete, Launching, TypeOK
  <2> QED
    BY <1>0, <1>5, <2>1 DEF LaunchCount, WriteComplete, Popped
<1>6. ASSUME NEW w \in Workers, PopMessage(w)
      PROVE  LaunchCount'
  <2>1. launches' = launches
    BY <1>6 DEF PopMessage
  <2>2. Removed
    BY <1>6, PopChange
  <2> QED
    BY <1>0, <2>1, <2>2, QueueFacts DEF LaunchCount, Removed
<1>7. ASSUME NEW w \in Workers, QueueEmpty(w)
      PROVE  LaunchCount'
  <2>1. ~Launching'
    BY <1>0, <1>7, FreeMutex DEF QueueEmpty, Release
  <2> QED
    BY <1>0, <1>7, <2>1 DEF LaunchCount, QueueEmpty, Popped
<1>8. ASSUME NEW w \in Workers, LaunchNext(w)
      PROVE  LaunchCount'
  <2>1. ~Launching' /\ Popped' = Popped /\ launches' = launches + 1 /\ accepted' = accepted
    BY <1>0, <1>8, FreeMutex DEF LaunchNext, LaunchWrite, Release, Popped
  <2>2. Launching /\ Len(mOutQueue) >= 1
    BY <1>8, QueueFacts DEF LaunchNext, Launching
  <2> QED
    BY <1>0, <2>1, <2>2, QueueFacts DEF LaunchCount, Inv, IInv
<1> QED
  BY <1>1, <1>2, <1>3, <1>4, <1>5, <1>6, <1>7, <1>8
     DEF Next, AsyncWrite, WriteHandler, TransmitByte, PeerFails, Close,
         WriteIncomplete, queueVars, vars

(* The queue holds the accepted messages that were not popped, in order,   *)
(* and the write in flight is the front.                                   *)
LEMMA QueueStep ==
    ASSUME Inv, [Next]_vars
    PROVE  QueueMatchesWrites' /\ (Len(mOutQueue) <= Len(accepted))'
<1> DEFINE Goal == QueueMatchesWrites' /\ (Len(mOutQueue) <= Len(accepted))'
<1>0. TypeOK /\ MutexInv /\ OneWriter /\ QueueMatchesWrites /\ Len(mOutQueue) <= Len(accepted)
  BY DEF Inv, IInv
<1>1. ASSUME NEW t \in Callers, NEW buf \in Payloads, PushMessage(t, buf)
      PROVE  Goal
  <2>1. Handling' = Handling /\ writes' = writes
    BY <1>1 DEF PushMessage, Handling
  <2>2. Pushed
    BY <1>1, PushChange
  <2>3. mOutQueue # <<>> => Head(mOutQueue') = Head(mOutQueue)
    BY <1>0, <2>2, QueueFacts, HeadTailProperties DEF TypeOK, Pushed
  <2>4. \A i \in DOMAIN mOutQueue' : mOutQueue'[i] = Popped' + i
    <3>1. DOMAIN mOutQueue' = 1 .. Len(mOutQueue) + 1
      BY <2>2 DEF Pushed
    <3>2. \A i \in 1 .. Len(mOutQueue) : mOutQueue'[i] = Popped' + i
      BY <1>0, <2>2, QueueFacts DEF QueueMatchesWrites, Pushed
    <3>3. mOutQueue'[Len(mOutQueue) + 1] = Popped' + Len(mOutQueue) + 1
      BY <2>2, QueueFacts DEF Pushed
    <3>4. \A i \in 1 .. Len(mOutQueue) + 1 :
             i \in 1 .. Len(mOutQueue) \/ i = Len(mOutQueue) + 1
      BY QueueFacts
    <3> QED
      BY <3>1, <3>2, <3>3, <3>4, QueueFacts, <2>2 DEF Pushed
  <2>5. Len(mOutQueue') <= Len(accepted')
    BY <1>0, <2>2, QueueFacts DEF Pushed
  <2> QED
    BY <1>0, <2>1, <2>2, <2>3, <2>4, <2>5 DEF QueueMatchesWrites, Pushed
<1>2. ASSUME NEW t \in Callers, ReturnBacklog(t)
      PROVE  Goal
  BY <1>0, <1>2 DEF QueueMatchesWrites, ReturnBacklog, Handling, Popped
<1>3. ASSUME NEW t \in Callers, LaunchFirst(t)
      PROVE  Goal
  <2>1. mOutQueue # <<>> /\ writes = {}
    BY <1>0, <1>3, QueueFacts DEF LaunchFirst, OneWriter, Launching
  <2> QED
    BY <1>0, <1>3, <2>1 DEF QueueMatchesWrites, LaunchFirst, LaunchWrite, Handling, Popped
<1>4. ASSUME NEW op \in writes, TransmitByte(op)
      PROVE  Goal
  BY <1>0, <1>4 DEF QueueMatchesWrites, TransmitByte, Advanced, queueVars, Handling, Popped
<1>5. ASSUME UNCHANGED <<queueVars, accepted>>, writes' \subseteq writes
      PROVE  Goal
  BY <1>0, <1>5 DEF QueueMatchesWrites, queueVars, Handling, Popped
<1>6. ASSUME NEW w \in Workers, NEW op \in writes, WriteComplete(w, op)
      PROVE  Goal
  BY <1>0, <1>6 DEF QueueMatchesWrites, WriteComplete, Popped
<1>7. ASSUME NEW w \in Workers, PopMessage(w)
      PROVE  Goal
  <2>1. Handling' = {} /\ writes' = {}
    BY <1>0, <1>7, HandlingStep DEF OneWriter, PopMessage
  <2>2. Removed
    BY <1>7, PopChange
  <2>3. \A i \in DOMAIN mOutQueue' : mOutQueue'[i] = Popped' + i
    <3>1. DOMAIN mOutQueue' = 1 .. Len(mOutQueue) - 1
      BY <2>2 DEF Removed
    <3>2. \A i \in 1 .. Len(mOutQueue) - 1 : mOutQueue[i + 1] = Popped + (i + 1)
      BY <1>0, QueueFacts DEF QueueMatchesWrites
    <3>3. \A i \in 1 .. Len(mOutQueue) - 1 : mOutQueue'[i] = mOutQueue[i + 1]
      BY <2>2, <3>1 DEF Removed
    <3>4. \A i \in 1 .. Len(mOutQueue) - 1 : Popped' + i = Popped + (i + 1)
      BY <2>2, QueueFacts DEF Removed
    <3> QED
      BY <3>1, <3>2, <3>3, <3>4
  <2>4. Len(mOutQueue') <= Len(accepted')
    BY <1>0, <2>2, QueueFacts DEF Removed
  <2> QED
    BY <2>1, <2>3, <2>4 DEF QueueMatchesWrites
<1>8. ASSUME NEW w \in Workers, QueueEmpty(w)
      PROVE  Goal
  BY <1>0, <1>8, HandlingStep DEF QueueMatchesWrites, QueueEmpty, Popped
<1>9. ASSUME NEW w \in Workers, LaunchNext(w)
      PROVE  Goal
  <2>1. writes = {}
    BY <1>0, <1>9 DEF LaunchNext, OneWriter, Launching
  <2> QED
    BY <1>0, <1>9, <2>1, HandlingStep DEF QueueMatchesWrites, LaunchNext, LaunchWrite, Popped
<1> QED
  BY <1>1, <1>2, <1>3, <1>4, <1>5, <1>6, <1>7, <1>8, <1>9
     DEF Next, AsyncWrite, WriteHandler, PeerFails, Close, WriteIncomplete, queueVars, vars

(* Somebody is always left to launch the next message.                     *)
LEMMA NoLostLaunchStep ==
    ASSUME Inv, [Next]_vars
    PROVE  NoLostLaunch'
<1>0. TypeOK /\ MutexInv /\ OneWriter /\ NoLostLaunch
  BY DEF Inv, IInv
<1>1. ASSUME NEW t \in Callers, NEW buf \in Payloads, PushMessage(t, buf)
      PROVE  NoLostLaunch'
  <2>1. Handling' = Handling /\ writes' = writes /\ PeerSocket' = PeerSocket
    BY <1>1 DEF PushMessage, Handling
  <2>2. ~Launching
    BY <1>0, <1>1, FreeMutex DEF PushMessage, Acquire
  <2>3. mOutQueue = <<>> => Launching'
    <3>1. Pushed /\ callerPc'[t] = "pushed"
      BY <1>0, <1>1, PushChange DEF PushMessage, TypeOK
    <3> QED
      BY <3>1, QueueFacts DEF Launching, Pushed
  <2> QED
    BY <1>0, <2>1, <2>2, <2>3 DEF NoLostLaunch
<1>2. ASSUME NEW t \in Callers, ReturnBacklog(t)
      PROVE  NoLostLaunch'
  <2>1. ~Launching
    <3>1. mutex = t
      BY <1>0, <1>2 DEF ReturnBacklog, MutexInv
    <3>2. \A w \in Workers : mutex # w
      BY <3>1, WriteQueueAssumption
    <3> QED
      BY <1>0, <1>2, <3>2, QueueFacts DEF ReturnBacklog, Launching, MutexInv
  <2> QED
    BY <1>0, <1>2, <2>1 DEF ReturnBacklog, NoLostLaunch, Handling
<1>3. ASSUME LaunchWrite
      PROVE  NoLostLaunch'
  BY <1>3 DEF LaunchWrite, NoLostLaunch
<1>4. ASSUME NEW op \in writes, TransmitByte(op)
      PROVE  NoLostLaunch'
  BY <1>4 DEF TransmitByte, NoLostLaunch
<1>5. ASSUME UNCHANGED <<queueVars, writes>>, PeerSocket' = "open" => PeerSocket = "open"
      PROVE  NoLostLaunch'
  BY <1>0, <1>5 DEF queueVars, NoLostLaunch, Handling, Launching
<1>6. ASSUME PeerSocket' = "closed"
      PROVE  NoLostLaunch'
  BY <1>6 DEF NoLostLaunch
<1>7. ASSUME NEW w \in Workers, NEW op \in writes, WriteComplete(w, op)
      PROVE  NoLostLaunch'
  BY <1>0, <1>7, HandlingStep DEF NoLostLaunch
<1>8. ASSUME NEW w \in Workers, PopMessage(w)
      PROVE  NoLostLaunch'
  BY <1>0, <1>8 DEF PopMessage, NoLostLaunch, Launching, TypeOK
<1>9. ASSUME NEW w \in Workers, QueueEmpty(w)
      PROVE  NoLostLaunch'
  BY <1>9 DEF QueueEmpty, NoLostLaunch
<1> QED
  BY <1>1, <1>2, <1>3, <1>4, <1>5, <1>6, <1>7, <1>8, <1>9
     DEF Next, AsyncWrite, WriteHandler, LaunchFirst, LaunchNext, PeerFails, Close,
         WriteIncomplete, vars, queueVars

-----------------------------------------------------------------------------
(* Every accepted message has a size, which later messages do not change.  *)
LEMMA SizeFacts ==
    ASSUME TypeOK
    PROVE  \A m \in 1 .. Len(accepted) :
              /\ Size(m) \in Nat
              /\ BoostSize(accepted[m]) = Size(m)
<1> SUFFICES ASSUME NEW m \in 1 .. Len(accepted)
             PROVE  Size(m) \in Nat /\ BoostSize(accepted[m]) = Size(m)
  OBVIOUS
<1>1. accepted[m] \in IoBufferWrapper
  BY WriteQueueAssumption DEF TypeOK
<1> QED
  BY <1>1, SizeNat DEF Size

(* Nothing is said about the wire but through these state functions.       *)
LEMMA WireUnchanged ==
    ASSUME WireInv, UNCHANGED <<wire, accepted, mOutQueue>>,
           writes' \subseteq writes,
           Handling' # {} => Handling # {},
           Launching' => Launching
    PROVE  WireInv'
<1> USE DEF WireInv, Popped, Size
<1>1. WireBytes'
  BY DEF WireBytes
<1>2. PoppedWritten'
  BY DEF PoppedWritten, OnWire
<1>3. InFlightWritten'
  BY DEF InFlightWritten, OnWire
<1>4. HandledWritten'
  BY DEF HandledWritten, OnWire
<1> QED
  BY <1>1, <1>2, <1>3, <1>4

(* A launch starts with a message of which nothing is on the wire.         *)
LEMMA WireLaunch ==
    ASSUME Inv, Launching, mOutQueue # <<>>, LaunchWrite,
           UNCHANGED <<wire, accepted, mOutQueue>>, Handling' = Handling, ~Launching'
    PROVE  WireInv'
<1>0. WireInv /\ TypeOK /\ writes = {} /\ Handling = {}
  BY DEF Inv, IInv, OneWriter
<1>1. WireBytes'
  BY <1>0 DEF WireInv, WireBytes, Popped, Size
<1>2. PoppedWritten'
  BY <1>0 DEF WireInv, PoppedWritten, OnWire, Popped, Size
<1>3. HandledWritten'
  BY <1>0 DEF HandledWritten
<1>4. InFlightWritten'
  <2> DEFINE new == [id |-> launches + 1, msg |-> Head(mOutQueue), done |-> 0]
  <2>1. writes' = {new}
    BY <1>0 DEF LaunchWrite
  <2>2. new.msg = Popped + 1 /\ new.done = 0 /\ Popped + 1 \in 1 .. Len(accepted)
    BY QueueFacts DEF Inv, IInv
  <2>3. \A i \in DOMAIN wire : wire[i][1] # new.msg
    BY <1>0, <2>2, QueueFacts DEF WireInv, WireBytes
  <2>4. Size(new.msg) \in Nat
    BY <1>0, <2>2, SizeFacts
  <2> HIDE DEF new
  <2> QED
    BY <2>1, <2>2, <2>3, <2>4 DEF InFlightWritten, Size
<1> QED
  BY <1>1, <1>2, <1>3, <1>4 DEF WireInv

LEMMA WirePush ==
    ASSUME Inv, NEW t \in Callers, NEW buf \in Payloads, PushMessage(t, buf)
    PROVE  WireInv'
<1>0. /\ TypeOK /\ MutexInv /\ WireInv /\ QueueMatchesWrites
      /\ Len(mOutQueue) <= Len(accepted)
  BY DEF Inv, IInv
<1>1. Handling' = Handling /\ writes' = writes /\ wire' = wire
  BY DEF PushMessage, Handling
<1>2. Pushed
  BY PushChange
<1>3. \A m \in 1 .. Len(accepted) : Size(m)' = Size(m)
  BY <1>2 DEF Size, Pushed
<1>4. Launching' => mOutQueue = <<>>
  <2>1. \A w \in Workers : workerPc'[w] # "popped"
    BY <1>0, WriteQueueAssumption DEF PushMessage, Acquire, MutexInv
  <2> QED
    BY <1>2, <2>1, QueueFacts DEF Launching, Pushed
<1>5. mOutQueue # <<>> => Popped + 1 \in 1 .. Len(accepted)
  BY <1>0, QueueFacts
<1>6. Popped' = Popped /\ Len(accepted') = Len(accepted) + 1
  BY <1>2 DEF Pushed
<1>7. WireBytes'
  <2> SUFFICES ASSUME NEW i \in DOMAIN wire
               PROVE  /\ wire[i][1] \in 1 .. Len(accepted')
                      /\ wire[i][1] <= Popped' + 1
                      /\ wire[i][2] \in 1 .. Size(wire[i][1])'
                      /\ Launching' => wire[i][1] <= Popped'
    BY <1>1 DEF WireBytes
  <2>1. /\ wire[i][1] \in 1 .. Len(accepted)
        /\ wire[i][1] <= Popped + 1
        /\ wire[i][2] \in 1 .. Size(wire[i][1])
    BY <1>0 DEF WireInv, WireBytes
  <2>2. wire[i][2] \in 1 .. Size(wire[i][1])'
    BY <1>1, <1>3, <2>1 DEF Size
  <2>3. Launching' => wire[i][1] <= Popped'
    BY <1>4, <1>6, <2>1, QueueFacts
  <2> QED
    BY <1>6, <2>1, <2>2, <2>3, QueueFacts
<1>8. PoppedWritten'
  <2>1. \A m \in 1 .. Popped : m \in 1 .. Len(accepted)
    BY <1>0, QueueFacts
  <2>2. \A m, k : OnWire(m, k) => OnWire(m, k)'
    BY <1>1 DEF OnWire
  <2> QED
    BY <1>0, <1>3, <1>6, <2>1, <2>2 DEF WireInv, PoppedWritten
<1>9. InFlightWritten'
  <2>1. \A op \in writes : op.msg \in 1 .. Len(accepted)
    BY <1>0, <1>5, QueueFacts DEF QueueMatchesWrites
  <2> QED
    BY <1>0, <1>1, <1>3, <2>1 DEF WireInv, InFlightWritten, OnWire
<1>10. HandledWritten'
  BY <1>0, <1>1, <1>3, <1>5, <1>6 DEF WireInv, HandledWritten, OnWire, QueueMatchesWrites
<1> QED
  BY <1>7, <1>8, <1>9, <1>10 DEF WireInv

(* asio takes the next byte of the only message in flight.                 *)
LEMMA WireTransmit ==
    ASSUME Inv, NEW op \in writes, TransmitByte(op)
    PROVE  WireInv'
<1>0. TypeOK /\ OneWriter /\ WireInv /\ QueueMatchesWrites /\ ~Launching /\ Handling = {}
  BY DEF Inv, IInv, OneWriter
<1>1. /\ wire' = Append(wire, <<op.msg, op.done + 1>>)
      /\ writes' = {Advanced(op)}
      /\ accepted' = accepted
      /\ Handling' = Handling
      /\ Launching' = Launching
      /\ Popped' = Popped
  BY <1>0 DEF TransmitByte, queueVars, OneWriter, AtMostOneWrite, Handling, Launching, Popped
<1>2. op.msg = Popped + 1 /\ op.msg \in 1 .. Len(accepted)
  BY <1>0, QueueFacts DEF QueueMatchesWrites, Inv, IInv
<1>3. op.done \in Nat /\ Size(op.msg) \in Nat /\ op.done + 1 <= Size(op.msg)
  <2>1. op.done \in Nat /\ Size(op.msg) \in Nat
    BY <1>0, <1>2, SizeFacts DEF TypeOK, WriteOp
  <2>2. op.done <= Size(op.msg) /\ op.done # Size(op.msg)
    BY <1>0 DEF WireInv, InFlightWritten, TransmitByte, Finished, Size
  <2> QED
    BY <2>1, <2>2
<1>4. /\ Len(wire') = Len(wire) + 1
      /\ \A i \in 1 .. Len(wire) : wire'[i] = wire[i]
      /\ wire'[Len(wire) + 1] = <<op.msg, op.done + 1>>
      /\ DOMAIN wire = 1 .. Len(wire)
      /\ DOMAIN wire' = 1 .. Len(wire) + 1
      /\ Len(wire) \in Nat
  <2>1. wire \in Seq(Messages \X Nat) /\ <<op.msg, op.done + 1>> \in Messages \X Nat
    BY <1>0, <1>3 DEF TypeOK, WriteOp
  <2> QED
    BY <1>1, <2>1, AppendProperties
<1>5. \A i \in DOMAIN wire' :
         \/ i \in DOMAIN wire /\ wire'[i] = wire[i]
         \/ wire'[i][1] = op.msg /\ wire'[i][2] = op.done + 1
  BY <1>4
<1>6. \A m, k : OnWire(m, k) => OnWire(m, k)'
  BY <1>4 DEF OnWire
<1>7. OnWire(op.msg, op.done + 1)'
  BY <1>4 DEF OnWire
<1>8. WireBytes'
  <2>1. \A m : Size(m)' = Size(m)
    BY <1>1 DEF Size
  <2>2. op.done + 1 \in 1 .. Size(op.msg)
    BY <1>3
  <2> QED
    BY <1>0, <1>1, <1>2, <1>5, <2>1, <2>2, QueueFacts DEF WireInv, WireBytes
<1>9. PoppedWritten'
  BY <1>0, <1>1, <1>6 DEF WireInv, PoppedWritten, Size
<1>10. InFlightWritten'
  <2>1. /\ Advanced(op).msg = op.msg
        /\ Advanced(op).done = op.done + 1
    BY DEF Advanced
  <2>2. \A k \in 1 .. op.done + 1 : OnWire(op.msg, k)'
    <3>1. \A k \in 1 .. op.done + 1 : k \in 1 .. op.done \/ k = op.done + 1
      BY <1>3
    <3>2. \A k \in 1 .. op.done : OnWire(op.msg, k)
      BY <1>0 DEF WireInv, InFlightWritten
    <3> QED
      BY <1>6, <1>7, <3>1, <3>2
  <2>3. \A i \in DOMAIN wire' : wire'[i][1] = op.msg => wire'[i][2] <= op.done + 1
    <3>1. \A i \in DOMAIN wire : wire[i][1] = op.msg => wire[i][2] <= op.done
      BY <1>0 DEF WireInv, InFlightWritten
    <3>2. \A i \in DOMAIN wire : wire[i][2] \in Nat
      BY <1>0 DEF TypeOK
    <3> QED
      BY <1>3, <1>5, <3>1, <3>2
  <2>4. Size(op.msg)' = Size(op.msg)
    BY <1>1 DEF Size
  <2> QED
    BY <1>1, <1>3, <2>1, <2>2, <2>3, <2>4 DEF InFlightWritten
<1>11. HandledWritten'
  BY <1>0, <1>1 DEF HandledWritten
<1> QED
  BY <1>8, <1>9, <1>10, <1>11 DEF WireInv

(* A completion handler runs for a message that is all on the wire.        *)
LEMMA WireComplete ==
    ASSUME Inv, NEW w \in Workers, NEW op \in writes, WriteComplete(w, op)
    PROVE  WireInv'
<1>0. TypeOK /\ OneWriter /\ WireInv /\ QueueMatchesWrites
  BY DEF Inv, IInv
<1>1. writes' = {} /\ wire' = wire /\ accepted' = accepted /\ Popped' = Popped
  BY <1>0 DEF WriteComplete, OneWriter, AtMostOneWrite, Popped
<1>2. Launching' => Launching
  BY <1>0 DEF WriteComplete, Launching, TypeOK
<1>3. op.msg = Popped + 1 /\ op.msg \in 1 .. Len(accepted)
  BY <1>0, QueueFacts DEF QueueMatchesWrites, Inv, IInv
<1>4. op.done = Size(op.msg)
  BY <1>0, <1>3, SizeFacts DEF WriteComplete
<1>5. HandledWritten'
  BY <1>0, <1>1, <1>3, <1>4 DEF WireInv, InFlightWritten, HandledWritten, OnWire, Size
<1>6. WireBytes' /\ PoppedWritten'
  BY <1>0, <1>1, <1>2 DEF WireInv, WireBytes, PoppedWritten, OnWire, Size
<1>7. InFlightWritten'
  BY <1>1 DEF InFlightWritten
<1> QED
  BY <1>5, <1>6, <1>7 DEF WireInv

LEMMA WirePop ==
    ASSUME Inv, NEW w \in Workers, PopMessage(w)
    PROVE  WireInv'
<1>0. TypeOK /\ OneWriter /\ WireInv
  BY DEF Inv, IInv
<1>1. Handling = {w} /\ Handling' = {} /\ writes' = {} /\ wire' = wire
  BY <1>0, HandlingStep DEF OneWriter, PopMessage
<1>2. Popped' = Popped + 1 /\ accepted' = accepted
  BY PopChange DEF Removed
<1>3. \A k \in 1 .. Size(Popped + 1) : OnWire(Popped + 1, k)
  BY <1>0, <1>1 DEF WireInv, HandledWritten
<1>4. PoppedWritten'
  <2>1. \A m \in 1 .. Popped + 1 : m \in 1 .. Popped \/ m = Popped + 1
    BY QueueFacts
  <2> QED
    BY <1>0, <1>1, <1>2, <1>3, <2>1 DEF WireInv, PoppedWritten, OnWire, Size
<1>5. WireBytes'
  BY <1>0, <1>1, <1>2, QueueFacts DEF WireInv, WireBytes, Size
<1>6. InFlightWritten' /\ HandledWritten'
  BY <1>1 DEF InFlightWritten, HandledWritten
<1> QED
  BY <1>4, <1>5, <1>6 DEF WireInv

LEMMA WireStep ==
    ASSUME Inv, [Next]_vars
    PROVE  WireInv'
<1>0. TypeOK /\ MutexInv /\ MutexInv' /\ OneWriter /\ WireInv
  BY MutexStep DEF Inv, IInv
<1>1. ASSUME NEW t \in Callers, ReturnBacklog(t)
      PROVE  WireInv'
  BY <1>0, <1>1, FreeMutex, WireUnchanged DEF ReturnBacklog, Release, Handling
<1>2. ASSUME NEW t \in Callers, LaunchFirst(t)
      PROVE  WireInv'
  <2>1. Launching /\ mOutQueue # <<>>
    BY <1>0, <1>2, QueueFacts DEF LaunchFirst, Launching, OneWriter
  <2>2. Handling' = Handling /\ ~Launching'
    BY <1>0, <1>2, FreeMutex DEF LaunchFirst, Release, Handling
  <2> QED
    BY <1>2, <2>1, <2>2, WireLaunch DEF LaunchFirst
<1>3. ASSUME UNCHANGED <<queueVars, wire, accepted>>, writes' \subseteq writes
      PROVE  WireInv'
  BY <1>0, <1>3, WireUnchanged DEF queueVars, Handling, Launching
<1>4. ASSUME NEW w \in Workers, QueueEmpty(w)
      PROVE  WireInv'
  BY <1>0, <1>4, FreeMutex, HandlingStep, WireUnchanged DEF QueueEmpty, Release
<1>5. ASSUME NEW w \in Workers, LaunchNext(w)
      PROVE  WireInv'
  <2>1. Launching /\ mOutQueue # <<>>
    BY <1>5 DEF LaunchNext, Launching
  <2>2. Handling' = Handling /\ ~Launching'
    BY <1>0, <1>5, FreeMutex, HandlingStep DEF LaunchNext, Release
  <2> QED
    BY <1>5, <2>1, <2>2, WireLaunch DEF LaunchNext
<1> QED
  BY <1>1, <1>2, <1>3, <1>4, <1>5, WirePush, WireTransmit, WireComplete, WirePop
     DEF Next, AsyncWrite, WriteHandler, PeerFails, Close, WriteIncomplete, vars, queueVars
-----------------------------------------------------------------------------
(* IInv together with the types is inductive: it holds in every reachable  *)
(* state, whatever the callers send and however the threads interleave.    *)
THEOREM Invariance == Spec => []Inv
<1>1. Inv /\ [Next]_vars => Inv'
  BY TypeStep, MutexStep, OneWriterStep, LaunchCountStep, QueueStep, NoLostLaunchStep,
     WireStep DEF Inv, IInv
<1> QED
  BY <1>1, InitInv, PTL DEF Spec

(* Every variable keeps its type; no message is launched twice.            *)
THEOREM TypeCorrectness == Spec => []TypeOK
BY Invariance, PTL DEF Inv

(* asio never holds two writes of the connection (TcpPeerConnection.cpp:52 *)
(* and 69: only one async write can be outstanding at a time).             *)
THEOREM OneOutstandingWrite == Spec => []AtMostOneWrite
<1>1. Inv => AtMostOneWrite
  BY DEF Inv, IInv, OneWriter
<1> QED
  BY <1>1, Invariance, PTL

(* The message whose write completes is the one WriteHandler pops.         *)
THEOREM PopsWhatWasWritten == Spec => []QueueMatchesWrites
<1>1. Inv => QueueMatchesWrites
  BY DEF Inv, IInv
<1> QED
  BY <1>1, Invariance, PTL

(* No wake-up is lost between AsyncWrite and WriteHandler while the socket *)
(* is open.                                                                *)
THEOREM NoLostWakeup == Spec => []NoLostLaunch
<1>1. Inv => NoLostLaunch
  BY DEF Inv, IInv
<1> QED
  BY <1>1, Invariance, PTL

(* WriteHandler closes the socket only when asio reports a write that was  *)
(* cut short, because a whole write is as long as BoostSize says.          *)
THEOREM HealthySocketIsKept == Spec => HealthySocketKept
<1> DEFINE A == \A w \in Workers : \A op \in writes : WriteIncomplete(w, op) => ~Usable
<1>1. Inv => A
  <2> SUFFICES ASSUME Inv, NEW w \in Workers, NEW op \in writes, WriteIncomplete(w, op)
               PROVE  ~Usable
    OBVIOUS
  <2>1. op.msg \in 1 .. Len(accepted)
    BY QueueFacts DEF Inv, IInv, QueueMatchesWrites
  <2>2. BoostSize(accepted[op.msg]) = Size(op.msg)
    BY <2>1, SizeFacts DEF Inv
  <2> QED
    BY <2>2 DEF WriteIncomplete, Finished, Size
<1>2. Inv /\ [Next]_vars => [A]_vars
  BY <1>1
<1> QED
  BY <1>2, Invariance, PTL DEF Spec, HealthySocketKept
-----------------------------------------------------------------------------
(* Refinement: the steps of the connection are steps of the byte stream.   *)

LEMMA LengthsFacts ==
    ASSUME TypeOK
    PROVE  /\ MessageLengths \in Seq(Nat)
           /\ Len(MessageLengths) = Len(accepted)
           /\ DOMAIN MessageLengths = 1 .. Len(accepted)
           /\ \A m \in 1 .. Len(accepted) : MessageLengths[m] = Size(m)
<1>1. accepted \in Seq(Payloads) /\ DOMAIN accepted = 1 .. Len(accepted) /\ Len(accepted) \in Nat
  BY DEF TypeOK
<1>2. \A m \in 1 .. Len(accepted) : ToBoost(accepted[m]) \in Nat
  BY SizeFacts DEF Size
<1>3. MessageLengths = [m \in 1 .. Len(accepted) |-> ToBoost(accepted[m])]
  BY <1>1 DEF MessageLengths
<1>4. MessageLengths \in Seq(Nat) /\ Len(MessageLengths) = Len(accepted)
  BY <1>1, <1>2, <1>3, IsASeq, LenProperties
<1> QED
  BY <1>1, <1>3, <1>4 DEF Size

LEMMA RefinesInit == Init => Channel!Init
<1> SUFFICES ASSUME Init PROVE Channel!Init
  OBVIOUS
<1>1. TypeOK
  BY InitInv DEF Inv
<1>2. MessageLengths = <<>>
  BY <1>1, LengthsFacts, EmptySeq DEF Init
<1> QED
  BY <1>2 DEF Init, Channel!Init, Usable

(* AsyncWrite accepts a message: the stream accepts one of its length.     *)
LEMMA RefinesPush ==
    ASSUME Inv, TypeOK', NEW t \in Callers, NEW buf \in Payloads, PushMessage(t, buf)
    PROVE  Channel!Accept(ToBoost(buf))
<1>0. TypeOK
  BY DEF Inv
<1>1. Len(MessageLengths) < MaxMessages
  BY <1>0, LengthsFacts DEF PushMessage
<1>2. MessageLengths' = Append(MessageLengths, ToBoost(buf))
  <2>1. accepted' = Append(accepted, buf) /\ accepted \in Seq(Payloads)
    BY <1>0 DEF PushMessage, TypeOK
  <2>2. /\ DOMAIN accepted' = 1 .. Len(accepted) + 1
        /\ \A m \in 1 .. Len(accepted) : accepted'[m] = accepted[m]
        /\ accepted'[Len(accepted) + 1] = buf
        /\ Len(accepted) \in Nat
    BY <2>1, AppendProperties
  <2>3. MessageLengths' = [m \in 1 .. Len(accepted) + 1 |-> ToBoost(accepted'[m])]
    BY <2>2 DEF MessageLengths
  <2>4. ToBoost(buf) \in Nat
    BY SizeNat, WriteQueueAssumption
  <2> DEFINE appended == Append(MessageLengths, ToBoost(buf))
  <2>5. /\ appended \in Seq(Nat)
        /\ Len(appended) = Len(accepted) + 1
        /\ \A m \in 1 .. Len(accepted) : appended[m] = Size(m)
        /\ appended[Len(accepted) + 1] = ToBoost(buf)
    BY <1>0, <2>4, LengthsFacts, AppendProperties
  <2> HIDE DEF appended
  <2>6. \A m \in 1 .. Len(accepted) + 1 : appended[m] = ToBoost(accepted'[m])
    <3>1. \A m \in 1 .. Len(accepted) + 1 : m \in 1 .. Len(accepted) \/ m = Len(accepted) + 1
      BY <2>2
    <3> QED
      BY <2>2, <2>5, <3>1 DEF Size
  <2>7. appended = [m \in 1 .. Len(accepted) + 1 |-> appended[m]]
    BY <2>5, LenProperties
  <2> QED
    BY <2>3, <2>6, <2>7 DEF appended
<1>3. Usable' = Usable /\ wire' = wire
  BY DEF PushMessage, Usable
<1> QED
  BY <1>1, <1>2, <1>3 DEF Channel!Accept

(* asio takes a byte: it is the least byte the stream has not taken.       *)
LEMMA RefinesTransmit ==
    ASSUME Inv, NEW op \in writes, TransmitByte(op)
    PROVE  Channel!Transmit
<1> DEFINE b == <<op.msg, op.done + 1>>
<1>0. /\ TypeOK /\ WireBytes /\ PoppedWritten /\ InFlightWritten /\ QueueMatchesWrites
      /\ Len(mOutQueue) <= Len(accepted)
  BY DEF Inv, IInv, WireInv
<1>1. op.msg = Popped + 1 /\ op.msg \in 1 .. Len(accepted)
  BY <1>0, QueueFacts DEF QueueMatchesWrites
<1>2. op.done \in Nat /\ Size(op.msg) \in Nat /\ op.done + 1 <= Size(op.msg)
  <2>1. op.done \in Nat /\ Size(op.msg) \in Nat
    BY <1>0, <1>1, SizeFacts DEF TypeOK, WriteOp
  <2>2. op.done <= Size(op.msg) /\ op.done # Size(op.msg)
    BY <1>0 DEF InFlightWritten, TransmitByte, Finished, Size
  <2> QED
    BY <2>1, <2>2
<1>3. \A c : c \in Channel!Bytes <=>
             \E m \in 1 .. Len(accepted) : \E k \in 1 .. Size(m) : c = <<m, k>>
  <2>1. /\ DOMAIN MessageLengths = 1 .. Len(accepted)
        /\ \A m \in 1 .. Len(accepted) : MessageLengths[m] = Size(m)
    BY <1>0, LengthsFacts
  <2>2. \A c : c \in Channel!Bytes <=>
               \E m \in DOMAIN MessageLengths : c \in Channel!BytesOf(m)
    BY DEF Channel!Bytes
  <2>3. \A m, c : c \in Channel!BytesOf(m) <=>
                  \E k \in 1 .. MessageLengths[m] : c = <<m, k>>
    BY DEF Channel!BytesOf
  <2> QED
    BY <2>1, <2>2, <2>3
<1>4. b \in Channel!Unsent
  <2>1. b \in Channel!Bytes
    BY <1>1, <1>2, <1>3
  <2>2. \A i \in DOMAIN wire : wire[i] # b
    BY <1>0, <1>2 DEF InFlightWritten
  <2> QED
    BY <2>1, <2>2 DEF Channel!Unsent
<1>5. ASSUME NEW c \in Channel!Unsent
      PROVE  b = c \/ Channel!Before(b, c)
  <2>1. PICK m \in 1 .. Len(accepted) : \E k \in 1 .. Size(m) : c = <<m, k>>
    BY <1>3, <1>5 DEF Channel!Unsent
  <2>2. PICK k \in 1 .. Size(m) : c = <<m, k>>
    BY <2>1
  <2>3. ~OnWire(m, k)
    BY <1>5, <2>2 DEF Channel!Unsent, OnWire
  <2>4. m \in Nat /\ k \in Nat /\ k >= 1
    <3>1. Size(m) \in Nat
      BY <1>0, SizeFacts
    <3> QED
      BY <3>1, QueueFacts
  <2>5. ~(m <= Popped)
    BY <1>0, <2>2, <2>3, <2>4, QueueFacts DEF PoppedWritten
  <2>6. m = op.msg => ~(k <= op.done)
    BY <1>0, <1>2, <2>3, <2>4 DEF InFlightWritten
  <2> QED
    BY <1>1, <1>2, <2>2, <2>4, <2>5, <2>6, QueueFacts DEF Channel!Before
<1>6. Usable /\ Usable' = Usable /\ MessageLengths' = MessageLengths
  BY DEF TransmitByte, Finished, Usable, MessageLengths
<1> QED
  BY <1>4, <1>5, <1>6 DEF Channel!Transmit, TransmitByte

(* Every other step leaves the stream alone or breaks it.                  *)
LEMMA RefinesNext ==
    ASSUME Inv, Inv', [Next]_vars
    PROVE  [Channel!Next]_Channel!vars
<1> USE DEF Channel!vars
<1>1. ASSUME NEW t \in Callers, NEW buf \in Payloads, PushMessage(t, buf)
      PROVE  Channel!Next
  BY <1>1, RefinesPush DEF Channel!Next, Inv
<1>2. ASSUME NEW op \in writes, TransmitByte(op)
      PROVE  Channel!Next
  BY <1>2, RefinesTransmit DEF Channel!Next
<1>3. ASSUME UNCHANGED <<accepted, wire, PeerSocket, peerUp>>
      PROVE  UNCHANGED Channel!vars
  BY <1>3 DEF MessageLengths, Usable
<1>4. ASSUME UNCHANGED <<accepted, wire>>, Usable' => Usable
      PROVE  [Channel!Next]_Channel!vars
  <2>1. MessageLengths' = MessageLengths
    BY <1>4 DEF MessageLengths
  <2>2. Usable \in BOOLEAN /\ Usable' \in BOOLEAN
    BY DEF Usable, Inv, TypeOK
  <2> QED
    BY <1>4, <2>1, <2>2 DEF Channel!Next, Channel!Break
<1> QED
  BY <1>1, <1>2, <1>3, <1>4
     DEF Next, AsyncWrite, WriteHandler, ReturnBacklog, LaunchFirst, PeerFails, Close,
         WriteIncomplete, WriteComplete, PopMessage, QueueEmpty, LaunchNext, vars,
         queueVars, Usable

(* The connection implements the safety part of the first-in first-out     *)
(* byte stream: messages leave whole, in the order they were accepted,     *)
(* without a byte repeated or skipped.                                     *)
THEOREM Refinement == Spec => ImplementsChannel
BY InitInv, RefinesInit, RefinesNext, Invariance, PTL
   DEF Spec, Channel!Safety, ImplementsChannel
-----------------------------------------------------------------------------
(* The order of the bytes on the wire.  The invariant is that of the       *)
(* abstract stream; the refinement carries it over to the connection.      *)

LEMMA OrderAtFirst == Init => MessagesInOrder
BY RefinesInit DEF MessagesInOrder, Channel!FirstInFirstOut, Channel!Init, Channel!Unsent,
   Channel!Bytes

(* A message that is accepted adds bytes behind all those on the wire.     *)
LEMMA OrderPush ==
    ASSUME Inv, TypeOK', MessagesInOrder,
           NEW t \in Callers, NEW buf \in Payloads, PushMessage(t, buf)
    PROVE  MessagesInOrder'
<1> DEFINE lengths == MessageLengths
           n == Len(accepted)
<1>1. /\ n \in Nat /\ DOMAIN lengths = 1 .. n /\ DOMAIN lengths' = 1 .. n + 1
      /\ \A m \in 1 .. n : lengths'[m] = lengths[m]
      /\ wire' = wire
  <2>1. lengths' = Append(lengths, ToBoost(buf)) /\ wire' = wire
    BY RefinesPush DEF Channel!Accept
  <2>2. /\ lengths \in Seq(Nat) /\ Len(lengths) = n /\ ToBoost(buf) \in Nat
    BY LengthsFacts, SizeNat, WriteQueueAssumption DEF Inv
  <2> QED
    BY <2>1, <2>2, AppendProperties
<1>2. /\ \A c : c \in Channel!Bytes <=>
               \E m \in 1 .. n : \E k \in 1 .. lengths[m] : c = <<m, k>>
      /\ \A c : c \in Channel!Bytes' <=>
               \E m \in 1 .. n + 1 : \E k \in 1 .. lengths'[m] : c = <<m, k>>
  <2>1. \A m, c : /\ c \in Channel!BytesOf(m) <=> \E k \in 1 .. lengths[m] : c = <<m, k>>
                  /\ c \in Channel!BytesOf(m)' <=> \E k \in 1 .. lengths'[m] : c = <<m, k>>
    BY DEF Channel!BytesOf
  <2>2. /\ \A c : c \in Channel!Bytes <=> \E m \in 1 .. n : c \in Channel!BytesOf(m)
        /\ \A c : c \in Channel!Bytes' <=> \E m \in 1 .. n + 1 : c \in Channel!BytesOf(m)'
    BY <1>1 DEF Channel!Bytes
  <2> QED
    BY <2>1, <2>2
<1> HIDE DEF lengths
<1>3. \A i \in DOMAIN wire : wire[i] \in Channel!Bytes /\ wire[i] \in Channel!Bytes'
  BY <1>1, <1>2 DEF MessagesInOrder, Channel!FirstInFirstOut
<1>4. ASSUME NEW b \in Channel!Unsent', NEW i \in DOMAIN wire
      PROVE  Channel!Before(wire[i], b)
  <2>1. b \in Channel!Bytes' /\ \A j \in DOMAIN wire : wire[j] # b
    BY <1>1, <1>4 DEF Channel!Unsent
  <2>2. PICK m \in 1 .. n + 1 : \E k \in 1 .. lengths'[m] : b = <<m, k>>
    BY <1>2, <2>1
  <2>3. CASE m \in 1 .. n
    <3>1. b \in Channel!Unsent
      BY <1>1, <1>2, <2>1, <2>2, <2>3 DEF Channel!Unsent
    <3> QED
      BY <3>1 DEF MessagesInOrder, Channel!FirstInFirstOut
  <2>4. CASE m = n + 1
    <3>1. PICK l \in 1 .. n : \E k \in 1 .. lengths[l] : wire[i] = <<l, k>>
      BY <1>2, <1>3
    <3> QED
      BY <1>1, <2>2, <2>4, <3>1 DEF Channel!Before
  <2> QED
    BY <1>1, <2>3, <2>4
<1> QED
  BY <1>1, <1>3, <1>4 DEF MessagesInOrder, Channel!FirstInFirstOut, Channel!Before

(* The stream takes its least byte: all others still follow it.            *)
LEMMA OrderTransmit ==
    ASSUME Inv, MessagesInOrder, Channel!Transmit
    PROVE  MessagesInOrder'
<1> USE DEF MessagesInOrder, Channel!FirstInFirstOut
<1>1. PICK b \in Channel!Unsent : /\ \A c \in Channel!Unsent : b = c \/ Channel!Before(b, c)
                                 /\ wire' = Append(wire, b)
  BY DEF Channel!Transmit
<1>2. /\ Len(wire) \in Nat /\ DOMAIN wire = 1 .. Len(wire)
      /\ DOMAIN wire' = 1 .. Len(wire) + 1
      /\ \A i \in DOMAIN wire : wire'[i] = wire[i]
      /\ wire'[Len(wire) + 1] = b
  BY <1>1, AppendProperties DEF Inv, TypeOK
<1>3. /\ Channel!Bytes' = Channel!Bytes
      /\ \A c \in Channel!Unsent' : c \in Channel!Unsent /\ c # b
  <2>1. Channel!Bytes' = Channel!Bytes
    BY DEF Channel!Transmit, Channel!Bytes, Channel!BytesOf
  <2> QED
    BY <1>2, <2>1 DEF Channel!Unsent
<1>4. \A i \in DOMAIN wire' : wire'[i] \in Channel!Bytes'
  BY <1>2, <1>3 DEF Channel!Unsent
<1>5. \A i, j \in DOMAIN wire' : i < j => Channel!Before(wire'[i], wire'[j])
  BY <1>2
<1>6. \A c \in Channel!Unsent' : \A i \in DOMAIN wire' : Channel!Before(wire'[i], c)
  BY <1>1, <1>2, <1>3
<1> QED
  BY <1>4, <1>5, <1>6 DEF Channel!Before

LEMMA OrderStep ==
    ASSUME Inv, Inv', MessagesInOrder, [Next]_vars
    PROVE  MessagesInOrder'
<1>1. ASSUME NEW t \in Callers, NEW buf \in Payloads, PushMessage(t, buf)
      PROVE  MessagesInOrder'
  BY <1>1, OrderPush DEF Inv
<1>2. ASSUME NEW op \in writes, TransmitByte(op)
      PROVE  MessagesInOrder'
  BY <1>2, RefinesTransmit, OrderTransmit
<1>3. ASSUME UNCHANGED <<accepted, wire>>
      PROVE  MessagesInOrder'
  BY <1>3 DEF MessagesInOrder, Channel!FirstInFirstOut, Channel!Unsent, Channel!Bytes,
              Channel!BytesOf, Channel!Before, MessageLengths
<1> QED
  BY <1>1, <1>2, <1>3
     DEF Next, AsyncWrite, WriteHandler, ReturnBacklog, LaunchFirst, PeerFails, Close,
         WriteIncomplete, WriteComplete, PopMessage, QueueEmpty, LaunchNext, vars,
         queueVars

(* What the remote end has read is a beginning of what AsyncWrite was      *)
(* given: no byte of one message lies between two of another, and none is  *)
(* lost, repeated or overtaken, whatever threads and handlers sent them.   *)
THEOREM BytesLeaveInOrder == Spec => []MessagesInOrder
<1>1. Init /\ Inv => MessagesInOrder
  BY OrderAtFirst
<1>2. Inv /\ Inv' /\ MessagesInOrder /\ [Next]_vars => MessagesInOrder'
  BY OrderStep
<1> QED
  BY <1>1, <1>2, Invariance, PTL DEF Spec
=============================================================================
