--------------------------- MODULE CircularBuffer ---------------------------
(***************************************************************************)
(* IoCircularBuffer and the read chain that a connection or a datagram     *)
(* listener drives through it: an asynchronous read fills the spare        *)
(* capacity behind the buffered bytes, its completion handler lets the     *)
(* application consume from the front and then chains the next read.       *)
(*                                                                         *)
(* A byte is its position in the peer's stream, so the content of the      *)
(* vector shows whether bytes were lost, repeated or never written.  The   *)
(* storage is kept apart from the size: a read writes behind the size, and *)
(* resize must leave what it wrote alone.                                  *)
(*                                                                         *)
(* A definition whose name starts with Faulty is a bug one could make in   *)
(* the definition that follows it; it takes no part in the specification.  *)
(***************************************************************************)
EXTENDS Naturals, Sequences, FiniteSets

CONSTANTS Starters,      \* threads that call BeginReadSome
          Workers,       \* threads that run the io_service
          ChunkSize,     \* bytes asked for by one read
          StreamLength,  \* bound: bytes the peer sends
          MaxStarts      \* bound: calls of BeginReadSome that find no read

ASSUME CircularBufferAssumption ==
    /\ ChunkSize \in Nat \ {0}
    /\ StreamLength \in Nat
    /\ MaxStarts \in Nat

VARIABLES
    memory,       \* the storage of _buffer; its length is the capacity
    size,         \* _buffer.size()
    base,         \* how often the storage was reallocated
    notifySet,    \* _notifyAvailable # nullptr
    _shouldRead,
    _hasContext,
    reads,        \* asynchronous reads whose handler has not run
    starterPc,    \* "idle", or "checked" inside BeginReadSome
    workerPc,     \* "idle", or "notify" or "chain" inside ReadSomeHandler
    received,     \* bytes the socket has delivered into storage
    delivered,    \* history: the bytes the application consumed
    issued,       \* history: number of reads issued
    starts,       \* calls of BeginReadSome that went on to read
    failed,       \* a read failed and the error callback ran
    thrown        \* an exception left the application's callback

vars == <<memory, size, base, notifySet, _shouldRead, _hasContext, reads,
          starterPc, workerPc, received, delivered, issued, starts, failed,
          thrown>>

Junk == 0     \* a byte of storage that nobody has written

capacity == Len(memory)

Read == [id : Nat, base : Nat, slot : Nat, state : {"pending", "done", "failed"},
         got : 0 .. ChunkSize]

TypeOK == /\ memory \in Seq(0 .. StreamLength)
          /\ size \in 0 .. capacity
          /\ base \in Nat
          /\ notifySet \in BOOLEAN
          /\ _shouldRead \in BOOLEAN
          /\ _hasContext \in BOOLEAN
          /\ reads \subseteq Read
          /\ starterPc \in [Starters -> {"idle", "checked"}]
          /\ workerPc \in [Workers -> {"idle", "notify", "chain"}]
          /\ received \in 0 .. StreamLength
          /\ delivered \in Seq(0 .. StreamLength)
          /\ issued \in Nat
          /\ starts \in 0 .. MaxStarts
          /\ failed \in BOOLEAN
          /\ thrown \in BOOLEAN

Init == /\ memory = <<>>
        /\ size = 0
        /\ base = 0
        /\ notifySet = FALSE
        /\ _shouldRead = FALSE
        /\ _hasContext = FALSE
        /\ reads = {}
        /\ starterPc = [s \in Starters |-> "idle"]
        /\ workerPc = [w \in Workers |-> "idle"]
        /\ received = 0
        /\ delivered = <<>>
        /\ issued = 0
        /\ starts = 0
        /\ failed = FALSE
        /\ thrown = FALSE
-----------------------------------------------------------------------------
(* The vector.                                                             *)

(* reserve: new storage keeps the elements and nothing behind them.        *)
Reserve(n) ==
    IF n > capacity
    THEN /\ memory' = [i \in 1 .. n |-> IF i <= size THEN memory[i] ELSE Junk]
         /\ base' = base + 1
    ELSE UNCHANGED <<memory, base>>

FaultyResize(n) ==
    /\ size' = n
    /\ memory' = [i \in 1 .. capacity |->
                     IF i \in size + 1 .. n THEN Junk ELSE memory[i]]
    /\ UNCHANGED base

(* resize: within the capacity ResizeReserveAllocator constructs nothing,  *)
(* so the bytes behind the old size stay what the read made them.          *)
Resize(n) ==
    /\ size' = n
    /\ IF n > capacity
       THEN /\ memory' = [i \in 1 .. n |-> IF i <= size THEN memory[i] ELSE Junk]
            /\ base' = base + 1
       ELSE UNCHANGED <<memory, base>>

(* erase from the front: the rest moves down, the capacity stays.          *)
Erase(len) ==
    /\ size' = size - len
    /\ memory' = [i \in 1 .. capacity |->
                     IF i <= size - len THEN memory[i + len] ELSE memory[i]]
    /\ UNCHANGED base

FaultyReadSome ==
    /\ Reserve(ChunkSize)
    /\ issued' = issued + 1
    /\ reads' = reads \cup {[id |-> issued + 1, base |-> base', slot |-> 0,
                             state |-> "pending", got |-> 0]}

(* ReadSome: make room for a chunk and read into it.                       *)
ReadSome ==
    /\ Reserve(size + ChunkSize)
    /\ issued' = issued + 1
    /\ reads' = reads \cup {[id |-> issued + 1, base |-> base', slot |-> size,
                             state |-> "pending", got |-> 0]}
-----------------------------------------------------------------------------
(* Starting.                                                               *)

(* BeginChainedRead: throws, changing nothing, once a callback is set.     *)
BeginChainedRead(immediate) ==
    /\ ~notifySet
    /\ notifySet' = TRUE
    /\ _shouldRead' = immediate
    /\ IF immediate THEN ReadSome ELSE UNCHANGED <<memory, base, issued,
                                                   reads>>
    /\ UNCHANGED <<size, _hasContext, starterPc, workerPc, received, delivered,
                   starts, failed, thrown>>

(* BeginReadSome: return if a read chain is running.                       *)
TestShouldRead(s) ==
    /\ starterPc[s] = "idle"
    /\ notifySet
    /\ ~_shouldRead
    /\ starts < MaxStarts
    /\ starts' = starts + 1
    /\ starterPc' = [starterPc EXCEPT ![s] = "checked"]
    /\ UNCHANGED <<memory, size, base, notifySet, _shouldRead, _hasContext,
                   reads, workerPc, received, delivered, issued, failed,
                   thrown>>

FaultyBeginReadSome(s) ==
    /\ starterPc[s] = "checked"
    /\ ReadSome
    /\ starterPc' = [starterPc EXCEPT ![s] = "idle"]
    /\ UNCHANGED <<size, notifySet, _shouldRead, _hasContext, workerPc,
                   received, delivered, starts, failed, thrown>>

(* BeginReadSome: note that a chain is running and start it.               *)
StartReading(s) ==
    /\ starterPc[s] = "checked"
    /\ _shouldRead' = TRUE
    /\ ReadSome
    /\ starterPc' = [starterPc EXCEPT ![s] = "idle"]
    /\ UNCHANGED <<size, notifySet, _hasContext, workerPc, received, delivered,
                   starts, failed, thrown>>
-----------------------------------------------------------------------------
(* asio: a read completes with at least one byte, or fails (end of file,   *)
(* reset, or the socket was closed).                                       *)
Arrive(op, n) ==
    /\ op.state = "pending"
    /\ received + n <= StreamLength
    /\ received' = received + n
    /\ reads' = (reads \ {op}) \cup {[op EXCEPT !.state = "done", !.got = n]}
    /\ memory' = IF op.base = base
                 THEN [i \in 1 .. capacity |->
                          IF i \in op.slot + 1 .. op.slot + n
                          THEN received + (i - op.slot) ELSE memory[i]]
                 ELSE memory
    /\ UNCHANGED <<size, base, notifySet, _shouldRead, _hasContext, starterPc,
                   workerPc, delivered, issued, starts, failed, thrown>>

Fail(op) ==
    /\ op.state = "pending"
    /\ reads' = (reads \ {op}) \cup {[op EXCEPT !.state = "failed"]}
    /\ UNCHANGED <<memory, size, base, notifySet, _shouldRead, _hasContext,
                   starterPc, workerPc, received, delivered, issued, starts,
                   failed, thrown>>
-----------------------------------------------------------------------------
(* The completion handler.                                                 *)

FaultyReadFailed(w, op) ==
    /\ workerPc[w] = "idle"
    /\ op.state = "failed"
    /\ reads' = reads \ {op}
    /\ failed' = TRUE
    /\ UNCHANGED <<memory, size, base, notifySet, _shouldRead, _hasContext,
                   starterPc, workerPc, received, delivered, issued, starts,
                   thrown>>

(* A read of nothing or with an error: EndReadSome, then the error         *)
(* callback; nothing is chained.                                           *)
ReadFailed(w, op) ==
    /\ workerPc[w] = "idle"
    /\ op.state = "failed"
    /\ reads' = reads \ {op}
    /\ _shouldRead' = FALSE
    /\ failed' = TRUE
    /\ UNCHANGED <<memory, size, base, notifySet, _hasContext, starterPc,
                   workerPc, received, delivered, issued, starts, thrown>>

(* ReadSomeHandler: under the context guard take the bytes in and call the *)
(* application.                                                            *)
ReadSomeHandler(w, op) ==
    /\ workerPc[w] = "idle"
    /\ op.state = "done"
    /\ reads' = reads \ {op}
    /\ _hasContext' = TRUE
    /\ Resize(size + op.got)
    /\ workerPc' = [workerPc EXCEPT ![w] = "notify"]
    /\ UNCHANGED <<notifySet, _shouldRead, starterPc, received, delivered,
                   issued, starts, failed, thrown>>

(* CopyTo and Consume, called from the callback; see NotifyThrows for more *)
(* bytes than there are.                                                   *)
Consume(w, len) ==
    /\ workerPc[w] = "notify"
    /\ _hasContext
    /\ len <= size
    /\ delivered' = delivered \o SubSeq(memory, 1, len)
    /\ Erase(len)
    /\ UNCHANGED <<notifySet, _shouldRead, _hasContext, reads, starterPc,
                   workerPc, received, issued, starts, failed, thrown>>

FaultyNotifyReturns(w) ==
    /\ workerPc[w] = "notify"
    /\ workerPc' = [workerPc EXCEPT ![w] = "chain"]
    /\ UNCHANGED <<memory, size, base, notifySet, _shouldRead, _hasContext,
                   reads, starterPc, received, delivered, issued, starts,
                   failed, thrown>>

(* The callback returns; the guard gives the context up.                   *)
NotifyReturns(w) ==
    /\ workerPc[w] = "notify"
    /\ _hasContext' = FALSE
    /\ workerPc' = [workerPc EXCEPT ![w] = "chain"]
    /\ UNCHANGED <<memory, size, base, notifySet, _shouldRead, reads,
                   starterPc, received, delivered, issued, starts, failed,
                   thrown>>

(* The callback throws, or consumes more than is buffered, which makes     *)
(* Consume throw: the guard gives the context up and nothing is chained.   *)
NotifyThrows(w) ==
    /\ workerPc[w] = "notify"
    /\ _hasContext' = FALSE
    /\ thrown' = TRUE
    /\ workerPc' = [workerPc EXCEPT ![w] = "idle"]
    /\ UNCHANGED <<memory, size, base, notifySet, _shouldRead, reads,
                   starterPc, received, delivered, issued, starts, failed>>

FaultyChainRead(w) ==
    /\ workerPc[w] = "chain"
    /\ workerPc' = [workerPc EXCEPT ![w] = "idle"]
    /\ UNCHANGED <<memory, size, base, notifySet, _shouldRead, _hasContext,
                   reads, starterPc, received, delivered, issued, starts,
                   failed, thrown>>

(* Chain the next read unless reading was ended meanwhile.                 *)
ChainRead(w) ==
    /\ workerPc[w] = "chain"
    /\ workerPc' = [workerPc EXCEPT ![w] = "idle"]
    /\ IF _shouldRead THEN ReadSome ELSE UNCHANGED <<memory, base, issued,
                                                     reads>>
    /\ UNCHANGED <<size, notifySet, _shouldRead, _hasContext, starterPc,
                   received, delivered, starts, failed, thrown>>
-----------------------------------------------------------------------------
Start == \/ \E immediate \in BOOLEAN : BeginChainedRead(immediate)
         \/ \E s \in Starters : TestShouldRead(s) \/ StartReading(s)

Complete(op) == (\E n \in 1 .. ChunkSize : Arrive(op, n)) \/ Fail(op)

Handle(w) == \E op \in reads : ReadFailed(w, op) \/ ReadSomeHandler(w, op)

Next == \/ Start
        \/ \E op \in reads : Complete(op)
        \/ \E w \in Workers : \/ Handle(w)
                              \/ \E len \in 1 .. capacity : Consume(w, len)
                              \/ NotifyReturns(w)
                              \/ NotifyThrows(w)
                              \/ ChainRead(w)

(* The peer sends its stream, the io_service runs its handlers, a thread   *)
(* inside BeginReadSome goes on, and the application's callback returns.   *)
Fairness ==
    /\ WF_vars(\E op \in reads : \E n \in 1 .. ChunkSize : Arrive(op, n))
    /\ \A s \in Starters : WF_vars(StartReading(s))
    /\ \A w \in Workers : /\ WF_vars(Handle(w))
                          /\ WF_vars(NotifyReturns(w))
                          /\ WF_vars(ChainRead(w))

Spec == Init /\ [][Next]_vars /\ Fairness
-----------------------------------------------------------------------------
(* Safety.                                                                 *)

(* The links of the read chain: a read, its handler, or a thread that has  *)
(* decided to start a read.                                                *)
Busy == {w \in Workers : workerPc[w] # "idle"}

(* "Only one chained readsome allowed in progress."                        *)
OneReadInProgress ==
    /\ \A a, b \in reads : a = b
    /\ reads # {} => Busy = {}
    /\ \A v, w \in Busy : v = w

(* While the application holds the callback context no read is writing     *)
(* into the buffer, and the context is held by exactly the thread that is  *)
(* in the callback.                                                        *)
ContextExcludesRead ==
    /\ _hasContext => reads = {}
    /\ _hasContext <=> \E w \in Workers : workerPc[w] = "notify"

(* A read that is under way writes behind the buffered bytes, within the   *)
(* capacity of the storage the vector has now.                             *)
ReadFitsSlot ==
    \A op \in reads : /\ op.base = base
                      /\ op.slot = size
                      /\ op.slot + ChunkSize <= capacity

(* While the flag says that a chain is running there is a link of it, a    *)
(* read or the handler of one, unless the application's callback threw:    *)
(* no order of failures, starts and handlers leaves the flag set with      *)
(* nothing behind it, when BeginReadSome would refuse to read ever again.  *)
ReadingGoesOn == _shouldRead /\ ~thrown => reads # {} \/ Busy # {}

(* What the application consumed, what is buffered and what a completed    *)
(* read has put behind it are, in order, the stream the peer sent: nothing *)
(* is lost, repeated or handed out unwritten.                              *)
BufferHoldsStream ==
    /\ \A i \in 1 .. Len(delivered) : delivered[i] = i
    /\ \A i \in 1 .. size : memory[i] = Len(delivered) + i
    /\ (\A op \in reads : op.state # "done") => received = Len(delivered) + size
-----------------------------------------------------------------------------
(* Liveness.                                                               *)

(* Once a chain is running the whole stream is read and offered to the     *)
(* application, unless a read fails or the callback throws.                *)
StreamIsRead ==
    (notifySet /\ _shouldRead)
        ~> (failed \/ thrown \/ Len(delivered) + size = StreamLength)
=============================================================================
