------------------------ MODULE CircularBufferProofs ------------------------
(***************************************************************************)
(* Proofs about CircularBuffer, for any chunk size, length of stream,      *)
(* number of io_service threads and number of threads that start reads.    *)
(* The test and the set of BeginReadSome are not atomic, and two calls     *)
(* that are between them together start two reads: what depends on there   *)
(* being one read is proved of the behaviours in which no two calls ever   *)
(* are, whatever threads they come from.                                   *)
(***************************************************************************)
EXTENDS CircularBuffer, SequenceTheorems, TLAPS

(* No two calls of BeginReadSome are between the test and the set.         *)
StartsDoNotOverlap ==
    \A s, u \in Starters :
        starterPc[s] = "checked" /\ starterPc[u] = "checked" => s = u

(* Who may start a read: nobody while a chain is running, and a chain runs *)
(* while the flag is set.                                                  *)
StartsAlone ==
    /\ \A s \in Starters : starterPc[s] = "checked" => notifySet /\ ~_shouldRead
    /\ ~notifySet => ~_shouldRead
    /\ ~_shouldRead => reads = {} /\ Busy = {}

(* The storage holds the stream, and a read that has completed put its     *)
(* bytes behind the buffered ones.                                         *)
Contents ==
    /\ \A i \in 1 .. Len(delivered) : delivered[i] = i
    /\ \A i \in 1 .. size : memory[i] = Len(delivered) + i
    /\ (\A op \in reads : op.state # "done") => received = Len(delivered) + size
    /\ \A op \in reads : op.state = "done" =>
           /\ received = Len(delivered) + size + op.got
           /\ \A i \in 1 .. size + op.got : memory[i] = Len(delivered) + i

Chain == /\ StartsAlone
         /\ OneReadInProgress
         /\ ContextExcludesRead

IInv == /\ TypeOK
        /\ Chain
        /\ ReadFitsSlot
        /\ Contents
-----------------------------------------------------------------------------
(* The vector.                                                             *)

LEMMA ReserveFacts ==
    ASSUME TypeOK, NEW n \in Nat, Reserve(n)
    PROVE  /\ memory' \in Seq(0 .. StreamLength)
           /\ Len(memory') >= n
           /\ Len(memory') >= Len(memory)
           /\ base' \in Nat
           /\ \A i \in 1 .. size : memory'[i] = memory[i]
<1> USE CircularBufferAssumption DEF TypeOK, capacity
<1>1. CASE n > capacity
  <2>1. memory' = [i \in 1 .. n |-> IF i <= size THEN memory[i] ELSE Junk]
    BY <1>1 DEF Reserve
  <2>2. \A i \in 1 .. n :
            (IF i <= size THEN memory[i] ELSE Junk) \in 0 .. StreamLength
    BY DEF Junk
  <2>3. memory' \in Seq(0 .. StreamLength) /\ Len(memory') = n
    BY <2>1, <2>2
  <2>4. \A i \in 1 .. size : memory'[i] = memory[i]
    BY <2>1, <1>1
  <2> QED
    BY <2>3, <2>4, <1>1 DEF Reserve
<1>2. CASE ~(n > capacity)
  BY <1>2 DEF Reserve
<1> QED
  BY <1>1, <1>2

LEMMA ReadSomeFacts ==
    ASSUME TypeOK, ReadSome
    PROVE  /\ memory' \in Seq(0 .. StreamLength)
           /\ Len(memory') >= size + ChunkSize
           /\ base' \in Nat
           /\ issued' \in Nat
           /\ \A i \in 1 .. size : memory'[i] = memory[i]
           /\ reads' \subseteq Read
<1> USE CircularBufferAssumption
<1>1. size + ChunkSize \in Nat /\ size \in Nat /\ capacity \in Nat
  BY DEF TypeOK, capacity
<1>2. /\ memory' \in Seq(0 .. StreamLength)
      /\ Len(memory') >= size + ChunkSize
      /\ base' \in Nat
      /\ \A i \in 1 .. size : memory'[i] = memory[i]
  BY <1>1, ReserveFacts DEF ReadSome
<1>3. issued' \in Nat
  BY DEF ReadSome, TypeOK
<1>4. [id |-> issued + 1, base |-> base', slot |-> size, state |-> "pending",
       got |-> 0] \in Read
  BY <1>1, <1>2 DEF Read, TypeOK
<1>5. reads \subseteq Read
  BY DEF TypeOK
<1> QED
  BY <1>2, <1>3, <1>4, <1>5 DEF ReadSome

LEMMA ResizeFacts ==
    ASSUME TypeOK, NEW n \in Nat, n >= size, Resize(n)
    PROVE  /\ memory' \in Seq(0 .. StreamLength)
           /\ size' \in 0 .. Len(memory')
           /\ base' \in Nat
<1> USE CircularBufferAssumption DEF TypeOK, capacity
<1>1. CASE n > capacity
  <2>1. memory' = [i \in 1 .. n |-> IF i <= size THEN memory[i] ELSE Junk]
    BY <1>1 DEF Resize
  <2>2. \A i \in 1 .. n :
            (IF i <= size THEN memory[i] ELSE Junk) \in 0 .. StreamLength
    BY DEF Junk
  <2>3. memory' \in Seq(0 .. StreamLength) /\ Len(memory') = n
    BY <2>1, <2>2
  <2> QED
    BY <2>3, <1>1 DEF Resize
<1>2. CASE ~(n > capacity)
  BY <1>2 DEF Resize
<1> QED
  BY <1>1, <1>2

LEMMA EraseFacts ==
    ASSUME TypeOK, NEW len \in 1 .. capacity, len <= size, Erase(len)
    PROVE  /\ memory' \in Seq(0 .. StreamLength)
           /\ size' \in 0 .. Len(memory')
           /\ size' = size - len
           /\ \A i \in 1 .. size' : memory'[i] = memory[i + len]
<1> USE CircularBufferAssumption DEF TypeOK, capacity
<1>1. memory' = [i \in 1 .. Len(memory) |->
                    IF i <= size - len THEN memory[i + len] ELSE memory[i]]
  BY DEF Erase
<1>2. \A i \in 1 .. Len(memory) :
          (IF i <= size - len THEN memory[i + len] ELSE memory[i])
              \in 0 .. StreamLength
  OBVIOUS
<1>3. memory' \in Seq(0 .. StreamLength) /\ Len(memory') = Len(memory)
  BY <1>1, <1>2
<1> QED
  BY <1>1, <1>3 DEF Erase

LEMMA ArriveFacts ==
    ASSUME TypeOK, NEW op \in reads, NEW n \in 1 .. ChunkSize, Arrive(op, n)
    PROVE  /\ memory' \in Seq(0 .. StreamLength)
           /\ Len(memory') = Len(memory)
           /\ op.base = base =>
                  \A i \in 1 .. Len(memory) :
                      memory'[i] = IF i \in op.slot + 1 .. op.slot + n
                                   THEN received + (i - op.slot) ELSE memory[i]
<1>1. op \in Read
  BY DEF TypeOK
<1>2. op.slot \in Nat
  BY <1>1 DEF Read
<1>3. /\ memory \in Seq(0 .. StreamLength)
      /\ received \in Nat
      /\ n \in Nat
      /\ received + n <= StreamLength
      /\ StreamLength \in Nat
  BY CircularBufferAssumption DEF TypeOK, Arrive
<1>4. CASE op.base = base
  <2>1. memory' = [i \in 1 .. Len(memory) |->
                      IF i \in op.slot + 1 .. op.slot + n
                      THEN received + (i - op.slot) ELSE memory[i]]
    BY <1>4 DEF Arrive, capacity
  <2>2. \A i \in 1 .. Len(memory) : memory[i] \in 0 .. StreamLength
    BY <1>3
  <2>3. \A i \in op.slot + 1 .. op.slot + n :
            received + (i - op.slot) \in 0 .. StreamLength
    BY <1>2, <1>3
  <2>4. \A i \in 1 .. Len(memory) :
            (IF i \in op.slot + 1 .. op.slot + n
             THEN received + (i - op.slot) ELSE memory[i]) \in 0 .. StreamLength
    BY <2>2, <2>3
  <2>5. memory' \in Seq(0 .. StreamLength) /\ Len(memory') = Len(memory)
    BY <1>3, <2>1, <2>4
  <2> QED
    BY <2>1, <2>5
<1>5. CASE op.base # base
  BY <1>3, <1>5 DEF Arrive
<1> QED
  BY <1>4, <1>5
-----------------------------------------------------------------------------
LEMMA InitIInv == Init => IInv
<1> SUFFICES ASSUME Init PROVE IInv
  OBVIOUS
<1> USE CircularBufferAssumption DEF Init
<1>1. TypeOK
  <2>1. /\ memory \in Seq(0 .. StreamLength)
        /\ delivered \in Seq(0 .. StreamLength)
    OBVIOUS
  <2>2. size \in 0 .. capacity
    BY DEF capacity
  <2>3. /\ starterPc \in [Starters -> {"idle", "checked"}]
        /\ workerPc \in [Workers -> {"idle", "notify", "chain"}]
    OBVIOUS
  <2>4. reads \subseteq Read
    OBVIOUS
  <2>5. /\ base \in Nat
        /\ issued \in Nat
        /\ received \in 0 .. StreamLength
        /\ starts \in 0 .. MaxStarts
    OBVIOUS
  <2>6. /\ notifySet \in BOOLEAN
        /\ _shouldRead \in BOOLEAN
        /\ _hasContext \in BOOLEAN
        /\ failed \in BOOLEAN
        /\ thrown \in BOOLEAN
    OBVIOUS
  <2> QED
    BY <2>1, <2>2, <2>3, <2>4, <2>5, <2>6 DEF TypeOK
<1>2. Chain
  BY DEF Chain, StartsAlone, OneReadInProgress, ContextExcludesRead, Busy
<1>3. ReadFitsSlot /\ Contents
  BY DEF ReadFitsSlot, Contents
<1> QED
  BY <1>1, <1>2, <1>3 DEF IInv
-----------------------------------------------------------------------------
(* Types.                                                                  *)

LEMMA TypeStep ==
    ASSUME TypeOK, [Next]_vars
    PROVE  TypeOK'
<1> USE CircularBufferAssumption
<1>1. ASSUME NEW immediate \in BOOLEAN, BeginChainedRead(immediate)
      PROVE  TypeOK'
  <2>1. CASE immediate
    BY <1>1, <2>1, ReadSomeFacts DEF BeginChainedRead, TypeOK, capacity
  <2>2. CASE ~immediate
    BY <1>1, <2>2 DEF BeginChainedRead, TypeOK, capacity
  <2> QED
    BY <2>1, <2>2
<1>2. ASSUME NEW s \in Starters, TestShouldRead(s)
      PROVE  TypeOK'
  BY <1>2 DEF TestShouldRead, TypeOK, capacity
<1>3. ASSUME NEW s \in Starters, StartReading(s)
      PROVE  TypeOK'
  BY <1>3, ReadSomeFacts DEF StartReading, TypeOK, capacity
<1>4. ASSUME NEW op \in reads, NEW n \in 1 .. ChunkSize, Arrive(op, n)
      PROVE  TypeOK'
  <2>1. [op EXCEPT !.state = "done", !.got = n] \in Read
    <3>1. op \in Read /\ n \in 0 .. ChunkSize
      BY DEF TypeOK
    <3> QED
      BY <3>1 DEF Read
  <2>2. reads' \subseteq Read /\ received' \in 0 .. StreamLength
    BY <1>4, <2>1 DEF Arrive, TypeOK
  <2> QED
    BY <1>4, <2>2, ArriveFacts DEF Arrive, TypeOK, capacity
<1>5. ASSUME NEW op \in reads, Fail(op)
      PROVE  TypeOK'
  <2>1. [op EXCEPT !.state = "failed"] \in Read
    BY DEF TypeOK, Read
  <2> QED
    BY <1>5, <2>1 DEF Fail, TypeOK, capacity
<1>6. ASSUME NEW w \in Workers, NEW op \in reads, ReadFailed(w, op)
      PROVE  TypeOK'
  BY <1>6 DEF ReadFailed, TypeOK, capacity
<1>7. ASSUME NEW w \in Workers, NEW op \in reads, ReadSomeHandler(w, op)
      PROVE  TypeOK'
  <2>1. size + op.got \in Nat /\ size + op.got >= size
    BY DEF TypeOK, Read, capacity
  <2>2. /\ memory' \in Seq(0 .. StreamLength)
        /\ size' \in 0 .. Len(memory')
        /\ base' \in Nat
    BY <1>7, <2>1, ResizeFacts DEF ReadSomeHandler
  <2> QED
    BY <1>7, <2>2 DEF ReadSomeHandler, TypeOK, capacity
<1>8. ASSUME NEW w \in Workers, NEW len \in 1 .. capacity, Consume(w, len)
      PROVE  TypeOK'
  <2>1. memory' \in Seq(0 .. StreamLength) /\ size' \in 0 .. Len(memory')
    BY <1>8, EraseFacts DEF Consume
  <2>2. SubSeq(memory, 1, len) \in Seq(0 .. StreamLength)
    BY DEF TypeOK, capacity
  <2>3. delivered' \in Seq(0 .. StreamLength)
    BY <1>8, <2>2 DEF Consume, TypeOK
  <2> QED
    BY <1>8, <2>1, <2>3 DEF Consume, Erase, TypeOK, capacity
<1>9. ASSUME NEW w \in Workers,
             NotifyReturns(w) \/ NotifyThrows(w)
      PROVE  TypeOK'
  BY <1>9 DEF NotifyReturns, NotifyThrows, TypeOK, capacity
<1>10. ASSUME NEW w \in Workers, ChainRead(w)
       PROVE  TypeOK'
  <2>1. CASE _shouldRead
    BY <1>10, <2>1, ReadSomeFacts DEF ChainRead, TypeOK, capacity
  <2>2. CASE ~_shouldRead
    BY <1>10, <2>2 DEF ChainRead, TypeOK, capacity
  <2> QED
    BY <2>1, <2>2
<1>11. CASE UNCHANGED vars
  BY <1>11 DEF vars, TypeOK, capacity
<1> QED
  BY <1>1, <1>2, <1>3, <1>4, <1>5, <1>6, <1>7, <1>8, <1>9, <1>10, <1>11
     DEF Next, Start, Complete, Handle
-----------------------------------------------------------------------------
(* The chain.                                                              *)

LEMMA ChainStep ==
    ASSUME StartsDoNotOverlap, TypeOK, Chain, [Next]_vars
    PROVE  Chain'
<1> USE DEF Chain, StartsAlone, OneReadInProgress, ContextExcludesRead, Busy
<1>0. /\ starterPc \in [Starters -> {"idle", "checked"}]
      /\ workerPc \in [Workers -> {"idle", "notify", "chain"}]
  BY DEF TypeOK
<1>1. ASSUME NEW immediate \in BOOLEAN, BeginChainedRead(immediate)
      PROVE  Chain'
  <2>1. ~_shouldRead /\ reads = {} /\ \A w \in Workers : workerPc[w] = "idle"
    BY <1>1 DEF BeginChainedRead
  <2>2. \A s \in Starters : starterPc[s] # "checked"
    BY <1>1 DEF BeginChainedRead
  <2>3. CASE immediate
    BY <1>1, <2>1, <2>2, <2>3 DEF BeginChainedRead, ReadSome
  <2>4. CASE ~immediate
    BY <1>1, <2>1, <2>2, <2>4 DEF BeginChainedRead
  <2> QED
    BY <2>3, <2>4
<1>2. ASSUME NEW s \in Starters, TestShouldRead(s)
      PROVE  Chain'
  BY <1>0, <1>2 DEF TestShouldRead
<1>3. ASSUME NEW s \in Starters, StartReading(s)
      PROVE  Chain'
  <2>1. reads = {} /\ \A w \in Workers : workerPc[w] = "idle"
    BY <1>3 DEF StartReading
  <2>2. \A u \in Starters : starterPc'[u] # "checked"
    BY <1>0, <1>3 DEF StartReading, StartsDoNotOverlap
  <2>3. notifySet' /\ _shouldRead' /\ workerPc' = workerPc /\ ~_hasContext'
    BY <1>3, <2>1 DEF StartReading
  <2>4. \A a, b \in reads' : a = b
    BY <1>3, <2>1 DEF StartReading, ReadSome
  <2> QED
    BY <2>1, <2>2, <2>3, <2>4
<1>4. ASSUME NEW op \in reads,
             \/ \E n \in 1 .. ChunkSize : Arrive(op, n)
             \/ Fail(op)
      PROVE  Chain'
  <2>1. PICK r : reads' = {r}
    <3>1. reads \ {op} = {}
      OBVIOUS
    <3>2. ASSUME NEW n \in 1 .. ChunkSize, Arrive(op, n)
          PROVE  reads' = {[op EXCEPT !.state = "done", !.got = n]}
      BY <3>1, <3>2 DEF Arrive
    <3>3. ASSUME Fail(op)
          PROVE  reads' = {[op EXCEPT !.state = "failed"]}
      BY <3>1, <3>3 DEF Fail
    <3> QED
      BY <1>4, <3>2, <3>3
  <2>2. UNCHANGED <<starterPc, workerPc, notifySet, _shouldRead, _hasContext>>
    BY <1>4 DEF Arrive, Fail
  <2> QED
    BY <2>1, <2>2
<1>5. ASSUME NEW w \in Workers, NEW op \in reads, ReadFailed(w, op)
      PROVE  Chain'
  BY <1>5 DEF ReadFailed
<1>6. ASSUME NEW w \in Workers, NEW op \in reads, ReadSomeHandler(w, op)
      PROVE  Chain'
  <2>1. reads' = {} /\ Busy = {} /\ _shouldRead
    BY <1>6 DEF ReadSomeHandler
  <2>2. \A v \in Workers : workerPc'[v] # "idle" <=> v = w
    BY <1>0, <1>6, <2>1 DEF ReadSomeHandler
  <2>3. workerPc'[w] = "notify" /\ _hasContext'
    BY <1>0, <1>6 DEF ReadSomeHandler
  <2>4. UNCHANGED <<starterPc, notifySet, _shouldRead>>
    BY <1>6 DEF ReadSomeHandler
  <2> QED
    BY <2>1, <2>2, <2>3, <2>4
<1>7. ASSUME NEW w \in Workers, NEW len \in 1 .. capacity, Consume(w, len)
      PROVE  Chain'
  BY <1>7 DEF Consume
<1>8. ASSUME NEW w \in Workers, NotifyReturns(w)
      PROVE  Chain'
  BY <1>0, <1>8 DEF NotifyReturns
<1>9. ASSUME NEW w \in Workers, NotifyThrows(w)
      PROVE  Chain'
  BY <1>0, <1>9 DEF NotifyThrows
<1>10. ASSUME NEW w \in Workers, ChainRead(w)
       PROVE  Chain'
  <2>1. reads = {} /\ _shouldRead
    BY <1>10 DEF ChainRead
  <2>2. \A v \in Workers : workerPc'[v] = "idle"
    BY <1>0, <1>10 DEF ChainRead
  <2>3. UNCHANGED <<starterPc, notifySet, _shouldRead, _hasContext>>
    BY <1>10 DEF ChainRead
  <2>4. \A a, b \in reads' : a = b
    BY <1>10, <2>1 DEF ChainRead, ReadSome
  <2>5. ~_hasContext
    BY <1>0, <1>10 DEF ChainRead
  <2> QED
    BY <2>1, <2>2, <2>3, <2>4, <2>5
<1>11. CASE UNCHANGED vars
  BY <1>11 DEF vars
<1> QED
  BY <1>1, <1>2, <1>3, <1>4, <1>5, <1>6, <1>7, <1>8, <1>9, <1>10, <1>11
     DEF Next, Start, Complete, Handle
-----------------------------------------------------------------------------
(* The storage.                                                            *)

(* A read is started behind the buffered bytes and leaves them alone.      *)
LEMMA ReadSomeStep ==
    ASSUME TypeOK, Contents, reads = {}, ReadSome,
           UNCHANGED <<size, received, delivered>>
    PROVE  ReadFitsSlot' /\ Contents'
<1>1. /\ reads' # {}
      /\ \A r \in reads' : /\ r.base = base'
                           /\ r.slot = size
                           /\ r.state = "pending"
  <2>1. reads' = {[id |-> issued + 1, base |-> base', slot |-> size,
                   state |-> "pending", got |-> 0]}
    BY DEF ReadSome
  <2> QED
    BY <2>1
<1>2. Len(memory') >= size + ChunkSize
  BY ReadSomeFacts
<1>3. ReadFitsSlot'
  BY <1>1, <1>2 DEF ReadFitsSlot, capacity
<1>4. \A i \in 1 .. size : memory'[i] = Len(delivered) + i
  BY ReadSomeFacts DEF Contents
<1>5. received = Len(delivered) + size
  BY DEF Contents
<1>6. \A i \in 1 .. Len(delivered) : delivered[i] = i
  BY DEF Contents
<1>7. Contents'
  BY <1>1, <1>4, <1>5, <1>6 DEF Contents
<1> QED
  BY <1>3, <1>7

LEMMA ArriveStep ==
    ASSUME TypeOK, Chain, ReadFitsSlot, Contents,
           NEW op \in reads, NEW n \in 1 .. ChunkSize, Arrive(op, n)
    PROVE  ReadFitsSlot' /\ Contents'
<1>1. op \in Read /\ \A other \in reads : other = op
  BY DEF TypeOK, Chain, OneReadInProgress
<1>2. /\ reads' # {}
      /\ \A r \in reads' : /\ r.base = base
                           /\ r.slot = size
                           /\ r.state = "done"
                           /\ r.got = n
  <2>1. reads' = {[op EXCEPT !.state = "done", !.got = n]}
    <3>1. reads \ {op} = {}
      BY <1>1
    <3> QED
      BY <3>1 DEF Arrive
  <2>2. op.base = base /\ op.slot = size
    BY DEF ReadFitsSlot
  <2> QED
    BY <1>1, <2>1, <2>2 DEF Read
<1>3. UNCHANGED <<size, base, delivered>> /\ Len(memory') = Len(memory)
  BY ArriveFacts DEF Arrive
<1>4. ReadFitsSlot'
  BY <1>2, <1>3 DEF ReadFitsSlot, capacity
<1>5. op.base = base /\ op.slot = size /\ size + ChunkSize <= Len(memory)
  BY DEF ReadFitsSlot, capacity
<1>6. received = Len(delivered) + size /\ received' = received + n
  BY <1>1 DEF Contents, Arrive
<1>7. size \in Nat /\ n \in Nat /\ n <= ChunkSize /\ Len(delivered) \in Nat
  BY CircularBufferAssumption DEF TypeOK, capacity
<1>8. \A i \in 1 .. size + n : memory'[i] = Len(delivered) + i
  <2>1. \A i \in 1 .. Len(memory) :
            memory'[i] = IF i \in size + 1 .. size + n
                         THEN received + (i - size) ELSE memory[i]
    BY <1>5, ArriveFacts
  <2>2. Len(memory) \in Nat /\ ChunkSize \in Nat
    BY CircularBufferAssumption DEF TypeOK
  <2>3. \A i \in 1 .. size : memory[i] = Len(delivered) + i
    BY DEF Contents
  <2>4. \A i \in 1 .. size + n : i \in 1 .. Len(memory)
    BY <1>5, <1>7, <2>2
  <2>5. ASSUME NEW i \in 1 .. size + n, i <= size
        PROVE  memory'[i] = Len(delivered) + i
    BY <1>7, <2>1, <2>3, <2>4, <2>5
  <2>6. ASSUME NEW i \in 1 .. size + n, ~(i <= size)
        PROVE  memory'[i] = Len(delivered) + i
    <3>1. memory'[i] = received + (i - size)
      BY <1>7, <2>1, <2>4, <2>6
    <3> QED
      BY <1>6, <1>7, <3>1
  <2> QED
    BY <2>5, <2>6
<1>9. Contents'
  BY <1>2, <1>3, <1>6, <1>7, <1>8 DEF Contents
<1> QED
  BY <1>4, <1>9

LEMMA ReadSomeHandlerStep ==
    ASSUME TypeOK, Chain, ReadFitsSlot, Contents,
           NEW w \in Workers, NEW op \in reads, ReadSomeHandler(w, op)
    PROVE  ReadFitsSlot' /\ Contents'
<1>1. op \in Read /\ reads' = {}
  BY DEF TypeOK, Chain, OneReadInProgress, ReadSomeHandler
<1>2. /\ size \in Nat
      /\ op.got \in 0 .. ChunkSize
      /\ ChunkSize \in Nat
      /\ capacity \in Nat
  BY <1>1, CircularBufferAssumption DEF TypeOK, capacity, Read
<1>3. size + op.got <= capacity
  BY <1>2 DEF ReadFitsSlot
<1>4. size' = size + op.got /\ memory' = memory
  BY <1>2, <1>3 DEF ReadSomeHandler, Resize
<1>5. UNCHANGED <<received, delivered>> /\ op.state = "done"
  BY DEF ReadSomeHandler
<1>6. /\ \A i \in 1 .. Len(delivered) : delivered[i] = i
      /\ received = Len(delivered) + (size + op.got)
      /\ \A i \in 1 .. size + op.got : memory[i] = Len(delivered) + i
  <2>1. Len(delivered) \in Nat
    BY DEF TypeOK
  <2>2. received = Len(delivered) + size + op.got
    BY <1>5 DEF Contents
  <2> QED
    BY <1>2, <1>5, <2>1, <2>2 DEF Contents
<1>7. ReadFitsSlot' /\ Len(delivered') = Len(delivered)
  BY <1>1, <1>5 DEF ReadFitsSlot
<1> QED
  BY <1>1, <1>4, <1>5, <1>6, <1>7 DEF Contents

LEMMA ConsumeStep ==
    ASSUME TypeOK, Chain, Contents,
           NEW w \in Workers, NEW len \in 1 .. capacity, Consume(w, len)
    PROVE  ReadFitsSlot' /\ Contents'
<1>1. reads = {} /\ reads' = {} /\ received' = received
  BY DEF Chain, ContextExcludesRead, Consume
<1>2. size' = size - len /\ \A i \in 1 .. size' : memory'[i] = memory[i + len]
  BY EraseFacts DEF Consume
<1>3. /\ size \in Nat /\ Len(memory) \in Nat /\ size <= Len(memory)
      /\ len \in Nat /\ len >= 1 /\ len <= size
  BY DEF TypeOK, capacity, Consume
<1>4. /\ delivered \in Seq(0 .. StreamLength)
      /\ memory \in Seq(0 .. StreamLength)
  BY DEF TypeOK
<1>5. /\ SubSeq(memory, 1, len) \in Seq(0 .. StreamLength)
      /\ Len(SubSeq(memory, 1, len)) = len
      /\ \A i \in 1 .. len : SubSeq(memory, 1, len)[i] = memory[i]
  <2>1. \A i \in 1 .. Len(memory) : memory[i] \in 0 .. StreamLength
    BY <1>4, ElementOfSeq
  <2>2. \A i \in 1 .. len : i \in 1 .. Len(memory)
    BY <1>3
  <2>3. \A i \in 1 .. len : memory[i] \in 0 .. StreamLength
    BY <2>1, <2>2
  <2> QED
    BY <1>3, <2>3, SubSeqProperties
<1>6. /\ Len(delivered') = Len(delivered) + len
      /\ \A i \in 1 .. Len(delivered) : delivered'[i] = delivered[i]
      /\ \A i \in 1 .. len : delivered'[Len(delivered) + i] = memory[i]
  BY <1>3, <1>4, <1>5 DEF Consume
<1>7. \A i \in 1 .. Len(delivered') : delivered'[i] = i
  <2>1. \A i \in 1 .. Len(delivered) : delivered'[i] = i
    BY <1>6 DEF Contents
  <2>2. \A i \in 1 .. len : delivered'[Len(delivered) + i] = Len(delivered) + i
    <3>1. \A i \in 1 .. size : memory[i] = Len(delivered) + i
      BY DEF Contents
    <3>2. \A i \in 1 .. len : i \in 1 .. size
      BY <1>3
    <3> QED
      BY <1>6, <3>1, <3>2
  <2>3. Len(delivered) \in Nat /\ len \in Nat
    BY <1>3, <1>4
  <2>4. ASSUME NEW i \in 1 .. Len(delivered) + len, i > Len(delivered)
        PROVE  delivered'[i] = i
    <3>1. PICK j \in 1 .. len : i = Len(delivered) + j
      <4>1. /\ i - Len(delivered) \in 1 .. len
            /\ i = Len(delivered) + (i - Len(delivered))
        BY <2>3, <2>4
      <4> QED
        BY <4>1
    <3> QED
      BY <2>2, <3>1
  <2> QED
    BY <1>6, <2>1, <2>3, <2>4
<1>8. \A i \in 1 .. size' : memory'[i] = Len(delivered') + i
  <2>1. SUFFICES ASSUME NEW i \in 1 .. size'
                 PROVE  memory'[i] = Len(delivered') + i
    OBVIOUS
  <2>2. i + len \in 1 .. size
    BY <1>2, <1>3
  <2>3. memory[i + len] = Len(delivered) + (i + len)
    BY <2>2 DEF Contents
  <2> QED
    BY <1>2, <1>3, <1>4, <1>6, <2>3
<1>9. received' = Len(delivered') + size'
  BY <1>1, <1>2, <1>3, <1>4, <1>6 DEF Contents
<1> QED
  BY <1>1, <1>7, <1>8, <1>9 DEF ReadFitsSlot, Contents

LEMMA StorageStep ==
    ASSUME TypeOK, Chain, ReadFitsSlot, Contents, [Next]_vars
    PROVE  ReadFitsSlot' /\ Contents'
<1>1. ASSUME NEW immediate \in BOOLEAN, BeginChainedRead(immediate)
      PROVE  ReadFitsSlot' /\ Contents'
  <2>1. reads = {}
    BY <1>1 DEF BeginChainedRead, Chain, StartsAlone
  <2>2. CASE immediate
    BY <1>1, <2>1, <2>2, ReadSomeStep DEF BeginChainedRead
  <2>3. CASE ~immediate
    BY <1>1, <2>3 DEF BeginChainedRead, ReadFitsSlot, Contents, capacity
  <2> QED
    BY <2>2, <2>3
<1>2. ASSUME NEW s \in Starters, TestShouldRead(s)
      PROVE  ReadFitsSlot' /\ Contents'
  BY <1>2 DEF TestShouldRead, ReadFitsSlot, Contents, capacity
<1>3. ASSUME NEW s \in Starters, StartReading(s)
      PROVE  ReadFitsSlot' /\ Contents'
  <2>1. reads = {}
    BY <1>3 DEF StartReading, Chain, StartsAlone
  <2> QED
    BY <1>3, <2>1, ReadSomeStep DEF StartReading
<1>4. ASSUME NEW op \in reads, Fail(op)
      PROVE  ReadFitsSlot' /\ Contents'
  <2>1. op \in Read /\ \A other \in reads : other = op
    BY DEF TypeOK, Chain, OneReadInProgress
  <2>2. /\ reads' # {}
        /\ \A r \in reads' : /\ r.base = op.base
                             /\ r.slot = op.slot
                             /\ r.state = "failed"
    <3>1. reads \ {op} = {}
      BY <2>1
    <3>2. reads' = {[op EXCEPT !.state = "failed"]}
      BY <1>4, <3>1 DEF Fail
    <3> QED
      BY <2>1, <3>2 DEF Read
  <2>3. UNCHANGED <<memory, size, base, received, delivered>>
    BY <1>4 DEF Fail
  <2>4. received = Len(delivered) + size
    BY <1>4, <2>1 DEF Fail, Contents
  <2> QED
    BY <2>2, <2>3, <2>4 DEF ReadFitsSlot, Contents, capacity
<1>5. ASSUME NEW w \in Workers, NEW op \in reads, ReadFailed(w, op)
      PROVE  ReadFitsSlot' /\ Contents'
  <2>1. reads' = {} /\ \A other \in reads : other = op
    BY <1>5 DEF ReadFailed, Chain, OneReadInProgress
  <2>2. received = Len(delivered) + size
    BY <1>5, <2>1 DEF ReadFailed, Contents
  <2> QED
    BY <1>5, <2>1, <2>2 DEF ReadFailed, ReadFitsSlot, Contents
<1>6. ASSUME NEW w \in Workers, NotifyReturns(w) \/ NotifyThrows(w)
      PROVE  ReadFitsSlot' /\ Contents'
  BY <1>6 DEF NotifyReturns, NotifyThrows, ReadFitsSlot, Contents, capacity
<1>7. ASSUME NEW w \in Workers, ChainRead(w)
      PROVE  ReadFitsSlot' /\ Contents'
  <2>1. reads = {}
    BY <1>7 DEF ChainRead, Chain, OneReadInProgress, Busy
  <2>2. CASE _shouldRead
    BY <1>7, <2>1, <2>2, ReadSomeStep DEF ChainRead
  <2>3. CASE ~_shouldRead
    BY <1>7, <2>3 DEF ChainRead, ReadFitsSlot, Contents, capacity
  <2> QED
    BY <2>2, <2>3
<1>8. CASE UNCHANGED vars
  BY <1>8 DEF vars, ReadFitsSlot, Contents, capacity
<1> QED
  BY <1>1, <1>2, <1>3, <1>4, <1>5, <1>6, <1>7, <1>8, ArriveStep,
     ReadSomeHandlerStep, ConsumeStep DEF Next, Start, Complete, Handle
-----------------------------------------------------------------------------
(* The flag and the links.                                                 *)

(* A link of the chain goes only by leaving another, by clearing the flag  *)
(* or by an exception.                                                     *)
LEMMA ReadingStep ==
    ASSUME TypeOK, ReadingGoesOn, [Next]_vars
    PROVE  ReadingGoesOn'
<1> USE DEF ReadingGoesOn, Busy
<1>1. ASSUME ReadSome
      PROVE  reads' # {}
  BY <1>1 DEF ReadSome
<1>2. ASSUME NEW immediate \in BOOLEAN, BeginChainedRead(immediate)
      PROVE  ReadingGoesOn'
  BY <1>1, <1>2 DEF BeginChainedRead
<1>3. ASSUME NEW s \in Starters, TestShouldRead(s) \/ StartReading(s)
      PROVE  ReadingGoesOn'
  BY <1>1, <1>3 DEF TestShouldRead, StartReading
<1>4. ASSUME NEW op \in reads,
             \/ \E n \in 1 .. ChunkSize : Arrive(op, n)
             \/ Fail(op)
      PROVE  ReadingGoesOn'
  BY <1>4 DEF Arrive, Fail
<1>5. ASSUME NEW w \in Workers, NEW op \in reads, ReadFailed(w, op)
      PROVE  ReadingGoesOn'
  BY <1>5 DEF ReadFailed
<1>6. ASSUME NEW w \in Workers, NEW op \in reads, ReadSomeHandler(w, op)
      PROVE  ReadingGoesOn'
  <2>1. workerPc'[w] = "notify"
    BY <1>6 DEF ReadSomeHandler, TypeOK
  <2> QED
    BY <2>1
<1>7. ASSUME NEW w \in Workers, NEW len \in 1 .. capacity, Consume(w, len)
      PROVE  ReadingGoesOn'
  BY <1>7 DEF Consume
<1>8. ASSUME NEW w \in Workers, NotifyReturns(w)
      PROVE  ReadingGoesOn'
  <2>1. workerPc'[w] = "chain"
    BY <1>8 DEF NotifyReturns, TypeOK
  <2> QED
    BY <2>1
<1>9. ASSUME NEW w \in Workers, NotifyThrows(w)
      PROVE  ReadingGoesOn'
  BY <1>9 DEF NotifyThrows
<1>10. ASSUME NEW w \in Workers, ChainRead(w)
       PROVE  ReadingGoesOn'
  BY <1>1, <1>10 DEF ChainRead
<1>11. CASE UNCHANGED vars
  BY <1>11 DEF vars
<1> QED
  BY <1>2, <1>3, <1>4, <1>5, <1>6, <1>7, <1>8, <1>9, <1>10, <1>11
     DEF Next, Start, Complete, Handle
-----------------------------------------------------------------------------
(* The vector never holds more elements than its storage, and every number *)
(* keeps its bound, however many threads start reads.                      *)
THEOREM BufferTypes == Spec => []TypeOK
<1>1. Init => TypeOK
  BY InitIInv DEF IInv
<1>2. TypeOK /\ [Next]_vars => TypeOK'
  BY TypeStep
<1> QED
  BY <1>1, <1>2, PTL DEF Spec

(* A chain that is said to be running has a read or a handler to carry it  *)
(* on, unless the callback threw: with several callers of BeginReadSome    *)
(* too, the flag is never left set with nothing behind it                  *)
(* (IoCircularBuffer.h:97-104, IoCircularBuffer.cpp:109-134).              *)
THEOREM ReadingIsCarriedOn == Spec => []ReadingGoesOn
<1>1. Init => ReadingGoesOn
  BY DEF Init, ReadingGoesOn
<1>2. ReadingGoesOn /\ TypeOK /\ [Next]_vars => ReadingGoesOn'
  BY ReadingStep
<1> QED
  BY <1>1, <1>2, BufferTypes, PTL DEF Spec

(* The types, the one link of the chain and the content of the storage     *)
(* hold together in every state, as long as starts do not overlap.         *)
THEOREM BufferInvariance ==
    Spec /\ []StartsDoNotOverlap => []IInv
<1>1. Init => IInv
  BY InitIInv
<1>2. IInv /\ StartsDoNotOverlap /\ [Next]_vars => IInv'
  BY TypeStep, ChainStep, StorageStep DEF IInv
<1> QED
  BY <1>1, <1>2, PTL DEF Spec

(* The overlap of two starts is the only way to two reads: as long as no   *)
(* two calls of BeginReadSome, from whatever threads, are between its test *)
(* and its set, there is one read or one handler at a time, and no failed  *)
(* read, ended callback or restart makes a second                          *)
(* (IoCircularBuffer.h:98-104, IoCircularBuffer.cpp:71-86, 109-134).       *)
THEOREM OneReadAtATime ==
    Spec /\ []StartsDoNotOverlap => []OneReadInProgress
<1>1. IInv => OneReadInProgress
  BY DEF IInv, Chain
<1> QED
  BY <1>1, BufferInvariance, PTL

(* While the application holds the buffer's context no read writes into    *)
(* it, and exactly the thread in the callback holds it                     *)
(* (IoCircularBuffer.cpp:19-36, 116-127).                                  *)
THEOREM ContextKeepsReadsOut ==
    Spec /\ []StartsDoNotOverlap => []ContextExcludesRead
<1>1. IInv => ContextExcludesRead
  BY DEF IInv, Chain
<1> QED
  BY <1>1, BufferInvariance, PTL

(* A read under way writes behind the buffered bytes, inside the storage   *)
(* the vector has: the reallocations and the moving down of erase never    *)
(* pull it away from under asio (IoCircularBuffer.cpp).                    *)
THEOREM ReadsStayInStorage ==
    Spec /\ []StartsDoNotOverlap => []ReadFitsSlot
<1>1. IInv => ReadFitsSlot
  BY DEF IInv
<1> QED
  BY <1>1, BufferInvariance, PTL

(* What was consumed, followed by what is buffered, is the peer's stream:  *)
(* no byte is lost, repeated or handed out unwritten, whatever the sizes   *)
(* of the reads and of what the application consumes.                      *)
THEOREM StreamIsKept ==
    Spec /\ []StartsDoNotOverlap => []BufferHoldsStream
<1>1. IInv => BufferHoldsStream
  BY DEF IInv, Contents, BufferHoldsStream
<1> QED
  BY <1>1, BufferInvariance, PTL
=============================================================================
