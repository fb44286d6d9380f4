------------------------ MODULE PeriodicTimersProofs ------------------------
(***************************************************************************)
(* Proofs about PeriodicTimers, for any timers, threads and bound on calls.*)
(***************************************************************************)
EXTENDS PeriodicTimers, TLAPS

(* Only chains that a call has started are anywhere.                       *)
Started == \A k \in Chains : Live(k) => k.call <= sets[k.timer]

IInv == TypeOK /\ Started /\ OneChainPerCall

(* An actor is idle, or in a step of some chain.                           *)
LEMMA ActorShape ==
    ASSUME TypeOK, NEW a \in Actors
    PROVE  /\ actor[a] = Idle \/ actor[a] \in Busy
           /\ actor[a] = Idle <=> actor[a].at = "idle"
           /\ actor[a] # Idle => actor[a].chain \in Chains
BY DEF TypeOK, Idle, Busy

(* An aborted wait is not one whose timer expired.                         *)
LEMMA OkNotAborted == \A j, k \in Chains : /\ Ok(j) # Aborted(k)
                                           /\ Ok(j) = Ok(k) => j = k
BY DEF Ok, Aborted

LEMMA ChainShape ==
    /\ \A k \in Chains : /\ k.timer \in Timers
                         /\ k.call \in 1 .. MaxSets
                         /\ Ok(k) \in Completion
                         /\ Aborted(k) \in Completion
    /\ \A t \in Timers, n \in 1 .. MaxSets : /\ Chain(t, n) \in Chains
                                             /\ Chain(t, n).timer = t
                                             /\ Chain(t, n).call = n
BY DEF Chains, Chain, Ok, Aborted, Completion

LEMMA CompletionShape ==
    \A c \in Completion : /\ c.chain \in Chains
                          /\ c.ec = "ok" => c = Ok(c.chain)
                          /\ c.ec = "aborted" => c = Aborted(c.chain)
BY DEF Completion, Ok, Aborted

(* Aborting ends waits and neither adds a chain nor completes one.         *)
LEMMA AbortEffect ==
    ASSUME TypeOK, NEW t \in Timers, Abort(t)
    PROVE  /\ waits' \subseteq waits
           /\ completions' \subseteq Completion
           /\ \A k \in Chains : Ok(k) \in completions' <=> Ok(k) \in completions
<1>1. PICK K \in SUBSET WaitsOf(t) :
          /\ waits' = waits \ K
          /\ completions' = completions \cup {Aborted(k) : k \in K}
  BY DEF Abort
<1>2. K \subseteq Chains
  BY DEF WaitsOf, TypeOK
<1> QED
  BY <1>1, <1>2, OkNotAborted, ChainShape DEF TypeOK
(* A search of the map and the entry into a timer keep their types.        *)
LEMMA SearchTypes ==
    ASSUME TypeOK, Search
    PROVE  emplacing' \subseteq Timers \cup Others /\ overlapped' \in BOOLEAN
<1>1. overlapped' \in BOOLEAN
  BY DEF Search
<1> QED
  BY <1>1 DEF Search, TypeOK

LEMMA EnterTypes ==
    ASSUME TypeOK, NEW a \in Actors, NEW t \in Timers, Enter(a, t)
    PROVE  raced' \subseteq Timers
BY DEF Enter, TypeOK

(* The types of a step that changes nothing else of the map or the timers. *)
LEMMA TypesKept ==
    ASSUME TypeOK,
           _periodicTimers' \subseteq Timers \cup Others,
           emplacing' \subseteq Timers \cup Others, overlapped' \in BOOLEAN,
           waits' \subseteq Chains, completions' \subseteq Completion,
           actor' \in [Actors -> {Idle} \cup Busy],
           raced' \subseteq Timers, sets' \in [Timers -> 0 .. MaxSets],
           asked' \in [Timers -> {"nothing", "set", "cancel"}],
           thrown' \subseteq Timers
    PROVE  TypeOK'
BY DEF TypeOK
-----------------------------------------------------------------------------
LEMMA InitIInv == Init => IInv
<1> SUFFICES ASSUME Init PROVE IInv
  OBVIOUS
<1> USE PeriodicTimersAssumption
<1>1. TypeOK
  <2>1. overlapped \in BOOLEAN
    BY DEF Init
  <2> QED
    BY <2>1 DEF Init, TypeOK
<1>2. \A a \in Actors, k \in Chains : ~Holds(a, k)
  BY DEF Init, Holds
<1> QED
  BY <1>1, <1>2 DEF Init, IInv, Started, OneChainPerCall, Live

(* What the invariant needs of a step that gives the chain k to the actor  *)
(* a, which was idle or had it before: nobody else has k, and of the other *)
(* chains none comes to be where it was not.                               *)
LEMMA HandOver ==
    ASSUME IInv, TypeOK', sets' \in [Timers -> 0 .. MaxSets],
           \A t \in Timers : sets[t] <= sets'[t],
           NEW a \in Actors, NEW k \in Chains,
           k.call <= sets'[k.timer],
           k \notin waits', Ok(k) \notin completions',
           \A b \in Actors \ {a} : ~Holds(b, k),
           actor'[a] # Idle, actor'[a].chain = k,
           \A b \in Actors \ {a} : actor'[b] = actor[b],
           \A j \in Chains \ {k} : /\ j \in waits' => j \in waits
                                   /\ Ok(j) \in completions' => Ok(j) \in completions
    PROVE  IInv'
<1> USE PeriodicTimersAssumption
<1>1. \A b \in Actors, j \in Chains : Holds(b, j)' =>
          (b = a /\ j = k) \/ (b # a /\ j # k /\ Holds(b, j))
  BY DEF Holds
<1>2. Started'
  <2> SUFFICES ASSUME NEW j \in Chains, Live(j)' PROVE j.call <= sets'[j.timer]
    BY DEF Started
  <2>1. CASE j = k
    BY <2>1
  <2>2. CASE j # k
    <3>1. Live(j)
      BY <1>1, <2>2 DEF Live
    <3>2. j.call <= sets[j.timer]
      BY <3>1 DEF IInv, Started
    <3>3. /\ j.call \in Nat /\ j.timer \in Timers
          /\ sets[j.timer] \in Nat /\ sets'[j.timer] \in Nat
          /\ sets[j.timer] <= sets'[j.timer]
      BY ChainShape DEF IInv, TypeOK
    <3> QED
      BY <3>2, <3>3
  <2> QED
    BY <2>1, <2>2
<1>3. OneChainPerCall'
  BY <1>1 DEF IInv, OneChainPerCall
<1> QED
  BY <1>2, <1>3 DEF IInv

(* A step after which no actor has a chain it had not before.              *)
LEMMA LetGo ==
    ASSUME IInv, TypeOK', sets' \in [Timers -> 0 .. MaxSets],
           \A t \in Timers : sets[t] <= sets'[t],
           \A b \in Actors : actor'[b] = Idle \/ actor'[b] = actor[b],
           \A j \in Chains : Live(j)' => Live(j),
           \A j \in Chains : j \in waits' => /\ Ok(j) \notin completions'
                                             /\ \A b \in Actors : ~Holds(b, j)',
           \A j \in Chains : Ok(j) \in completions' => \A b \in Actors : ~Holds(b, j)'
    PROVE  IInv'
<1> USE PeriodicTimersAssumption
<1>1. \A b \in Actors, j \in Chains : Holds(b, j)' => Holds(b, j)
  BY DEF Holds
<1>2. Started'
  <2> SUFFICES ASSUME NEW j \in Chains, Live(j)' PROVE j.call <= sets'[j.timer]
    BY DEF Started
  <2>1. j.call <= sets[j.timer]
    BY DEF IInv, Started
  <2>2. /\ j.call \in Nat /\ j.timer \in Timers
        /\ sets[j.timer] \in Nat /\ sets'[j.timer] \in Nat
        /\ sets[j.timer] <= sets'[j.timer]
    BY ChainShape DEF IInv, TypeOK
  <2> QED
    BY <2>1, <2>2
<1>3. OneChainPerCall'
  BY <1>1 DEF IInv, OneChainPerCall
<1> QED
  BY <1>2, <1>3 DEF IInv
-----------------------------------------------------------------------------
(* The application's steps.                                                *)
LEMMA ApplicationStep ==
    ASSUME IInv, NEW u \in Users, Application(u)
    PROVE  IInv'
<1> USE PeriodicTimersAssumption
<1>0. u \in Actors /\ TypeOK
  BY DEF Actors, IInv
<1>1. ASSUME NEW t \in Timers, SetPeriodicTimer(u, t)
      PROVE  IInv'
  <2> DEFINE n == sets[t] + 1
             k == Chain(t, n)
  <2>1. /\ n \in 1 .. MaxSets
        /\ sets' = [sets EXCEPT ![t] = n]
        /\ sets'[t] = n
        /\ sets' \in [Timers -> 0 .. MaxSets]
        /\ \A s \in Timers : sets[s] <= sets'[s]
    BY <1>0, <1>1 DEF SetPeriodicTimer, TypeOK
  <2>2. k \in Chains /\ k.timer = t /\ k.call = n
    BY <2>1, ChainShape
  <2>3. /\ Abort(t) /\ Search /\ Enter(u, t)
        /\ actor' = [actor EXCEPT ![u] = [at |-> "expires_set", chain |-> k]]
    BY <1>0, <1>1, <2>1, <2>2 DEF SetPeriodicTimer, ExpiresFromNow
  <2>4. /\ waits' \subseteq waits
        /\ completions' \subseteq Completion
        /\ \A j \in Chains : Ok(j) \in completions' <=> Ok(j) \in completions
    BY <1>0, <2>3, AbortEffect
  <2>5. [at |-> "expires_set", chain |-> k] \in Busy
    BY <2>2 DEF Busy
  <2>6. TypeOK'
    <3>1. /\ emplacing' \subseteq Timers \cup Others /\ overlapped' \in BOOLEAN
          /\ raced' \subseteq Timers
      BY <1>0, <2>3, SearchTypes, EnterTypes
    <3>2. /\ asked' \in [Timers -> {"nothing", "set", "cancel"}]
          /\ _periodicTimers' \subseteq Timers \cup Others /\ thrown' \subseteq Timers
      BY <1>0, <1>1 DEF SetPeriodicTimer, TypeOK
    <3>3. waits' \subseteq Chains /\ actor' \in [Actors -> {Idle} \cup Busy]
      BY <1>0, <2>3, <2>4, <2>5 DEF TypeOK
    <3> QED
      BY <1>0, <2>1, <2>4, <3>1, <3>2, <3>3, TypesKept
  <2>7. ~Live(k)
    BY <1>0, <2>1, <2>2 DEF IInv, Started, TypeOK
  <2>8. /\ actor'[u] = [at |-> "expires_set", chain |-> k]
        /\ \A b \in Actors \ {u} : actor'[b] = actor[b]
    BY <1>0, <2>3 DEF TypeOK
  <2>9. actor'[u] # Idle /\ actor'[u].chain = k
    BY <2>5, <2>8 DEF Idle
  <2>10. /\ k \notin waits' /\ Ok(k) \notin completions'
         /\ \A b \in Actors \ {u} : ~Holds(b, k)
    BY <2>2, <2>4, <2>7 DEF Live
  <2>11. k.call <= sets'[k.timer]
    BY <2>1, <2>2
  <2> HIDE DEF k, n
  <2> QED
    BY <1>0, <2>1, <2>2, <2>4, <2>6, <2>8, <2>9, <2>10, <2>11, HandOver
<1>2. ASSUME NEW t \in Timers, SetUnknownTimer(u, t)
      PROVE  IInv'
  <2>1. /\ sets' \in [Timers -> 0 .. MaxSets]
        /\ \A s \in Timers : sets[s] <= sets'[s]
    BY <1>0, <1>2 DEF SetUnknownTimer, TypeOK
  <2>2. TypeOK'
    BY <1>0, <1>2, <2>1, SearchTypes, TypesKept DEF SetUnknownTimer, TypeOK
  <2>3. /\ actor' = actor /\ waits' = waits /\ completions' = completions
        /\ \A b \in Actors, j \in Chains : Holds(b, j)' <=> Holds(b, j)
    BY <1>2 DEF SetUnknownTimer, Holds
  <2> QED
    BY <2>1, <2>2, <2>3, LetGo DEF IInv, OneChainPerCall, Live
<1>3. ASSUME NEW t \in Timers, CancelPeriodicTimer(u, t)
      PROVE  IInv'
  <2>1. /\ waits' \subseteq waits
        /\ completions' \subseteq Completion
        /\ \A j \in Chains : Ok(j) \in completions' <=> Ok(j) \in completions
    BY <1>0, <1>3, AbortEffect DEF CancelPeriodicTimer
  <2>2. /\ sets' = sets /\ sets' \in [Timers -> 0 .. MaxSets]
        /\ \A s \in Timers : sets[s] <= sets'[s]
    BY <1>0, <1>3 DEF CancelPeriodicTimer, TypeOK
  <2>3. TypeOK'
    <3>1. /\ emplacing' \subseteq Timers \cup Others /\ overlapped' \in BOOLEAN
          /\ raced' \subseteq Timers
      BY <1>0, <1>3, SearchTypes, EnterTypes DEF CancelPeriodicTimer
    <3>2. /\ asked' \in [Timers -> {"nothing", "set", "cancel"}]
          /\ _periodicTimers' \subseteq Timers \cup Others /\ thrown' \subseteq Timers
          /\ actor' \in [Actors -> {Idle} \cup Busy]
      BY <1>0, <1>3 DEF CancelPeriodicTimer, TypeOK
    <3>3. waits' \subseteq Chains
      BY <1>0, <2>1 DEF TypeOK
    <3> QED
      BY <1>0, <2>1, <2>2, <3>1, <3>2, <3>3, TypesKept
  <2>4. /\ actor' = actor
        /\ \A b \in Actors, j \in Chains : Holds(b, j)' <=> Holds(b, j)
    BY <1>3 DEF CancelPeriodicTimer, Holds
  <2> QED
    BY <2>1, <2>2, <2>3, <2>4, LetGo DEF IInv, OneChainPerCall, Live
<1>4. ASSUME NEW t \in Timers, CancelUnknownTimer(u, t)
      PROVE  IInv'
  <2>1. TypeOK'
    BY <1>0, <1>4, SearchTypes, TypesKept DEF CancelUnknownTimer, TypeOK
  <2> QED
    BY <1>4, <2>1 DEF CancelUnknownTimer, IInv, Started, OneChainPerCall, Live,
                      Holds
<1> QED
  BY <1>1, <1>2, <1>3, <1>4 DEF Application

(* The timer and the wait that ends SetPeriodicTimer.                      *)
LEMMA TimerStep ==
    ASSUME IInv,
           \/ \E t \in Timers \cup Others : \/ InitialisePeriodicTimer(t)
                                          \/ Emplaced(t)
           \/ \E t \in Timers : Expire(t)
           \/ \E a \in Actors : AsyncWait(a)
    PROVE  IInv'
<1> USE PeriodicTimersAssumption
<1>0. /\ TypeOK
      /\ sets \in [Timers -> 0 .. MaxSets]
      /\ \A s \in Timers : sets[s] <= sets[s]
  BY DEF IInv, TypeOK
<1>1. ASSUME NEW t \in Timers \cup Others,
             InitialisePeriodicTimer(t) \/ Emplaced(t)
      PROVE  IInv'
  <2>1. overlapped' \in BOOLEAN
    BY <1>0, <1>1 DEF InitialisePeriodicTimer, Emplaced, TypeOK
  <2>2. TypeOK'
    BY <1>0, <1>1, <2>1, TypesKept DEF InitialisePeriodicTimer, Emplaced, TypeOK
  <2> QED
    BY <1>1, <2>2 DEF InitialisePeriodicTimer, Emplaced, IInv, Started,
                      OneChainPerCall, Live, Holds
<1>2. ASSUME NEW t \in Timers, Expire(t)
      PROVE  IInv'
  <2>1. /\ waits' = waits \ WaitsOf(t)
        /\ completions' = completions \cup {Ok(k) : k \in WaitsOf(t)}
        /\ sets' = sets
        /\ actor' = actor
        /\ WaitsOf(t) \subseteq Chains
    BY <1>0, <1>2 DEF Expire, WaitsOf, TypeOK
  <2>2. \A j \in Chains : Ok(j) \in completions' =>
            Ok(j) \in completions \/ (j \in waits /\ j \notin waits')
    BY <2>1, OkNotAborted DEF WaitsOf
  <2>3. TypeOK'
    BY <1>0, <1>2, <2>1, ChainShape DEF Expire, TypeOK
  <2>4. \A b \in Actors, j \in Chains : Holds(b, j)' <=> Holds(b, j)
    BY <2>1 DEF Holds
  <2>5. \A j \in Chains : Live(j)' => Live(j)
    BY <2>1, <2>2, <2>4 DEF Live
  <2>6. \A j \in Chains : j \in waits' => Ok(j) \notin completions'
    BY <2>1, <2>2 DEF IInv, OneChainPerCall
  <2> QED
    BY <1>0, <2>1, <2>2, <2>3, <2>4, <2>5, <2>6, LetGo DEF IInv, OneChainPerCall
<1>3. ASSUME NEW a \in Actors, AsyncWait(a)
      PROVE  IInv'
  <2>0. PICK k \in Chains : k = actor[a].chain
    BY <1>0, <1>3, ActorShape DEF AsyncWait, Idle
  <2>1. /\ Holds(a, k) /\ k \in Chains
        /\ waits' = waits \cup {k}
        /\ actor' = [actor EXCEPT ![a] = Idle]
        /\ completions' = completions /\ sets' = sets
    BY <1>0, <1>3, <2>0 DEF AsyncWait, Holds, Idle
  <2>2. TypeOK'
    BY <1>0, <1>3, <2>1 DEF AsyncWait, TypeOK
  <2>3. \A b \in Actors : actor'[b] = IF b = a THEN Idle ELSE actor[b]
    BY <1>0, <2>1 DEF TypeOK
  <2>4. \A b \in Actors, j \in Chains : Holds(b, j)' => b # a /\ Holds(b, j)
    BY <2>3 DEF Holds
  <2>5. \A j \in Chains : Live(j)' => Live(j)
    BY <2>1, <2>4 DEF Live
  <2>6. \A b \in Actors : ~Holds(b, k)'
    <3>1. \A b \in Actors : Holds(b, k) => a = b
      BY <2>1 DEF IInv, OneChainPerCall
    <3> QED
      BY <2>1, <2>4, <3>1
  <2>7. \A j \in Chains : j \in waits' => /\ Ok(j) \notin completions'
                                         /\ \A b \in Actors : ~Holds(b, j)'
    BY <2>1, <2>4, <2>6 DEF IInv, OneChainPerCall
  <2>8. \A j \in Chains : Ok(j) \in completions' => \A b \in Actors : ~Holds(b, j)'
    BY <2>1, <2>4 DEF IInv, OneChainPerCall
  <2> QED
    BY <1>0, <2>1, <2>2, <2>3, <2>5, <2>7, <2>8, LetGo
<1> QED
  BY <1>1, <1>2, <1>3
-----------------------------------------------------------------------------
(* The completion handler's steps.                                         *)
LEMMA HandlerStep ==
    ASSUME IInv, NEW p \in Threads,
           \/ \E c \in completions : Handler(p, c)
           \/ ChainTimeout(p)
           \/ ChainLost(p)
           \/ HandlerThrows(p)
    PROVE  IInv'
<1> USE PeriodicTimersAssumption
<1>0. /\ p \in Actors /\ TypeOK
      /\ sets \in [Timers -> 0 .. MaxSets]
      /\ \A s \in Timers : sets[s] <= sets[s]
  BY DEF Actors, IInv, TypeOK
<1>1. ASSUME NEW c \in completions, Cancelled(p, c)
      PROVE  IInv'
  <2>1. /\ actor' = actor /\ waits' = waits /\ sets' = sets
        /\ completions' = completions \ {c}
        /\ \A b \in Actors, j \in Chains : Holds(b, j)' <=> Holds(b, j)
    BY <1>1 DEF Cancelled, Holds
  <2>2. TypeOK'
    BY <1>0, <1>1 DEF Cancelled, TypeOK
  <2> QED
    BY <1>0, <2>1, <2>2, LetGo DEF IInv, OneChainPerCall, Live
<1>2. ASSUME NEW c \in completions, InvokeHandler(p, c)
      PROVE  IInv'
  <2> DEFINE k == c.chain
  <2>1. k \in Chains /\ c = Ok(k) /\ c \in Completion
    BY <1>0, <1>2, CompletionShape DEF InvokeHandler, TypeOK
  <2>2. /\ actor[p] = Idle
        /\ actor' = [actor EXCEPT ![p] = [at |-> "handler", chain |-> k]]
        /\ waits' = waits /\ sets' = sets
        /\ completions' = completions \ {c}
    BY <1>2 DEF InvokeHandler
  <2>3. [at |-> "handler", chain |-> k] \in Busy
    BY <2>1 DEF Busy
  <2>4. TypeOK'
    BY <1>0, <1>2, <2>2, <2>3 DEF InvokeHandler, TypeOK
  <2>5. /\ actor'[p] = [at |-> "handler", chain |-> k]
        /\ \A b \in Actors \ {p} : actor'[b] = actor[b]
    BY <1>0, <2>2 DEF TypeOK
  <2>6. actor'[p] # Idle /\ actor'[p].chain = k
    BY <2>3, <2>5 DEF Idle
  <2>7. /\ k \notin waits /\ \A b \in Actors : ~Holds(b, k)
        /\ Live(k)
    BY <2>1 DEF IInv, OneChainPerCall, Live
  <2>8. k.call <= sets[k.timer]
    BY <2>1, <2>7 DEF IInv, Started
  <2> HIDE DEF k
  <2> QED
    BY <1>0, <2>1, <2>2, <2>4, <2>5, <2>6, <2>7, <2>8, HandOver
<1>3. CASE ChainTimeout(p)
  <2> DEFINE k == actor[p].chain
  <2>1. Holds(p, k) /\ k \in Chains /\ actor[p] # Idle
    BY <1>0, <1>3, ActorShape DEF ChainTimeout, Holds, Idle
  <2>2. /\ Abort(k.timer) /\ k.timer \in Timers
        /\ Search /\ Enter(p, k.timer)
        /\ actor' = [actor EXCEPT ![p] = [at |-> "expires_set", chain |-> k]]
        /\ sets' = sets
    BY <1>0, <1>3, <2>1, ChainShape DEF ChainTimeout, ExpiresFromNow
  <2>3. /\ waits' \subseteq waits
        /\ completions' \subseteq Completion
        /\ \A j \in Chains : Ok(j) \in completions' <=> Ok(j) \in completions
    BY <1>0, <2>2, AbortEffect
  <2>4. [at |-> "expires_set", chain |-> k] \in Busy
    BY <2>1 DEF Busy
  <2>5. TypeOK'
    <3>1. /\ emplacing' \subseteq Timers \cup Others /\ overlapped' \in BOOLEAN
          /\ raced' \subseteq Timers
      BY <1>0, <2>2, SearchTypes, EnterTypes
    <3>2. /\ asked' \in [Timers -> {"nothing", "set", "cancel"}]
          /\ _periodicTimers' \subseteq Timers \cup Others /\ thrown' \subseteq Timers
      BY <1>0, <1>3 DEF ChainTimeout, TypeOK
    <3>3. waits' \subseteq Chains /\ actor' \in [Actors -> {Idle} \cup Busy]
      BY <1>0, <2>2, <2>3, <2>4 DEF TypeOK
    <3> QED
      BY <1>0, <2>2, <2>3, <3>1, <3>2, <3>3, TypesKept
  <2>6. /\ actor'[p] = [at |-> "expires_set", chain |-> k]
        /\ \A b \in Actors \ {p} : actor'[b] = actor[b]
    BY <1>0, <2>2 DEF TypeOK
  <2>7. actor'[p] # Idle /\ actor'[p].chain = k
    BY <2>4, <2>6 DEF Idle
  <2>8. /\ k \notin waits /\ Ok(k) \notin completions
        /\ \A b \in Actors \ {p} : ~Holds(b, k)
    <3>1. \A b \in Actors : Holds(b, k) => p = b
      BY <1>0, <2>1 DEF IInv, OneChainPerCall
    <3>2. k \notin waits /\ Ok(k) \notin completions
      BY <1>0, <2>1 DEF IInv, OneChainPerCall
    <3> QED
      BY <3>1, <3>2
  <2>9. k.call <= sets[k.timer]
    BY <1>0, <2>1 DEF IInv, Started, Live
  <2> HIDE DEF k
  <2> QED
    BY <1>0, <2>1, <2>2, <2>3, <2>5, <2>6, <2>7, <2>8, <2>9, HandOver
<1>4. CASE HandlerThrows(p)
  <2>1. /\ actor' = [actor EXCEPT ![p] = Idle]
        /\ waits' = waits /\ sets' = sets /\ completions' = completions
    BY <1>4 DEF HandlerThrows
  <2>2. actor[p].chain.timer \in Timers
    BY <1>0, <1>4, ActorShape, ChainShape DEF HandlerThrows, Idle
  <2>3. TypeOK'
    BY <1>0, <1>4, <2>2 DEF HandlerThrows, TypeOK
  <2>4. \A b \in Actors : actor'[b] = Idle \/ actor'[b] = actor[b]
    BY <1>0, <2>1 DEF TypeOK
  <2>5. \A b \in Actors, j \in Chains : Holds(b, j)' => Holds(b, j)
    BY <2>4 DEF Holds
  <2> QED
    BY <1>0, <2>1, <2>3, <2>4, <2>5, LetGo DEF IInv, OneChainPerCall, Live
<1>5. CASE ChainLost(p)
  <2>1. /\ actor' = [actor EXCEPT ![p] = Idle]
        /\ waits' = waits /\ sets' = sets /\ completions' = completions
    BY <1>5 DEF ChainLost
  <2>2. TypeOK'
    BY <1>0, <1>5, SearchTypes, TypesKept DEF ChainLost, TypeOK
  <2>3. \A b \in Actors : actor'[b] = Idle \/ actor'[b] = actor[b]
    BY <1>0, <2>1 DEF TypeOK
  <2>4. \A b \in Actors, j \in Chains : Holds(b, j)' => Holds(b, j)
    BY <2>3 DEF Holds
  <2> QED
    BY <1>0, <2>1, <2>2, <2>3, <2>4, LetGo DEF IInv, OneChainPerCall, Live
<1> QED
  BY <1>1, <1>2, <1>3, <1>4, <1>5 DEF Handler

LEMMA NextIInv == IInv /\ [Next]_vars => IInv'
<1> SUFFICES ASSUME IInv, [Next]_vars PROVE IInv'
  OBVIOUS
<1>1. CASE UNCHANGED vars
  BY <1>1 DEF vars, IInv, TypeOK, Started, OneChainPerCall, Live, Holds
<1> QED
  BY <1>1, ApplicationStep, TimerStep, HandlerStep DEF Next

(* The types, and the place of every chain, in every state.                *)
THEOREM TimersInvariance == Spec => []IInv
BY InitIInv, NextIInv, PTL DEF Spec

(* One call of SetPeriodicTimer makes one chain of timeouts, whichever     *)
(* threads set, cancel and run the handler (IoServicesImpl.cpp:327-364).   *)
THEOREM OneChain == Spec => []OneChainPerCall
<1>1. IInv => OneChainPerCall
  BY DEF IInv
<1> QED
  BY <1>1, TimersInvariance, PTL

(* What a step may do with a chain that has begun and is nowhere.          *)
LEMMA NoReturn ==
    ASSUME IInv, Next, NEW k \in Chains, k.call <= sets[k.timer], ~Live(k)
    PROVE  ~Live(k)'
<1> USE PeriodicTimersAssumption
<1>0. /\ TypeOK
      /\ k \notin waits
      /\ Ok(k) \notin completions
      /\ \A a \in Actors : ~Holds(a, k)
  BY DEF IInv, Live
<1>1. ASSUME NEW t \in Timers \cup Others,
             InitialisePeriodicTimer(t) \/ Emplaced(t)
      PROVE  ~Live(k)'
  BY <1>0, <1>1 DEF InitialisePeriodicTimer, Emplaced, Live, Holds
<1>2. ASSUME NEW t \in Timers, Expire(t)
      PROVE  ~Live(k)'
  <2>1. WaitsOf(t) \subseteq Chains /\ k \notin WaitsOf(t)
    BY <1>0 DEF WaitsOf, TypeOK
  <2>2. Ok(k) \notin completions'
    BY <1>0, <1>2, <2>1, OkNotAborted DEF Expire
  <2> QED
    BY <1>0, <1>2, <2>2 DEF Expire, Live, Holds
<1>3. ASSUME NEW u \in Users, NEW t \in Timers, SetPeriodicTimer(u, t)
      PROVE  ~Live(k)'
  <2> DEFINE j == Chain(t, sets[t] + 1)
  <2>1. /\ sets[t] + 1 \in 1 .. MaxSets
        /\ sets'[t] = sets[t] + 1
        /\ u \in Actors
    BY <1>0, <1>3 DEF SetPeriodicTimer, TypeOK, Actors
  <2>2. j \in Chains /\ j # k
    BY <1>0, <2>1, ChainShape DEF TypeOK
  <2>3. /\ Abort(t)
        /\ actor' = [actor EXCEPT ![u] = [at |-> "expires_set", chain |-> j]]
    BY <1>3, <2>1, <2>2, ChainShape DEF SetPeriodicTimer, ExpiresFromNow
  <2>4. k \notin waits' /\ Ok(k) \notin completions'
    BY <1>0, <2>3, AbortEffect
  <2>5. \A a \in Actors : ~Holds(a, k)'
    BY <1>0, <2>1, <2>2, <2>3 DEF Holds, TypeOK
  <2> QED
    BY <2>4, <2>5 DEF Live
<1>4. ASSUME NEW u \in Users, NEW t \in Timers,
             SetUnknownTimer(u, t) \/ CancelUnknownTimer(u, t)
      PROVE  ~Live(k)'
  BY <1>0, <1>4 DEF SetUnknownTimer, CancelUnknownTimer, Live, Holds
<1>5. ASSUME NEW u \in Users, NEW t \in Timers, CancelPeriodicTimer(u, t)
      PROVE  ~Live(k)'
  <2>1. k \notin waits' /\ Ok(k) \notin completions'
    BY <1>0, <1>5, AbortEffect DEF CancelPeriodicTimer
  <2> QED
    BY <1>0, <1>5, <2>1 DEF CancelPeriodicTimer, Live, Holds
<1>6. ASSUME NEW a \in Actors, AsyncWait(a)
      PROVE  ~Live(k)'
  <2>1. actor[a].chain # k
    BY <1>0, <1>6 DEF AsyncWait, Holds, Idle
  <2>2. \A b \in Actors : ~Holds(b, k)'
    BY <1>0, <1>6 DEF AsyncWait, Holds, TypeOK
  <2> QED
    BY <1>0, <1>6, <2>1, <2>2 DEF AsyncWait, Live
<1>7. ASSUME NEW p \in Threads, NEW c \in completions, Cancelled(p, c)
      PROVE  ~Live(k)'
  BY <1>0, <1>7 DEF Cancelled, Live, Holds
<1>8. ASSUME NEW p \in Threads, NEW c \in completions, InvokeHandler(p, c)
      PROVE  ~Live(k)'
  <2>1. c.chain # k
    BY <1>0, <1>8, CompletionShape DEF InvokeHandler, TypeOK
  <2>2. \A b \in Actors : ~Holds(b, k)'
    BY <1>0, <1>8, <2>1 DEF InvokeHandler, Holds, TypeOK
  <2> QED
    BY <1>0, <1>8, <2>2 DEF InvokeHandler, Live
<1>9. ASSUME NEW p \in Threads, ChainTimeout(p)
      PROVE  ~Live(k)'
  <2>1. p \in Actors /\ actor[p].chain # k /\ actor[p].chain \in Chains
    BY <1>0, <1>9, ActorShape DEF ChainTimeout, Holds, Idle, Actors
  <2>2. /\ Abort(actor[p].chain.timer)
        /\ actor[p].chain.timer \in Timers
        /\ actor' = [actor EXCEPT ![p] =
                         [at |-> "expires_set", chain |-> actor[p].chain]]
    BY <1>9, <2>1, ChainShape DEF ChainTimeout, ExpiresFromNow
  <2>3. k \notin waits' /\ Ok(k) \notin completions'
    BY <1>0, <2>2, AbortEffect
  <2>4. \A b \in Actors : ~Holds(b, k)'
    BY <1>0, <2>1, <2>2 DEF Holds, TypeOK
  <2> QED
    BY <2>3, <2>4 DEF Live
<1>10. ASSUME NEW p \in Threads, HandlerThrows(p) \/ ChainLost(p)
       PROVE  ~Live(k)'
  <2>1. \A b \in Actors : ~Holds(b, k)'
    BY <1>0, <1>10 DEF HandlerThrows, ChainLost, Holds, TypeOK
  <2> QED
    BY <1>0, <1>10, <2>1 DEF HandlerThrows, ChainLost, Live
<1> QED
  BY <1>1, <1>2, <1>3, <1>4, <1>5, <1>6, <1>7, <1>8, <1>9, <1>10
     DEF Next, Application, Handler

(* A chain that has ended never calls the application again: what cancels  *)
(* or throws ends it for good, and no later call revives an earlier one    *)
(* (IoServicesImpl.cpp:338-349).                                           *)
THEOREM ChainsEndForGood == Spec => EndedChainsStayEnded
<1> DEFINE NoneReturns == \A k \in Chains :
                              k.call <= sets[k.timer] /\ ~Live(k) => ~Live(k)'
<1>1. IInv /\ [Next]_vars => [NoneReturns]_vars
  BY NoReturn
<1>2. Spec => [][NoneReturns]_vars
  BY <1>1, TimersInvariance, PTL DEF Spec
<1> QED
  BY <1>2 DEF EndedChainsStayEnded
-----------------------------------------------------------------------------
(* Aborting the waits of one timer spares the chains of the others.        *)
LEMMA AbortSpares ==
    ASSUME NEW s \in Timers, Abort(s)
    PROVE  \A k \in Chains : /\ k.timer # s /\ k \in waits => k \in waits'
                             /\ Ok(k) \in completions => Ok(k) \in completions'
BY DEF Abort, WaitsOf

(* A step that gives actor a a chain of timer s, or aborts what waits for  *)
(* it, leaves the chains of the other timers where they are.               *)
LEMMA OthersLive ==
    ASSUME TypeOK, NEW s \in Timers, Abort(s), NEW a \in Actors,
           actor[a] = Idle \/ actor[a].chain.timer = s,
           \A b \in Actors \ {a} : actor'[b] = actor[b],
           NEW k \in Chains, k.timer # s, Live(k)
    PROVE  Live(k)'
<1>1. k \in waits => k \in waits'
  BY AbortSpares
<1>2. Ok(k) \in completions => Ok(k) \in completions'
  BY AbortSpares
<1>3. \A b \in Actors : Holds(b, k) => Holds(b, k)'
  BY DEF Holds
<1> QED
  BY <1>1, <1>2, <1>3 DEF Live

(* A chain is of a timer that was found, and timers stay in the map.       *)
Known == \A k \in Chains : Live(k) => k.timer \in _periodicTimers

LEMMA KnownStep ==
    ASSUME IInv, Known, [Next]_vars
    PROVE  Known'
<1> USE PeriodicTimersAssumption
<1>0. TypeOK /\ Users \subseteq Actors
  BY DEF IInv, Actors
<1>1. CASE UNCHANGED vars
  BY <1>1 DEF vars, Known, Live, Holds
<1> SUFFICES ASSUME Next, NEW k \in Chains, Live(k)'
             PROVE  k.timer \in _periodicTimers'
  BY <1>1 DEF Known
<1>2. _periodicTimers \subseteq _periodicTimers'
  BY DEF Next, InitialisePeriodicTimer, Emplaced, Expire, Application,
         SetPeriodicTimer, SetUnknownTimer, CancelPeriodicTimer,
         CancelUnknownTimer, AsyncWait, Handler, Cancelled, InvokeHandler,
         ChainTimeout, ChainLost, HandlerThrows
<1>3. CASE Live(k)
  BY <1>2, <1>3 DEF Known
<1>4. CASE ~Live(k)
  <2>1. ~(k.call <= sets[k.timer])
    BY <1>4, NoReturn
  <2>2. k.call <= sets'[k.timer]
    BY NextIInv DEF IInv, Started
  <2>3. sets' # sets
    BY <2>1, <2>2
  <2>4. PICK u \in Users, t \in Timers :
            SetPeriodicTimer(u, t) \/ SetUnknownTimer(u, t)
    BY <2>3 DEF Next, InitialisePeriodicTimer, Emplaced, Expire, Application,
                CancelPeriodicTimer, CancelUnknownTimer, AsyncWait, Handler,
                Cancelled, InvokeHandler, ChainTimeout, ChainLost,
                HandlerThrows
  <2>5. ~SetUnknownTimer(u, t)
    BY <1>4 DEF SetUnknownTimer, Live, Holds
  <2>6. t \in _periodicTimers /\ sets' = [sets EXCEPT ![t] = @ + 1]
    BY <2>4, <2>5 DEF SetPeriodicTimer
  <2>7. k.timer = t
    BY <1>0, <2>1, <2>2, <2>6, ChainShape DEF TypeOK
  <2> QED
    BY <1>2, <2>6, <2>7
<1> QED
  BY <1>3, <1>4

LEMMA ChainIsLeft ==
    ASSUME IInv, Known, SetTimersHaveAChain, [Next]_vars
    PROVE  SetTimersHaveAChain'
<1> USE PeriodicTimersAssumption
<1>0. TypeOK /\ Users \subseteq Actors /\ Threads \subseteq Actors
  BY DEF IInv, Actors
<1> SUFFICES ASSUME NEW t \in Timers, asked'[t] = "set", t \notin thrown',
                    ~overlapped'
             PROVE  \E k \in Chains : k.timer = t /\ Live(k)'
  BY DEF SetTimersHaveAChain
<1>a. Search => ~overlapped /\ emplacing = {}
  BY DEF Search
<1> DEFINE LeftFor == \E k \in Chains : k.timer = t /\ Live(k)'
<1>1. ASSUME NEW s \in Timers \cup Others,
             InitialisePeriodicTimer(s) \/ Emplaced(s)
      PROVE  LeftFor
  <2>1. ~overlapped
    <3>1. CASE InitialisePeriodicTimer(s)
      BY <3>1, Zenon DEF InitialisePeriodicTimer
    <3>2. CASE Emplaced(s)
      BY <3>2 DEF Emplaced
    <3> QED
      BY <1>1, <3>1, <3>2
  <2>2. UNCHANGED <<waits, completions, actor, asked, thrown>>
    BY <1>1 DEF InitialisePeriodicTimer, Emplaced
  <2> QED
    BY <2>1, <2>2 DEF SetTimersHaveAChain, Live, Holds
<1>2. ASSUME NEW s \in Timers, Expire(s)
      PROVE  LeftFor
  <2>1. PICK k \in Chains : k.timer = t /\ Live(k)
    BY <1>2 DEF Expire, SetTimersHaveAChain
  <2>2. Live(k)'
    BY <1>2, <2>1 DEF Expire, WaitsOf, Live, Holds
  <2> QED
    BY <2>1, <2>2
<1>3. ASSUME NEW u \in Users, NEW s \in Timers, SetPeriodicTimer(u, s)
      PROVE  LeftFor
  <2> DEFINE j == Chain(s, sets[s] + 1)
  <2>1. sets[s] + 1 \in 1 .. MaxSets /\ sets'[s] = sets[s] + 1
    BY <1>0, <1>3 DEF SetPeriodicTimer, TypeOK
  <2>2. j \in Chains /\ j.timer = s
    BY <2>1, ChainShape
  <2>3. /\ Abort(s) /\ actor[u] = Idle /\ ~overlapped
        /\ actor' = [actor EXCEPT ![u] = [at |-> "expires_set", chain |-> j]]
    BY <1>3, <1>a, <2>1, <2>2 DEF SetPeriodicTimer, ExpiresFromNow
  <2>4. CASE t = s
    <3>1. actor'[u] = [at |-> "expires_set", chain |-> j]
      BY <1>0, <2>3 DEF TypeOK
    <3>2. actor'[u] # Idle /\ actor'[u].chain = j
      BY <3>1 DEF Idle
    <3> HIDE DEF j
    <3> QED
      BY <1>0, <2>2, <2>4, <3>2 DEF Live, Holds
  <2>5. CASE t # s
    <3>1. PICK k \in Chains : k.timer = t /\ Live(k)
      BY <1>0, <1>3, <2>3, <2>5 DEF SetPeriodicTimer, TypeOK, SetTimersHaveAChain
    <3>2. \A b \in Actors \ {u} : actor'[b] = actor[b]
      BY <1>0, <2>3 DEF TypeOK
    <3> HIDE DEF j
    <3> QED
      BY <1>0, <2>3, <2>5, <3>1, <3>2, OthersLive
  <2> QED
    BY <2>4, <2>5
<1>4. ASSUME NEW u \in Users, NEW s \in Timers,
             SetUnknownTimer(u, s) \/ CancelUnknownTimer(u, s)
      PROVE  LeftFor
  <2>1. /\ ~overlapped
        /\ UNCHANGED <<waits, completions, actor, asked, thrown>>
    BY <1>4, <1>a DEF SetUnknownTimer, CancelUnknownTimer
  <2> QED
    BY <2>1 DEF SetTimersHaveAChain, Live, Holds
<1>5. ASSUME NEW u \in Users, NEW s \in Timers, CancelPeriodicTimer(u, s)
      PROVE  LeftFor
  <2>1. s # t /\ asked[t] = "set" /\ t \notin thrown /\ ~overlapped
    BY <1>0, <1>5, <1>a DEF CancelPeriodicTimer, TypeOK
  <2>2. PICK k \in Chains : k.timer = t /\ Live(k)
    BY <2>1 DEF SetTimersHaveAChain
  <2>3. Abort(s) /\ actor[u] = Idle /\ actor' = actor
    BY <1>5 DEF CancelPeriodicTimer
  <2> QED
    BY <1>0, <2>1, <2>2, <2>3, OthersLive
<1>6. ASSUME NEW a \in Actors, AsyncWait(a)
      PROVE  LeftFor
  <2>1. PICK k \in Chains : k.timer = t /\ Live(k)
    BY <1>6 DEF AsyncWait, SetTimersHaveAChain
  <2>2. CASE Holds(a, k)
    BY <1>6, <2>1, <2>2 DEF AsyncWait, Live, Holds
  <2>3. CASE ~Holds(a, k)
    <3>1. \A b \in Actors : Holds(b, k) => Holds(b, k)'
      BY <1>0, <1>6, <2>3 DEF AsyncWait, Holds, TypeOK
    <3> QED
      BY <1>6, <2>1, <3>1 DEF AsyncWait, Live
  <2> QED
    BY <2>2, <2>3
<1>7. ASSUME NEW p \in Threads, NEW c \in completions, Cancelled(p, c)
      PROVE  LeftFor
  <2>1. PICK k \in Chains : k.timer = t /\ Live(k)
    BY <1>7 DEF Cancelled, SetTimersHaveAChain
  <2>2. Ok(k) # c
    BY <1>7 DEF Cancelled, Ok
  <2> QED
    BY <1>7, <2>1, <2>2 DEF Cancelled, Live, Holds
<1>8. ASSUME NEW p \in Threads, NEW c \in completions, InvokeHandler(p, c)
      PROVE  LeftFor
  <2>1. PICK k \in Chains : k.timer = t /\ Live(k)
    BY <1>8 DEF InvokeHandler, SetTimersHaveAChain
  <2>2. actor'[p] = [at |-> "handler", chain |-> c.chain]
    BY <1>0, <1>8 DEF InvokeHandler, TypeOK
  <2>3. CASE Ok(k) = c
    <3>1. c.chain = k
      BY <2>3 DEF Ok
    <3>2. Holds(p, k)'
      BY <2>2, <3>1 DEF Holds, Idle
    <3> QED
      BY <1>0, <2>1, <3>2 DEF Live
  <2>4. CASE Ok(k) # c
    <3>1. \A b \in Actors : Holds(b, k) => Holds(b, k)'
      BY <1>0, <1>8 DEF InvokeHandler, Holds, TypeOK
    <3> QED
      BY <1>8, <2>1, <2>4, <3>1 DEF InvokeHandler, Live
  <2> QED
    BY <2>3, <2>4
<1>9. ASSUME NEW p \in Threads, ChainTimeout(p)
      PROVE  LeftFor
  <2> DEFINE j == actor[p].chain
  <2>1. j \in Chains /\ j.timer \in Timers
    BY <1>0, <1>9, ActorShape, ChainShape DEF ChainTimeout, Idle
  <2>2. /\ Abort(j.timer) /\ ~overlapped
        /\ actor' = [actor EXCEPT ![p] = [at |-> "expires_set", chain |-> j]]
    BY <1>9, <1>a DEF ChainTimeout, ExpiresFromNow
  <2>3. CASE t = j.timer
    <3>1. actor'[p] = [at |-> "expires_set", chain |-> j]
      BY <1>0, <2>2 DEF TypeOK
    <3>2. actor'[p] # Idle /\ actor'[p].chain = j
      BY <3>1 DEF Idle
    <3> HIDE DEF j
    <3> QED
      BY <1>0, <2>1, <2>3, <3>2 DEF Live, Holds
  <2>4. CASE t # j.timer
    <3>1. PICK k \in Chains : k.timer = t /\ Live(k)
      BY <1>9, <2>2 DEF ChainTimeout, SetTimersHaveAChain
    <3>2. \A b \in Actors \ {p} : actor'[b] = actor[b]
      BY <1>0, <2>2 DEF TypeOK
    <3> QED
      BY <1>0, <2>1, <2>2, <2>4, <3>1, <3>2, OthersLive
  <2> QED
    BY <2>3, <2>4
<1>10. ASSUME NEW p \in Threads, HandlerThrows(p)
       PROVE  LeftFor
  <2>1. PICK k \in Chains : k.timer = t /\ Live(k)
    BY <1>10 DEF HandlerThrows, SetTimersHaveAChain
  <2>2. ~Holds(p, k)
    BY <1>10, <2>1 DEF HandlerThrows, Holds
  <2>3. \A b \in Actors : Holds(b, k) => Holds(b, k)'
    BY <1>0, <1>10, <2>2 DEF HandlerThrows, Holds, TypeOK
  <2> QED
    BY <1>10, <2>1, <2>3 DEF HandlerThrows, Live
<1>11. CASE UNCHANGED vars
  BY <1>11 DEF vars, SetTimersHaveAChain, Live, Holds
<1>12. ASSUME NEW p \in Threads, ChainLost(p)
       PROVE  LeftFor
  <2> DEFINE j == actor[p].chain
  <2>1. j \in Chains /\ Holds(p, j)
    BY <1>0, <1>12, ActorShape DEF ChainLost, Holds, Idle
  <2>2. j.timer \in _periodicTimers
    BY <1>0, <2>1 DEF Known, Live
  <2>3. ~NotFound(j.timer)
    BY <1>12, <1>a, <2>2 DEF ChainLost, NotFound
  <2> QED
    BY <1>12, <2>3 DEF ChainLost
<1> QED
  BY <1>1, <1>2, <1>3, <1>4, <1>5, <1>6, <1>7, <1>8, <1>9, <1>10, <1>11, <1>12
     DEF Next, Application, Handler

(* A timer that was set last always has a wait, a completion or a thread   *)
(* that will call its handler, unless a handler threw: calls and handlers  *)
(* that abort one another's waits, with the timer object itself raced on,  *)
(* never abort the last (IoServicesImpl.cpp:333-364).  That is so until a  *)
(* timer is initialised while another thread searches the map (:30-36).    *)
THEOREM SetTimersTick == Spec => []SetTimersHaveAChain
<1>1. Init => SetTimersHaveAChain
  BY DEF Init, SetTimersHaveAChain
<1>2. IInv /\ Known /\ SetTimersHaveAChain /\ [Next]_vars => SetTimersHaveAChain'
  BY ChainIsLeft
<1>3. Init => Known
  BY DEF Init, Known, Live, Holds
<1>4. IInv /\ Known /\ [Next]_vars => Known'
  BY KnownStep
<1> QED
  BY <1>1, <1>2, <1>3, <1>4, TimersInvariance, PTL DEF Spec
=============================================================================
