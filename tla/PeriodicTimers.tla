--------------------------- MODULE PeriodicTimers ---------------------------
(***************************************************************************)
(* The periodic timers of IoServicesImpl: one boost deadline timer per id, *)
(* made periodic by a completion handler that sets the timer again.  Set   *)
(* and cancel are called by the application on any thread, the handler     *)
(* runs on the threads of the io_service.                                  *)
(*                                                                         *)
(* A call of SetPeriodicTimer starts a chain: the wait for the expiry, its *)
(* completion, the application's handler, and the wait again.  A chain is  *)
(* named by its timer and by the number of the call.  There is no clock:   *)
(* an expiry may happen at any time, and must happen some time.            *)
(*                                                                         *)
(* Nothing locks the map of timers.  To search it while another thread     *)
(* puts a timer into it is undefined: the search may miss what is there,   *)
(* then and later.  It may end the program as well, which takes a          *)
(* behaviour no further and is not written down.                           *)
(***************************************************************************)
EXTENDS Naturals, FiniteSets

CONSTANTS Timers,   \* timer ids
          Others,   \* bound: ids that are initialised and never set
          Users,    \* application threads
          Threads,  \* threads that run the io_service
          MaxSets   \* bound: calls of SetPeriodicTimer per timer

ASSUME PeriodicTimersAssumption ==
    /\ Users \cap Threads = {}
    /\ MaxSets \in Nat

VARIABLES
    _periodicTimers, \* ids that have a deadline timer
    emplacing,       \* ids whose deadline timer is being put into the map
    overlapped,      \* two threads were in the map at once: undefined
    waits,           \* chains whose async_wait is outstanding
    completions,     \* completed waits whose handler has not run
    actor,           \* of each thread: what it is in, and for which chain
    raced,           \* timers entered by two threads at once: undefined
    sets,            \* calls of SetPeriodicTimer so far, per timer
    asked,           \* history: what was asked last of a timer that was found
    thrown           \* history: timers a handler of which has thrown

vars == <<_periodicTimers, emplacing, overlapped, waits, completions, actor,
          raced, sets, asked, thrown>>

Chains == [timer : Timers, call : 1 .. MaxSets]

Chain(t, n) == [timer |-> t, call |-> n]

Completion == [chain : Chains, ec : {"ok", "aborted"}]

Actors == Users \cup Threads

Idle == [at |-> "idle"]

Busy == [at : {"handler", "expires_set"}, chain : Chains]

TypeOK == /\ _periodicTimers \subseteq Timers \cup Others
          /\ emplacing \subseteq Timers \cup Others
          /\ overlapped \in BOOLEAN
          /\ waits \subseteq Chains
          /\ completions \subseteq Completion
          /\ actor \in [Actors -> {Idle} \cup Busy]
          /\ raced \subseteq Timers
          /\ sets \in [Timers -> 0 .. MaxSets]
          /\ asked \in [Timers -> {"nothing", "set", "cancel"}]
          /\ thrown \subseteq Timers

Init == /\ _periodicTimers = {}
        /\ emplacing = {}
        /\ overlapped = FALSE
        /\ waits = {}
        /\ completions = {}
        /\ actor = [a \in Actors |-> Idle]
        /\ raced = {}
        /\ sets = [t \in Timers |-> 0]
        /\ asked = [t \in Timers |-> "nothing"]
        /\ thrown = {}
-----------------------------------------------------------------------------
(* The map.                                                                *)

Search == /\ overlapped' = (overlapped \/ emplacing # {})
          /\ UNCHANGED emplacing

NotFound(t) == t \notin _periodicTimers \/ emplacing # {} \/ overlapped

(* A second call with an id that has a timer keeps the first.              *)
InitialisePeriodicTimer(t) ==
    /\ t \notin _periodicTimers \cup emplacing
    /\ emplacing' = emplacing \cup {t}
    /\ overlapped' = (overlapped \/ emplacing # {})
    /\ UNCHANGED <<_periodicTimers, waits, completions, actor, raced, sets,
                   asked, thrown>>

Emplaced(t) ==
    /\ t \in emplacing
    /\ emplacing' = emplacing \ {t}
    /\ _periodicTimers' = _periodicTimers \cup {t}
    /\ UNCHANGED <<overlapped, waits, completions, actor, raced, sets, asked,
                   thrown>>
-----------------------------------------------------------------------------
(* The deadline timer.  asio guards its queue of timers with a mutex, but  *)
(* not the timer object, whose flag tells a set and a cancel whether       *)
(* anything waits: once two threads have been in one timer together, they  *)
(* may miss waits.                                                         *)

Ok(k) == [chain |-> k, ec |-> "ok"]

Aborted(k) == [chain |-> k, ec |-> "aborted"]

WaitsOf(t) == {k \in waits : k.timer = t}

Setting(a, t) == actor[a].at = "expires_set" /\ actor[a].chain.timer = t

Enter(a, t) == raced' = raced \cup
                   {s \in {t} : \E b \in Actors \ {a} : Setting(b, s)}

Abort(t) == \E K \in SUBSET WaitsOf(t) :
                /\ t \notin raced' => K = WaitsOf(t)
                /\ waits' = waits \ K
                /\ completions' = completions \cup {Aborted(k) : k \in K}

(* The expiry of a timer passes: everything that waits for it completes.   *)
Expire(t) ==
    /\ WaitsOf(t) # {}
    /\ waits' = waits \ WaitsOf(t)
    /\ completions' = completions \cup {Ok(k) : k \in WaitsOf(t)}
    /\ UNCHANGED <<_periodicTimers, emplacing, overlapped, actor, raced, sets,
                   asked, thrown>>

(* SetPeriodicTimer, by the application or by the handler that chains the  *)
(* next timeout: the timer is found and given an expiry, which aborts what *)
(* waits ...                                                               *)
ExpiresFromNow(a, k) ==
    /\ Search
    /\ Enter(a, k.timer)
    /\ Abort(k.timer)
    /\ actor' = [actor EXCEPT ![a] = [at |-> "expires_set", chain |-> k]]

(* ... and then a wait.                                                    *)
AsyncWait(a) ==
    /\ actor[a].at = "expires_set"
    /\ waits' = waits \cup {actor[a].chain}
    /\ actor' = [actor EXCEPT ![a] = Idle]
    /\ UNCHANGED <<_periodicTimers, emplacing, overlapped, completions, raced,
                   sets, asked, thrown>>
-----------------------------------------------------------------------------
(* The application.                                                        *)

SetPeriodicTimer(u, t) ==
    /\ actor[u] = Idle
    /\ t \in _periodicTimers
    /\ sets[t] < MaxSets
    /\ sets' = [sets EXCEPT ![t] = @ + 1]
    /\ asked' = [asked EXCEPT ![t] = "set"]
    /\ ExpiresFromNow(u, Chain(t, sets'[t]))
    /\ UNCHANGED <<_periodicTimers, thrown>>

(* A timer that has not been initialised is not found: nothing happens,    *)
(* and nobody is told.                                                     *)
SetUnknownTimer(u, t) ==
    /\ actor[u] = Idle
    /\ NotFound(t)
    /\ sets[t] < MaxSets
    /\ sets' = [sets EXCEPT ![t] = @ + 1]
    /\ Search
    /\ UNCHANGED <<_periodicTimers, waits, completions, actor, raced, asked,
                   thrown>>

CancelPeriodicTimer(u, t) ==
    /\ actor[u] = Idle
    /\ t \in _periodicTimers
    /\ asked[t] = "set"
    /\ asked' = [asked EXCEPT ![t] = "cancel"]
    /\ Search
    /\ Enter(u, t)
    /\ Abort(t)
    /\ UNCHANGED <<_periodicTimers, actor, sets, thrown>>

CancelUnknownTimer(u, t) ==
    /\ actor[u] = Idle
    /\ NotFound(t)
    /\ Search
    /\ UNCHANGED <<_periodicTimers, waits, completions, actor, raced, sets,
                   asked, thrown>>
-----------------------------------------------------------------------------
(* The completion handler, on a thread of the io_service.                  *)

FaultyCancelled(p, c) ==
    /\ actor[p] = Idle
    /\ c.ec = "aborted"
    /\ completions' = completions \ {c}
    /\ actor' = [actor EXCEPT ![p] = [at |-> "handler", chain |-> c.chain]]
    /\ UNCHANGED <<_periodicTimers, emplacing, overlapped, waits, raced, sets,
                   asked, thrown>>

(* "User cancelled."                                                       *)
Cancelled(p, c) ==
    /\ actor[p] = Idle
    /\ c.ec = "aborted"
    /\ completions' = completions \ {c}
    /\ UNCHANGED <<_periodicTimers, emplacing, overlapped, waits, actor, raced,
                   sets, asked, thrown>>

FaultyInvokeHandler(p, c) ==
    /\ actor[p] = Idle
    /\ c.ec = "ok"
    /\ completions' = completions \ {c}
    /\ waits' = waits \cup {c.chain}
    /\ actor' = [actor EXCEPT ![p] = [at |-> "handler", chain |-> c.chain]]
    /\ UNCHANGED <<_periodicTimers, emplacing, overlapped, raced, sets, asked,
                   thrown>>

InvokeHandler(p, c) ==
    /\ actor[p] = Idle
    /\ c.ec = "ok"
    /\ completions' = completions \ {c}
    /\ actor' = [actor EXCEPT ![p] = [at |-> "handler", chain |-> c.chain]]
    /\ UNCHANGED <<_periodicTimers, emplacing, overlapped, waits, raced, sets,
                   asked, thrown>>

FaultyChainTimeout(p) ==
    LET k == actor[p].chain IN
    /\ actor[p].at = "handler"
    /\ IF k.call = sets[k.timer]
       THEN ExpiresFromNow(p, k)
       ELSE /\ Search
            /\ Enter(p, k.timer)
            /\ Abort(k.timer)
            /\ actor' = [actor EXCEPT ![p] = Idle]
    /\ UNCHANGED <<_periodicTimers, sets, asked, thrown>>

(* The application's handler returns: "chain the next periodic timeout".   *)
ChainTimeout(p) ==
    /\ actor[p].at = "handler"
    /\ ExpiresFromNow(p, actor[p].chain)
    /\ UNCHANGED <<_periodicTimers, sets, asked, thrown>>

(* The search misses the timer: no next timeout.                           *)
ChainLost(p) ==
    /\ actor[p].at = "handler"
    /\ NotFound(actor[p].chain.timer)
    /\ actor' = [actor EXCEPT ![p] = Idle]
    /\ Search
    /\ UNCHANGED <<_periodicTimers, waits, completions, raced, sets, asked,
                   thrown>>

(* It throws, past the next timeout, to the loop that runs the io_service. *)
HandlerThrows(p) ==
    /\ actor[p].at = "handler"
    /\ actor' = [actor EXCEPT ![p] = Idle]
    /\ thrown' = thrown \cup {actor[p].chain.timer}
    /\ UNCHANGED <<_periodicTimers, emplacing, overlapped, waits, completions,
                   raced, sets, asked>>
-----------------------------------------------------------------------------
Application(u) == \E t \in Timers : \/ SetPeriodicTimer(u, t)
                                    \/ SetUnknownTimer(u, t)
                                    \/ CancelPeriodicTimer(u, t)
                                    \/ CancelUnknownTimer(u, t)

Handler(p, c) == Cancelled(p, c) \/ InvokeHandler(p, c)

Next == \/ \E t \in Timers \cup Others : \/ InitialisePeriodicTimer(t)
                                       \/ Emplaced(t)
        \/ \E t \in Timers : Expire(t)
        \/ \E u \in Users : Application(u)
        \/ \E a \in Actors : AsyncWait(a)
        \/ \E p \in Threads : \/ \E c \in completions : Handler(p, c)
                              \/ ChainTimeout(p)
                              \/ ChainLost(p)
                              \/ HandlerThrows(p)

(* Time passes, handlers return, a call that has begun goes on, and the    *)
(* io_service runs what is queued first in, first out: no completion waits *)
(* for ever behind later ones.                                             *)
Fairness ==
    /\ \A t \in Timers : WF_vars(Expire(t))
    /\ \A a \in Actors : WF_vars(AsyncWait(a))
    /\ \A p \in Threads : WF_vars(ChainTimeout(p))
    /\ \A c \in Completion :
           SF_vars(c \in completions /\ \E p \in Threads : Handler(p, c))

Spec == Init /\ [][Next]_vars /\ Fairness
-----------------------------------------------------------------------------
(* Safety.                                                                 *)

Holds(a, k) == actor[a] # Idle /\ actor[a].chain = k

Live(k) == k \in waits \/ Ok(k) \in completions \/ \E a \in Actors : Holds(a, k)

(* Whatever is cancelled and set, on however many threads, one call of     *)
(* SetPeriodicTimer makes one chain: its handler never overlaps itself,    *)
(* and is never called twice for one expiry.                               *)
OneChainPerCall ==
    \A k \in Chains :
        /\ k \in waits => Ok(k) \notin completions
        /\ \A a \in Actors : Holds(a, k) =>
               /\ k \notin waits
               /\ Ok(k) \notin completions
               /\ \A b \in Actors : Holds(b, k) => a = b

(* A chain that has ended, by a cancel, by a later call or by a handler    *)
(* that threw, never calls the application again.                          *)
EndedChainsStayEnded ==
    [][\A k \in Chains : k.call <= sets[k.timer] /\ ~Live(k) => ~Live(k)']_vars

(* A timer that was set last, and whose handlers have not thrown, has a    *)
(* chain: of the calls and handlers that abort one another's waits, in any *)
(* order, one is left to call the application, as long as no timer is      *)
(* initialised while another thread searches the map.                      *)
SetTimersHaveAChain ==
    \A t \in Timers : asked[t] = "set" /\ t \notin thrown /\ ~overlapped =>
        \E k \in Chains : k.timer = t /\ Live(k)

-----------------------------------------------------------------------------
(* Liveness.                                                               *)

Calling(t) == \E a \in Actors : /\ actor[a].at = "handler"
                               /\ actor[a].chain.timer = t

(* A timer that was set last, not cancelled, keeps calling a handler, even *)
(* when several calls of SetPeriodicTimer and the handlers that set it     *)
(* again abort one another's waits.  Only a handler that throws ends it,   *)
(* or a timer that is initialised while another thread searches the map.   *)
KeepsTicking ==
    \A t \in Timers : asked[t] = "set" ~> \/ Calling(t)
                                          \/ asked[t] = "cancel"
                                          \/ t \in thrown
                                          \/ overlapped
=============================================================================
