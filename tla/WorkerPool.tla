----------------------------- MODULE WorkerPool -----------------------------
(***************************************************************************)
(* The threads of IoServicesImpl: the service thread that runs the         *)
(* io_service in a loop, the workers that RunWork adds when it finds none  *)
(* free, the count of free workers, and stopping all of them.              *)
(*                                                                         *)
(* A task is a function posted to the io_service: the notification Start   *)
(* posts, a piece of work, or the completion handler of some I/O.  A       *)
(* definition whose name starts with Faulty is a bug one could make in the *)
(* definition that follows it; it takes no part in the specification.      *)
(***************************************************************************)
EXTENDS Integers, Sequences, FiniteSets

CONSTANTS Service,    \* the thread that Start launches
          Pool,       \* bound: the workers AddWorker may create
          Callers,    \* application threads that call RunWork
          MaxTasks    \* bound: tasks posted

ASSUME WorkerPoolAssumption ==
    /\ Service \notin Pool
    /\ IsFiniteSet(Pool)
    /\ IsFiniteSet(Callers)
    /\ MaxTasks \in Nat \ {0}

VARIABLES
    life,              \* how far Start and Stop have come
    queue,             \* the io_service's queue: task numbers
    kind,              \* history: the kind of each task posted
    done,              \* history: tasks that have run
    thread,            \* where each thread is
    task,              \* the task each thread runs, 0 for none
    caller,            \* where each caller is in RunWork
    _freeWorkerCount,
    _started,          \* the promise of Start is set
    raced              \* history: two callers changed _workerHandles together

vars == <<life, queue, kind, done, thread, task, caller, _freeWorkerCount,
          _started, raced>>

Threads == Pool \cup {Service}

Tasks == 1 .. MaxTasks

(* "new"; "running" from Start on; then the stages of Stop: _shouldRun is  *)
(* false, the io_service is stopped, the pool is joined, Stop has returned.*)
Lives == {"new", "running", "stopping", "joining", "joined", "stopped", "crashed"}

TypeOK == /\ life \in Lives
          /\ queue \in Seq(Tasks)
          /\ kind \in Seq({"start", "work", "handler"})
          /\ Len(kind) <= MaxTasks
          /\ done \subseteq Tasks
          /\ thread \in [Threads -> {"none", "loop", "run", "task", "ended"}]
          /\ task \in [Threads -> 0 .. MaxTasks]
          /\ caller \in [Callers -> {"idle", "add", "push", "count", "post"}]
          /\ _freeWorkerCount \in -(Cardinality(Callers) + 1) .. Cardinality(Pool)
          /\ _started \in BOOLEAN
          /\ raced \in BOOLEAN

Init == /\ life = "new"
        /\ queue = <<>>
        /\ kind = <<>>
        /\ done = {}
        /\ thread = [t \in Threads |-> "none"]
        /\ task = [t \in Threads |-> 0]
        /\ caller = [c \in Callers |-> "idle"]
        /\ _freeWorkerCount = 0
        /\ _started = FALSE
        /\ raced = FALSE
-----------------------------------------------------------------------------
_shouldRun == life = "running"

ServiceStopped == life \in {"joining", "joined", "stopped"}

Alive == life \notin {"new", "crashed"}

Post(k) == /\ Len(kind) < MaxTasks
           /\ kind' = Append(kind, k)
           /\ queue' = Append(queue, Len(kind) + 1)

(* Bounds: every call of RunWork that has begun finds a task number left,  *)
(* and a worker if it has to add one.                                      *)
RoomToPost == Len(kind) + Cardinality({c \in Callers : caller[c] # "idle"}) < MaxTasks

RoomToAdd == Cardinality({c \in Callers : caller[c] = "add"})
                 < Cardinality({t \in Pool : thread[t] = "none"})

(* Only the start notification and the work wrapper count themselves.      *)
Counted(i) == kind[i] \in {"start", "work"}

(* Start: launch Run on its own thread and post the notification.          *)
Start ==
    /\ life = "new"
    /\ life' = "running"
    /\ thread' = [thread EXCEPT ![Service] = "loop"]
    /\ Post("start")
    /\ UNCHANGED <<done, task, caller, _freeWorkerCount, _started, raced>>

(* The start notification, which has taken one off the count, sets the     *)
(* promise.  IoServices::Start may return now, with the count at -1.       *)
NotifyStarted(t) ==
    /\ thread[t] = "task"
    /\ kind[task[t]] = "start"
    /\ Alive
    /\ ~_started
    /\ _started' = TRUE
    /\ UNCHANGED <<life, queue, kind, done, thread, task, caller,
                   _freeWorkerCount, raced>>
-----------------------------------------------------------------------------
(* RunWork.                                                                *)

(* IoServices::Start waits for the promise; one that gives up after five   *)
(* seconds throws, and its application is taken to end there.              *)
StartReturns == _started

(* Look at the count.                                                      *)
TestFree(c) ==
    /\ caller[c] = "idle"
    /\ StartReturns
    /\ Alive
    /\ RoomToPost
    /\ _freeWorkerCount = 0 => RoomToAdd
    /\ caller' = [caller EXCEPT ![c] = IF _freeWorkerCount = 0 THEN "add" ELSE "post"]
    /\ UNCHANGED <<life, queue, kind, done, thread, task, _freeWorkerCount,
                   _started, raced>>

Pushing == {c \in Callers : caller[c] = "push"}

(* AddWorker: create a thread; the thread group is locked while Stop joins.*)
(* The caller goes on to put it into _workerHandles, which nothing locks:  *)
(* another caller may be there.                                            *)
CreateThread(c) ==
    /\ caller[c] = "add"
    /\ Alive
    /\ life # "joining"
    /\ \E t \in Pool :
          /\ thread[t] = "none"
          /\ thread' = [thread EXCEPT ![t] = "run"]
    /\ caller' = [caller EXCEPT ![c] = "push"]
    /\ raced' = (raced \/ Pushing # {})
    /\ UNCHANGED <<life, queue, kind, done, task, _freeWorkerCount, _started>>

(* AddWorker: the handle is in the vector, or is lost by a race; nothing   *)
(* ever takes one out.                                                     *)
PushWorker(c) ==
    /\ caller[c] = "push"
    /\ Alive
    /\ caller' = [caller EXCEPT ![c] = "count"]
    /\ UNCHANGED <<life, queue, kind, done, thread, task, _freeWorkerCount,
                   _started, raced>>

(* A race may have freed the vector's memory twice, which ends the process *)
(* then or later.                                                          *)
CorruptHandles ==
    /\ raced
    /\ Alive
    /\ life' = "crashed"
    /\ UNCHANGED <<queue, kind, done, thread, task, caller, _freeWorkerCount,
                   _started, raced>>

FaultyCountWorker(c) ==
    /\ caller[c] = "count"
    /\ Alive
    /\ caller' = [caller EXCEPT ![c] = "post"]
    /\ UNCHANGED <<life, queue, kind, done, thread, task, _freeWorkerCount,
                   _started, raced>>

(* AddWorker: count the thread, which may be running a task by now.        *)
CountWorker(c) ==
    /\ caller[c] = "count"
    /\ Alive
    /\ _freeWorkerCount' = _freeWorkerCount + 1
    /\ caller' = [caller EXCEPT ![c] = "post"]
    /\ UNCHANGED <<life, queue, kind, done, thread, task, _started, raced>>

PostWork(c) ==
    /\ caller[c] = "post"
    /\ Alive
    /\ Post("work")
    /\ caller' = [caller EXCEPT ![c] = "idle"]
    /\ UNCHANGED <<life, done, thread, task, _freeWorkerCount, _started,
                   raced>>

(* asio: some I/O completes.                                               *)
PostHandler ==
    /\ Alive
    /\ ~ServiceStopped
    /\ RoomToPost
    /\ Post("handler")
    /\ UNCHANGED <<life, done, thread, task, caller, _freeWorkerCount,
                   _started, raced>>
-----------------------------------------------------------------------------
(* The threads.                                                            *)

FaultyServiceLoop ==
    /\ thread[Service] = "loop"
    /\ Alive
    /\ thread' = [thread EXCEPT ![Service] = "run"]
    /\ UNCHANGED <<life, queue, kind, done, task, caller, _freeWorkerCount,
                   _started, raced>>

(* Run: the head of the loop.                                              *)
ServiceLoop ==
    /\ thread[Service] = "loop"
    /\ Alive
    /\ thread' = [thread EXCEPT ![Service] = IF _shouldRun THEN "run" ELSE "ended"]
    /\ UNCHANGED <<life, queue, kind, done, task, caller, _freeWorkerCount,
                   _started, raced>>

(* io_service::run: the first task in the queue.  A counted task takes one *)
(* off the count first, on whatever thread it runs.                        *)
TakeTask(t) ==
    /\ thread[t] = "run"
    /\ Alive
    /\ ~ServiceStopped
    /\ queue # <<>>
    /\ queue' = Tail(queue)
    /\ task' = [task EXCEPT ![t] = Head(queue)]
    /\ thread' = [thread EXCEPT ![t] = "task"]
    /\ _freeWorkerCount' = _freeWorkerCount - (IF Counted(Head(queue)) THEN 1 ELSE 0)
    /\ UNCHANGED <<life, kind, done, caller, _started, raced>>

(* The task returns.  Work that throws ends the same way: the wrapper      *)
(* reports the exception and puts itself back on the count.                *)
EndTask(t) ==
    /\ thread[t] = "task"
    /\ Alive
    /\ kind[task[t]] = "start" => _started
    /\ done' = done \cup {task[t]}
    /\ task' = [task EXCEPT ![t] = 0]
    /\ thread' = [thread EXCEPT ![t] = "run"]
    /\ _freeWorkerCount' = _freeWorkerCount + (IF Counted(task[t]) THEN 1 ELSE 0)
    /\ UNCHANGED <<life, queue, kind, caller, _started, raced>>

FaultyHandlerThrows(t) ==
    /\ thread[t] = "task"
    /\ Alive
    /\ kind[task[t]] = "handler"
    /\ done' = done \cup {task[t]}
    /\ task' = [task EXCEPT ![t] = 0]
    /\ thread' = [thread EXCEPT ![t] = "ended"]
    /\ UNCHANGED <<life, queue, kind, caller, _freeWorkerCount, _started,
                   raced>>

(* A handler throws: Run catches it and goes round its loop; on a worker   *)
(* nobody catches it and the process ends.                                 *)
HandlerThrows(t) ==
    /\ thread[t] = "task"
    /\ Alive
    /\ kind[task[t]] = "handler"
    /\ done' = done \cup {task[t]}
    /\ task' = [task EXCEPT ![t] = 0]
    /\ IF t = Service
       THEN thread' = [thread EXCEPT ![t] = "loop"] /\ UNCHANGED life
       ELSE thread' = [thread EXCEPT ![t] = "ended"] /\ life' = "crashed"
    /\ UNCHANGED <<queue, kind, caller, _freeWorkerCount, _started, raced>>

(* io_service::run returns, on a worker for good.                          *)
LeaveRun(t) ==
    /\ thread[t] = "run"
    /\ Alive
    /\ ServiceStopped
    /\ thread' = [thread EXCEPT ![t] = IF t = Service THEN "loop" ELSE "ended"]
    /\ UNCHANGED <<life, queue, kind, done, task, caller, _freeWorkerCount,
                   _started, raced>>
-----------------------------------------------------------------------------
(* Stop.                                                                   *)

UnchangedButLife ==
    UNCHANGED <<queue, kind, done, thread, task, caller, _freeWorkerCount,
                _started, raced>>

ClearShouldRun == StartReturns /\ life = "running" /\ life' = "stopping" /\ UnchangedButLife

StopService == life = "stopping" /\ life' = "joining" /\ UnchangedButLife

FaultyJoinAll == life = "joining" /\ life' = "joined" /\ UnchangedButLife

JoinAll == /\ life = "joining"
           /\ \A t \in Pool : thread[t] \in {"none", "ended"}
           /\ life' = "joined"
           /\ UnchangedButLife

GetRunHandle == /\ life = "joined"
                /\ thread[Service] = "ended"
                /\ life' = "stopped"
                /\ UnchangedButLife
-----------------------------------------------------------------------------
RunWork(c) == \/ TestFree(c)
              \/ CreateThread(c)
              \/ PushWorker(c)
              \/ CountWorker(c)
              \/ PostWork(c)

Run(t) == \/ TakeTask(t)
          \/ NotifyStarted(t)
          \/ EndTask(t)
          \/ HandlerThrows(t)
          \/ LeaveRun(t)

StopSteps == StopService \/ JoinAll \/ GetRunHandle

Next == \/ Start
        \/ \E c \in Callers : RunWork(c)
        \/ CorruptHandles
        \/ PostHandler
        \/ ServiceLoop
        \/ \E t \in Threads : Run(t)
        \/ ClearShouldRun
        \/ StopSteps

(* Threads are scheduled and tasks end; nobody has to call Start, RunWork  *)
(* or Stop.                                                                *)
Fairness == /\ \A c \in Callers : WF_vars(caller[c] # "idle" /\ RunWork(c))
            /\ \A t \in Threads : WF_vars(Run(t))
            /\ WF_vars(ServiceLoop)
            /\ WF_vars(StopSteps)

Spec == Init /\ [][Next]_vars /\ Fairness
-----------------------------------------------------------------------------
(* Safety.                                                                 *)

Created == {t \in Pool : thread[t] # "none"}

Counting == {c \in Callers : caller[c] \in {"push", "count"}}

Working == {t \in Threads : thread[t] = "task" /\ Counted(task[t])}

(* The count of free workers never drifts: whatever the order in which     *)
(* callers add workers and threads start and end work, it is the workers   *)
(* that were counted less the work under way, the service thread's work    *)
(* included, for which nothing was ever added.  It is so for callers that  *)
(* raced for _workerHandles too, as long as the process lives; and it is   *)
(* -1 when Start returns before its notification has ended, so that a      *)
(* RunWork that looks then adds no worker.                                 *)
FreeCountExact ==
    _freeWorkerCount =
        Cardinality(Created) - Cardinality(Working) - Cardinality(Counting)

(* Once Stop has returned no thread runs a task, not even a worker that a  *)
(* late RunWork created behind the join.                                   *)
StoppedIsQuiet == life = "stopped" => \A t \in Threads : thread[t] # "task"

Running == {t \in Threads : thread[t] = "task"}

(* Every task posted is queued, run by one thread or done, exactly once,   *)
(* and tasks are begun in the order in which they were posted: no catching *)
(* of exceptions, adding of workers or stopping drops or repeats one.      *)
WorkRunsOnce ==
    /\ \A n \in DOMAIN queue : queue[n] = Len(kind) - Len(queue) + n
    /\ done \cup {task[t] : t \in Running} = 1 .. Len(kind) - Len(queue)
    /\ \A t \in Running : /\ task[t] \notin done
                           /\ \A u \in Running : task[u] = task[t] => u = t

(* As long as the service should run the service thread runs it, or is on  *)
(* its way back to io_service::run: what handlers throw never ends it.     *)
ServiceThreadStays == _shouldRun => thread[Service] \notin {"none", "ended"}

(* The inductive invariant adds that a task was posted before it is queued *)
(* or run, that nothing runs before Start, and that the join of Stop       *)
(* leaves no worker with a task behind.                                    *)
TasksPosted == /\ \A i \in DOMAIN queue : queue[i] \in DOMAIN kind
               /\ \A t \in Threads : thread[t] = "task" => task[t] \in DOMAIN kind

Stages == /\ life = "new" => thread[Service] = "none"
          /\ life \in {"joined", "stopped"} => \A t \in Pool : thread[t] # "task"
          /\ life = "stopped" => thread[Service] = "ended"

(* The parts hold together, whatever happens.                              *)
IInv == TypeOK /\ TasksPosted /\ FreeCountExact /\ Stages
-----------------------------------------------------------------------------
(* Liveness.                                                               *)

(* Work that was asked for runs, although handlers throw, unless the       *)
(* service is stopped or the process ends, by a handler that throws on a   *)
(* worker or by callers that race for _workerHandles.                      *)
PostedWorkRuns ==
    \A i \in Tasks : (i \in DOMAIN kind) ~> (i \in done \/ ~_shouldRun)

(* Stop returns, whatever was running or queued when it was called.        *)
StopReturns == (life = "stopping") ~> (life \in {"stopped", "crashed"})
=============================================================================
