-------------------------- MODULE WorkerPoolProofs --------------------------
(***************************************************************************)
(* Proofs about WorkerPool, for any workers, callers and bound on tasks.   *)
(***************************************************************************)
EXTENDS WorkerPool, FiniteSetTheorems, TLAPS

(* The sets that FreeCountExact counts are finite, and there is at most    *)
(* one thread at work besides the workers.                                 *)
LEMMA CountedSets ==
    /\ IsFiniteSet(Created) /\ IsFiniteSet(Working) /\ IsFiniteSet(Counting)
    /\ Cardinality(Created) \in Nat /\ Cardinality(Created) <= Cardinality(Pool)
    /\ Cardinality(Working) \in Nat /\ Cardinality(Working) <= Cardinality(Created) + 1
    /\ Cardinality(Counting) \in Nat /\ Cardinality(Counting) <= Cardinality(Callers)
    /\ Cardinality(Pool) \in Nat /\ Cardinality(Callers) \in Nat
<1> USE WorkerPoolAssumption
<1>1. /\ IsFiniteSet(Created) /\ Cardinality(Created) <= Cardinality(Pool)
      /\ IsFiniteSet(Counting) /\ Cardinality(Counting) <= Cardinality(Callers)
  <2>1. Created \in SUBSET Pool /\ Counting \in SUBSET Callers
    BY DEF Created, Counting
  <2> QED
    BY <2>1, FS_Subset
<1>2. /\ Cardinality(Created) \in Nat /\ Cardinality(Counting) \in Nat
      /\ Cardinality(Pool) \in Nat /\ Cardinality(Callers) \in Nat
  BY <1>1, FS_CardinalityType
<1>3. /\ IsFiniteSet(Created \cup {Service})
      /\ Cardinality(Created \cup {Service}) <= Cardinality(Created) + 1
  <2>1. /\ IsFiniteSet(Created \cup {Service})
        /\ Cardinality(Created \cup {Service}) =
              IF Service \in Created THEN Cardinality(Created) ELSE Cardinality(Created) + 1
    BY <1>1, FS_AddElement
  <2> QED
    BY <1>2, <2>1
<1>4. Working \in SUBSET (Created \cup {Service})
  BY DEF Working, Created, Threads
<1>5. /\ IsFiniteSet(Working)
      /\ Cardinality(Working) <= Cardinality(Created \cup {Service})
  BY <1>3, <1>4, FS_Subset
<1>6. Cardinality(Working) \in Nat /\ Cardinality(Created \cup {Service}) \in Nat
  BY <1>3, <1>5, FS_CardinalityType
<1> QED
  BY <1>1, <1>2, <1>3, <1>5, <1>6

(* The bounds TypeOK puts on the count follow from its being exact.        *)
CountRange == _freeWorkerCount \in -(Cardinality(Callers) + 1) .. Cardinality(Pool)

LEMMA CountInRange == FreeCountExact => CountRange
BY CountedSets DEF FreeCountExact, CountRange

LEMMA CountInRangeNext == FreeCountExact' => CountRange'
BY CountInRange, PTL

(* TypeOK without the bounds on the count.                                 *)
LifeTypes == /\ life \in Lives
             /\ queue \in Seq(Tasks)
             /\ kind \in Seq({"start", "work", "handler"})
             /\ Len(kind) <= MaxTasks
             /\ done \subseteq Tasks
             /\ thread \in [Threads -> {"none", "loop", "run", "task", "ended"}]
             /\ task \in [Threads -> 0 .. MaxTasks]
             /\ caller \in [Callers -> {"idle", "add", "push", "count", "post"}]
             /\ _started \in BOOLEAN
             /\ raced \in BOOLEAN

LEMMA TypesSuffice ==
    ASSUME LifeTypes, FreeCountExact
    PROVE  TypeOK
BY CountInRange DEF LifeTypes, TypeOK, CountRange
-----------------------------------------------------------------------------
LEMMA InitIInv == Init => IInv
<1> SUFFICES ASSUME Init PROVE IInv
  OBVIOUS
<1> USE WorkerPoolAssumption DEF Init
<1>1. LifeTypes
  <2>1. _started \in BOOLEAN /\ raced \in BOOLEAN
    OBVIOUS
  <2>2. /\ life \in Lives /\ queue \in Seq(Tasks) /\ done \subseteq Tasks
        /\ kind \in Seq({"start", "work", "handler"}) /\ Len(kind) <= MaxTasks
    BY DEF Lives, Tasks
  <2>3. /\ thread \in [Threads -> {"none", "loop", "run", "task", "ended"}]
        /\ task \in [Threads -> 0 .. MaxTasks]
        /\ caller \in [Callers -> {"idle", "add", "push", "count", "post"}]
    OBVIOUS
  <2> QED
    BY <2>1, <2>2, <2>3 DEF LifeTypes
<1>2. FreeCountExact
  <2>1. Created = {} /\ Working = {} /\ Counting = {}
    BY DEF Created, Working, Counting, Threads
  <2> QED
    BY <2>1, FS_EmptySet DEF FreeCountExact
<1>3. TasksPosted /\ Stages
  BY DEF TasksPosted, Stages, Threads
<1> QED
  BY <1>1, <1>2, <1>3, TypesSuffice DEF IInv

(* Posting appends one task, whose number is the new length.               *)
LEMMA PostTypes ==
    ASSUME LifeTypes, TasksPosted, NEW k \in {"start", "work", "handler"}, Post(k)
    PROVE  /\ queue' \in Seq(Tasks)
           /\ kind' \in Seq({"start", "work", "handler"})
           /\ Len(kind') <= MaxTasks
           /\ DOMAIN kind \subseteq DOMAIN kind'
           /\ \A i \in DOMAIN kind : kind'[i] = kind[i]
           /\ \A i \in DOMAIN queue' : queue'[i] \in DOMAIN kind'
<1> USE WorkerPoolAssumption DEF LifeTypes, Post
<1>1. Len(kind) + 1 \in Tasks
  BY DEF Tasks
<1>2. queue' \in Seq(Tasks)
  BY <1>1
<1>3. /\ kind' \in Seq({"start", "work", "handler"})
      /\ Len(kind') = Len(kind) + 1
      /\ DOMAIN kind' = 1 .. Len(kind) + 1
      /\ \A i \in DOMAIN kind : kind'[i] = kind[i]
  OBVIOUS
<1>4. ASSUME NEW i \in DOMAIN queue'
      PROVE  queue'[i] \in DOMAIN kind'
  <2>1. queue'[i] = Len(kind) + 1 \/ (i \in DOMAIN queue /\ queue'[i] = queue[i])
    BY <1>4
  <2> QED
    BY <2>1, <1>3 DEF TasksPosted
<1> QED
  BY <1>2, <1>3, <1>4

LEMMA TypesStep ==
    ASSUME IInv, [Next]_vars
    PROVE  LifeTypes' /\ TasksPosted'
<1> USE WorkerPoolAssumption DEF LifeTypes
<1>0. LifeTypes /\ TasksPosted /\ Service \in Threads /\ Pool \subseteq Threads
  BY DEF IInv, TypeOK, Threads
<1>1. CASE Start
  BY <1>0, <1>1, PostTypes DEF Start, TasksPosted, Lives
<1>2. ASSUME NEW c \in Callers, TestFree(c)
      PROVE  LifeTypes' /\ TasksPosted'
  BY <1>0, <1>2 DEF TestFree, TasksPosted
<1>3. ASSUME NEW c \in Callers, CreateThread(c)
      PROVE  LifeTypes' /\ TasksPosted'
  BY <1>0, <1>3 DEF CreateThread, TasksPosted
<1>4. ASSUME NEW c \in Callers, PushWorker(c) \/ CountWorker(c)
      PROVE  LifeTypes' /\ TasksPosted'
  BY <1>0, <1>4 DEF PushWorker, CountWorker, TasksPosted
<1>5. ASSUME NEW c \in Callers, PostWork(c)
      PROVE  LifeTypes' /\ TasksPosted'
  BY <1>0, <1>5, PostTypes DEF PostWork, TasksPosted
<1>6. CASE PostHandler
  BY <1>0, <1>6, PostTypes DEF PostHandler, TasksPosted
<1>7. CASE ServiceLoop
  BY <1>0, <1>7 DEF ServiceLoop, TasksPosted
<1>8. ASSUME NEW t \in Threads, TakeTask(t)
      PROVE  LifeTypes' /\ TasksPosted'
  <2>1. /\ Head(queue) \in Tasks
        /\ Head(queue) \in DOMAIN kind
        /\ queue' \in Seq(Tasks)
        /\ \A i \in DOMAIN queue' : queue'[i] \in DOMAIN kind
    BY <1>0, <1>8 DEF TakeTask, TasksPosted
  <2>2. LifeTypes'
    BY <1>0, <1>8, <2>1 DEF TakeTask, Tasks
  <2>3. ASSUME NEW u \in Threads, thread'[u] = "task"
        PROVE  task'[u] \in DOMAIN kind'
    BY <1>0, <1>8, <2>1, <2>3 DEF TakeTask, TasksPosted
  <2> QED
    BY <1>8, <2>1, <2>2, <2>3 DEF TakeTask, TasksPosted
<1>9. ASSUME NEW t \in Threads, EndTask(t)
      PROVE  LifeTypes' /\ TasksPosted'
  <2>1. task[t] \in Tasks
    BY <1>0, <1>9 DEF EndTask, TasksPosted, Tasks
  <2> QED
    BY <1>0, <1>9, <2>1 DEF EndTask, TasksPosted
<1>10. ASSUME NEW t \in Threads, HandlerThrows(t)
       PROVE  LifeTypes' /\ TasksPosted'
  <2>1. task[t] \in Tasks
    BY <1>0, <1>10 DEF HandlerThrows, TasksPosted, Tasks
  <2>2. /\ life' \in Lives
        /\ thread' \in [Threads -> {"none", "loop", "run", "task", "ended"}]
        /\ \A u \in Threads : u # t => thread'[u] = thread[u]
        /\ thread'[t] # "task"
    <3>1. CASE t = Service
      BY <1>0, <1>10, <3>1 DEF HandlerThrows
    <3>2. CASE t # Service
      BY <1>0, <1>10, <3>2 DEF HandlerThrows, Lives
    <3> QED
      BY <3>1, <3>2
  <2>3. LifeTypes'
    BY <1>0, <1>10, <2>1, <2>2 DEF HandlerThrows
  <2> QED
    BY <1>0, <1>10, <2>2, <2>3 DEF HandlerThrows, TasksPosted
<1>11. ASSUME NEW t \in Threads, LeaveRun(t) \/ NotifyStarted(t)
       PROVE  LifeTypes' /\ TasksPosted'
  BY <1>0, <1>11 DEF LeaveRun, NotifyStarted, TasksPosted
<1>12. CASE CorruptHandles \/ ClearShouldRun \/ StopSteps
  BY <1>0, <1>12 DEF CorruptHandles, ClearShouldRun, StopSteps, StopService,
                     JoinAll, GetRunHandle, UnchangedButLife, TasksPosted, Lives
<1>13. CASE UNCHANGED vars
  BY <1>0, <1>13 DEF vars, TasksPosted
<1> QED
  BY <1>1, <1>2, <1>3, <1>4, <1>5, <1>6, <1>7, <1>8, <1>9, <1>10, <1>11, <1>12,
     <1>13 DEF Next, RunWork, Run
-----------------------------------------------------------------------------
(* The count.  Each step that changes it changes one of the three sets by  *)
(* one thread or one caller, and the step from "add" changes two.          *)

SameSets == /\ Created' = Created
            /\ Working' = Working
            /\ Counting' = Counting
            /\ _freeWorkerCount' = _freeWorkerCount

LEMMA SameSetsKeepCount ==
    ASSUME FreeCountExact, SameSets
    PROVE  FreeCountExact'
BY DEF FreeCountExact, SameSets

(* A thread takes up or ends a task; Pool only tells whether it was        *)
(* created before, so Created stays.                                       *)
LEMMA WorkChangesCount ==
    ASSUME FreeCountExact, NEW t \in Threads, Created' = Created, Counting' = Counting,
           \/ /\ t \notin Working
              /\ Working' = Working \cup {t}
              /\ _freeWorkerCount' = _freeWorkerCount - 1
           \/ /\ t \in Working
              /\ Working' = Working \ {t}
              /\ _freeWorkerCount' = _freeWorkerCount + 1
    PROVE  FreeCountExact'
<1>1. /\ Cardinality(Working \cup {t}) = IF t \in Working THEN Cardinality(Working)
                                                         ELSE Cardinality(Working) + 1
      /\ Cardinality(Working \ {t}) = IF t \in Working THEN Cardinality(Working) - 1
                                                      ELSE Cardinality(Working)
  BY CountedSets, FS_AddElement, FS_RemoveElement
<1>2. \/ /\ Cardinality(Working') = Cardinality(Working) + 1
         /\ _freeWorkerCount' = _freeWorkerCount - 1
      \/ /\ Cardinality(Working') = Cardinality(Working) - 1
         /\ _freeWorkerCount' = _freeWorkerCount + 1
  BY <1>1
<1>3. Cardinality(Created') = Cardinality(Created) /\ Cardinality(Counting') = Cardinality(Counting)
  OBVIOUS
<1> QED
  BY <1>2, <1>3, CountedSets DEF FreeCountExact

LEMMA CountStep ==
    ASSUME IInv, [Next]_vars
    PROVE  FreeCountExact'
<1>0. /\ FreeCountExact /\ LifeTypes /\ TasksPosted /\ Stages
      /\ Service \in Threads /\ Service \notin Pool /\ Pool \subseteq Threads
  BY WorkerPoolAssumption DEF IInv, TypeOK, LifeTypes, Threads
<1> USE DEF LifeTypes
<1>1. CASE Start
  <2>1. \A i \in DOMAIN kind : kind'[i] = kind[i]
    BY <1>0, <1>1, PostTypes DEF Start
  <2>2. SameSets
    BY <1>0, <1>1, <2>1 DEF Start, SameSets, Created, Working, Counting, Counted,
                            TasksPosted, Stages
  <2> QED
    BY <1>0, <2>2, SameSetsKeepCount
<1>2. ASSUME NEW c \in Callers, TestFree(c)
      PROVE  FreeCountExact'
  <2>1. SameSets
    BY <1>0, <1>2 DEF TestFree, SameSets, Created, Working, Counting, Counted
  <2> QED
    BY <1>0, <2>1, SameSetsKeepCount
<1>3. ASSUME NEW c \in Callers, CreateThread(c)
      PROVE  FreeCountExact'
  <2>1. PICK t \in Pool : /\ thread[t] = "none"
                          /\ thread' = [thread EXCEPT ![t] = "run"]
    BY <1>3 DEF CreateThread
  <2>2. /\ Created' = Created \cup {t} /\ t \notin Created
        /\ Counting' = Counting \cup {c} /\ c \notin Counting
        /\ Working' = Working
        /\ _freeWorkerCount' = _freeWorkerCount
    BY <1>0, <1>3, <2>1 DEF CreateThread, Created, Working, Counting, Counted
  <2>3. /\ Cardinality(Created') = Cardinality(Created) + 1
        /\ Cardinality(Counting') = Cardinality(Counting) + 1
    BY <2>2, CountedSets, FS_AddElement
  <2> QED
    BY <1>0, <2>2, <2>3, CountedSets DEF FreeCountExact
<1>14. ASSUME NEW c \in Callers, PushWorker(c)
       PROVE  FreeCountExact'
  <2>1. SameSets
    BY <1>0, <1>14 DEF PushWorker, SameSets, Created, Working, Counting, Counted
  <2> QED
    BY <1>0, <2>1, SameSetsKeepCount
<1>4. ASSUME NEW c \in Callers, CountWorker(c)
      PROVE  FreeCountExact'
  <2>1. /\ Created' = Created /\ Working' = Working
        /\ Counting' = Counting \ {c} /\ c \in Counting
        /\ _freeWorkerCount' = _freeWorkerCount + 1
    BY <1>0, <1>4 DEF CountWorker, Created, Working, Counting, Counted
  <2>2. Cardinality(Counting') = Cardinality(Counting) - 1
    BY <2>1, CountedSets, FS_RemoveElement
  <2> QED
    BY <1>0, <2>1, <2>2, CountedSets DEF FreeCountExact
<1>5. ASSUME NEW c \in Callers, PostWork(c)
      PROVE  FreeCountExact'
  <2>1. \A i \in DOMAIN kind : kind'[i] = kind[i]
    BY <1>0, <1>5, PostTypes DEF PostWork
  <2>2. SameSets
    BY <1>0, <1>5, <2>1 DEF PostWork, SameSets, Created, Working, Counting, Counted, TasksPosted
  <2> QED
    BY <1>0, <2>2, SameSetsKeepCount
<1>6. CASE PostHandler
  <2>1. \A i \in DOMAIN kind : kind'[i] = kind[i]
    BY <1>0, <1>6, PostTypes DEF PostHandler
  <2>2. SameSets
    BY <1>0, <1>6, <2>1 DEF PostHandler, SameSets, Created, Working, Counting, Counted, TasksPosted
  <2> QED
    BY <1>0, <2>2, SameSetsKeepCount
<1>7. CASE ServiceLoop
  <2>1. SameSets
    BY <1>0, <1>7 DEF ServiceLoop, SameSets, Created, Working, Counting, Counted
  <2> QED
    BY <1>0, <2>1, SameSetsKeepCount
<1>8. ASSUME NEW t \in Threads, TakeTask(t)
      PROVE  FreeCountExact'
  <2>1. Created' = Created /\ Counting' = Counting /\ t \notin Working
    BY <1>0, <1>8 DEF TakeTask, Created, Counting, Working
  <2>2. CASE Counted(Head(queue))
    <3>1. /\ Working' = Working \cup {t}
          /\ _freeWorkerCount' = _freeWorkerCount - 1
      BY <1>0, <1>8, <2>2 DEF TakeTask, Working, Counted
    <3> QED
      BY <1>0, <2>1, <3>1, WorkChangesCount
  <2>3. CASE ~Counted(Head(queue))
    <3>1. Working' = Working
      BY <1>0, <1>8, <2>3 DEF TakeTask, Working, Counted
    <3>2. _freeWorkerCount' = _freeWorkerCount
      BY <1>0, <1>8, <2>3, CountedSets DEF TakeTask, FreeCountExact
    <3> QED
      BY <1>0, <2>1, <3>1, <3>2, SameSetsKeepCount DEF SameSets
  <2> QED
    BY <2>2, <2>3
<1>9. ASSUME NEW t \in Threads, EndTask(t)
      PROVE  FreeCountExact'
  <2>1. Created' = Created /\ Counting' = Counting
    BY <1>0, <1>9 DEF EndTask, Created, Counting
  <2>2. CASE Counted(task[t])
    <3>1. /\ t \in Working /\ Working' = Working \ {t}
          /\ _freeWorkerCount' = _freeWorkerCount + 1
      BY <1>0, <1>9, <2>2 DEF EndTask, Working, Counted
    <3> QED
      BY <1>0, <2>1, <3>1, WorkChangesCount
  <2>3. CASE ~Counted(task[t])
    <3>1. Working' = Working
      BY <1>0, <1>9, <2>3 DEF EndTask, Working, Counted
    <3>2. _freeWorkerCount' = _freeWorkerCount
      BY <1>0, <1>9, <2>3, CountedSets DEF EndTask, FreeCountExact
    <3> QED
      BY <1>0, <2>1, <3>1, <3>2, SameSetsKeepCount DEF SameSets
  <2> QED
    BY <2>2, <2>3
<1>10. ASSUME NEW t \in Threads, HandlerThrows(t)
       PROVE  FreeCountExact'
  <2>1. Created' = Created /\ Counting' = Counting
    BY <1>0, <1>10 DEF HandlerThrows, Created, Counting
  <2>2. t \notin Working /\ ~Counted(task[t])
    BY <1>10 DEF HandlerThrows, Working, Counted
  <2>3. Working' = Working
    BY <1>0, <1>10, <2>2 DEF HandlerThrows, Working, Counted
  <2> QED
    BY <1>0, <1>10, <2>1, <2>3, SameSetsKeepCount DEF HandlerThrows, SameSets
<1>11. ASSUME NEW t \in Threads, LeaveRun(t) \/ NotifyStarted(t)
       PROVE  FreeCountExact'
  <2>1. SameSets
    BY <1>0, <1>11 DEF LeaveRun, NotifyStarted, SameSets, Created, Working, Counting, Counted
  <2> QED
    BY <1>0, <2>1, SameSetsKeepCount
<1>12. CASE CorruptHandles \/ ClearShouldRun \/ StopSteps
  <2>1. SameSets
    BY <1>12 DEF CorruptHandles, ClearShouldRun, StopSteps, StopService,
                 JoinAll, GetRunHandle, UnchangedButLife, SameSets, Created, Working, Counting, Counted
  <2> QED
    BY <1>0, <2>1, SameSetsKeepCount
<1>13. CASE UNCHANGED vars
  <2>1. SameSets
    BY <1>13 DEF vars, SameSets, Created, Working, Counting, Counted
  <2> QED
    BY <1>0, <2>1, SameSetsKeepCount
<1> QED
  BY <1>1, <1>2, <1>3, <1>4, <1>5, <1>6, <1>7, <1>8, <1>9, <1>10, <1>11, <1>12,
     <1>13, <1>14 DEF Next, RunWork, Run
-----------------------------------------------------------------------------
(* After the join no worker runs a task: the service is stopped by then,   *)
(* so no thread takes one, and a thread created later has none.            *)
LEMMA StagesStep ==
    ASSUME IInv, [Next]_vars
    PROVE  Stages'
<1>0. /\ LifeTypes /\ Stages
      /\ Service \in Threads /\ Service \notin Pool /\ Pool \subseteq Threads
  BY WorkerPoolAssumption DEF IInv, TypeOK, LifeTypes, Threads
<1> USE DEF LifeTypes, Stages
<1>1. CASE Start \/ PostHandler \/ ServiceLoop
  BY <1>0, <1>1 DEF Start, PostHandler, ServiceLoop, ServiceStopped
<1>2. ASSUME NEW c \in Callers, RunWork(c)
      PROVE  Stages'
  BY <1>0, <1>2 DEF RunWork, TestFree, CreateThread, PushWorker, CountWorker,
                    PostWork
<1>3. ASSUME NEW t \in Threads, TakeTask(t)
      PROVE  Stages'
  BY <1>0, <1>3 DEF TakeTask, ServiceStopped
<1>4. ASSUME NEW t \in Threads, EndTask(t) \/ LeaveRun(t) \/ NotifyStarted(t)
      PROVE  Stages'
  BY <1>0, <1>4 DEF EndTask, LeaveRun, NotifyStarted
<1>5. ASSUME NEW t \in Threads, HandlerThrows(t)
      PROVE  Stages'
  BY <1>0, <1>5 DEF HandlerThrows
<1>6. CASE CorruptHandles \/ ClearShouldRun \/ StopSteps
  BY <1>0, <1>6 DEF CorruptHandles, ClearShouldRun, StopSteps, StopService, JoinAll, GetRunHandle,
                    UnchangedButLife
<1>7. CASE UNCHANGED vars
  BY <1>0, <1>7 DEF vars
<1> QED
  BY <1>1, <1>2, <1>3, <1>4, <1>5, <1>6, <1>7 DEF Next, Run
-----------------------------------------------------------------------------
(* The tasks.  The queue holds the last tasks posted, and those before     *)
(* them have been taken.                                                   *)

Taken == Len(kind) - Len(queue)

RunOnce == WorkRunsOnce /\ Len(queue) <= Len(kind)

LEMMA InitRunOnce == Init => RunOnce
<1> SUFFICES ASSUME Init PROVE RunOnce
  OBVIOUS
<1>1. Running = {}
  BY DEF Init, Running, Threads
<1> QED
  BY <1>1 DEF Init, RunOnce, WorkRunsOnce

LEMMA PostKeepsOrder ==
    ASSUME LifeTypes, RunOnce, NEW k \in {"start", "work", "handler"}, Post(k),
           UNCHANGED <<done, task>>, Running' = Running
    PROVE  RunOnce'
<1>1. /\ Len(queue') = Len(queue) + 1 /\ Len(kind') = Len(kind) + 1
      /\ queue'[Len(queue) + 1] = Len(kind) + 1
      /\ \A n \in DOMAIN queue : queue'[n] = queue[n]
      /\ DOMAIN queue' = 1 .. Len(queue) + 1 /\ DOMAIN queue = 1 .. Len(queue)
      /\ Len(queue) \in Nat /\ Len(kind) \in Nat
  BY DEF LifeTypes, Post
<1>2. Taken' = Taken
  BY <1>1 DEF Taken
<1>3. ASSUME NEW n \in DOMAIN queue'
      PROVE  queue'[n] = Taken + n
  <2>1. CASE n \in DOMAIN queue
    BY <1>1, <2>1 DEF RunOnce, WorkRunsOnce, Taken
  <2>2. CASE n = Len(queue) + 1
    BY <1>1, <2>2 DEF Taken
  <2> QED
    BY <1>1, <1>3, <2>1, <2>2
<1> QED
  BY <1>1, <1>2, <1>3 DEF RunOnce, WorkRunsOnce, Taken

LEMMA TakeKeepsOrder ==
    ASSUME LifeTypes, RunOnce, NEW t \in Threads, TakeTask(t)
    PROVE  RunOnce'
<1>1. /\ Head(queue) = Taken + 1
      /\ Len(queue') = Len(queue) - 1 /\ kind' = kind
      /\ Len(queue) \in Nat \ {0} /\ Len(kind) \in Nat /\ Taken \in Nat
      /\ DOMAIN queue' = 1 .. Len(queue) - 1 /\ DOMAIN queue = 1 .. Len(queue)
      /\ \A n \in DOMAIN queue' : queue'[n] = queue[n + 1]
  BY DEF LifeTypes, RunOnce, WorkRunsOnce, TakeTask, Taken
<1>2. Taken' = Taken + 1
  BY <1>1 DEF Taken
<1>3. \A n \in DOMAIN queue' : queue'[n] = Taken' + n
  BY <1>1, <1>2 DEF RunOnce, WorkRunsOnce, Taken
<1>4. /\ t \notin Running /\ Running' = Running \cup {t}
      /\ task'[t] = Taken + 1 /\ \A u \in Running : task'[u] = task[u]
      /\ done' = done
  BY <1>1 DEF LifeTypes, TakeTask, Running
<1>5. done' \cup {task'[u] : u \in Running'} = 1 .. Taken'
  <2>1. done \cup {task[u] : u \in Running} = 1 .. Taken
    BY DEF RunOnce, WorkRunsOnce, Taken
  <2>2. {task'[u] : u \in Running'} = {task[u] : u \in Running} \cup {Taken + 1}
    BY <1>4
  <2>3. 1 .. Taken + 1 = (1 .. Taken) \cup {Taken + 1}
    BY <1>1
  <2> QED
    BY <1>2, <1>4, <2>1, <2>2, <2>3
<1>6. \A u \in Running : task[u] # Taken + 1
  BY <1>1 DEF RunOnce, WorkRunsOnce, Taken
<1>7. Taken + 1 \notin done
  BY <1>1 DEF RunOnce, WorkRunsOnce, Taken
<1>8. \A v \in Running' : /\ task'[v] \notin done'
                           /\ \A u \in Running' : task'[u] = task'[v] => u = v
  BY <1>4, <1>6, <1>7 DEF RunOnce, WorkRunsOnce
<1> QED
  BY <1>1, <1>3, <1>5, <1>8 DEF RunOnce, WorkRunsOnce, Taken

LEMMA EndKeepsOrder ==
    ASSUME LifeTypes, RunOnce, NEW t \in Threads, EndTask(t) \/ HandlerThrows(t)
    PROVE  RunOnce'
<1>1. /\ t \in Running /\ Running' = Running \ {t}
      /\ \A u \in Running' : task'[u] = task[u]
      /\ done' = done \cup {task[t]}
      /\ UNCHANGED <<queue, kind>>
  BY DEF LifeTypes, EndTask, HandlerThrows, Running
<1>2. done' \cup {task'[u] : u \in Running'} = done \cup {task[u] : u \in Running}
  BY <1>1
<1>3. \A v \in Running' : /\ task'[v] \notin done'
                           /\ \A u \in Running' : task'[u] = task'[v] => u = v
  BY <1>1 DEF RunOnce, WorkRunsOnce
<1> QED
  BY <1>1, <1>2, <1>3 DEF RunOnce, WorkRunsOnce

LEMMA RunOnceStep ==
    ASSUME IInv, RunOnce, [Next]_vars
    PROVE  RunOnce'
<1>0. LifeTypes
  BY DEF IInv, TypeOK, LifeTypes
<1>1. ASSUME UNCHANGED <<queue, kind, done, task>>, Running' = Running
      PROVE  RunOnce'
  BY <1>1 DEF RunOnce, WorkRunsOnce
<1>2. CASE Start
  <2>1. Running' = Running
    BY <1>0, <1>2 DEF Start, IInv, Stages, LifeTypes, Running
  <2> QED
    BY <1>0, <1>2, <2>1, PostKeepsOrder DEF Start
<1>3. ASSUME NEW c \in Callers, CreateThread(c)
      PROVE  RunOnce'
  <2>1. Running' = Running
    BY <1>0, <1>3 DEF CreateThread, LifeTypes, Running
  <2> QED
    BY <1>1, <1>3, <2>1 DEF CreateThread
<1>4. ASSUME NEW c \in Callers, TestFree(c) \/ PushWorker(c) \/ CountWorker(c)
      PROVE  RunOnce'
  BY <1>1, <1>4 DEF TestFree, PushWorker, CountWorker, Running
<1>5. ASSUME NEW c \in Callers, PostWork(c)
      PROVE  RunOnce'
  BY <1>0, <1>5, PostKeepsOrder DEF PostWork, Running
<1>6. CASE PostHandler
  BY <1>0, <1>6, PostKeepsOrder DEF PostHandler, Running
<1>7. CASE ServiceLoop
  <2>1. Running' = Running
    BY <1>0, <1>7 DEF ServiceLoop, LifeTypes, Running
  <2> QED
    BY <1>1, <1>7, <2>1 DEF ServiceLoop
<1>8. ASSUME NEW t \in Threads, LeaveRun(t) \/ NotifyStarted(t)
      PROVE  RunOnce'
  <2>1. Running' = Running
    BY <1>0, <1>8 DEF LeaveRun, NotifyStarted, LifeTypes, Running
  <2> QED
    BY <1>1, <1>8, <2>1 DEF LeaveRun, NotifyStarted
<1>9. CASE CorruptHandles \/ ClearShouldRun \/ StopSteps
  BY <1>1, <1>9 DEF CorruptHandles, ClearShouldRun, StopSteps, StopService, JoinAll,
                    GetRunHandle, UnchangedButLife, Running
<1>10. CASE UNCHANGED vars
  BY <1>1, <1>10 DEF vars, Running
<1> QED
  BY <1>0, <1>2, <1>3, <1>4, <1>5, <1>6, <1>7, <1>8, <1>9, <1>10,
     TakeKeepsOrder, EndKeepsOrder DEF Next, RunWork, Run

(* The service thread leaves its loop only once it should no longer run.   *)
LEMMA ServiceThreadStep ==
    ASSUME IInv, ServiceThreadStays, [Next]_vars
    PROVE  ServiceThreadStays'
<1>0. LifeTypes /\ Service \in Threads /\ Service \notin Pool
  BY WorkerPoolAssumption DEF IInv, TypeOK, LifeTypes, Threads
<1> USE DEF LifeTypes, ServiceThreadStays, _shouldRun
<1>1. CASE Start \/ PostHandler \/ ServiceLoop
  BY <1>0, <1>1 DEF Start, PostHandler, ServiceLoop
<1>2. ASSUME NEW c \in Callers, RunWork(c)
      PROVE  ServiceThreadStays'
  BY <1>0, <1>2 DEF RunWork, TestFree, CreateThread, PushWorker, CountWorker,
                    PostWork
<1>3. ASSUME NEW t \in Threads,
             TakeTask(t) \/ EndTask(t) \/ LeaveRun(t) \/ NotifyStarted(t)
      PROVE  ServiceThreadStays'
  BY <1>0, <1>3 DEF TakeTask, EndTask, LeaveRun, NotifyStarted
<1>4. ASSUME NEW t \in Threads, HandlerThrows(t)
      PROVE  ServiceThreadStays'
  BY <1>0, <1>4 DEF HandlerThrows
<1>5. CASE CorruptHandles \/ ClearShouldRun \/ StopSteps
  BY <1>5 DEF CorruptHandles, ClearShouldRun, StopSteps, StopService, JoinAll, GetRunHandle
<1>6. CASE UNCHANGED vars
  BY <1>6 DEF vars
<1> QED
  BY <1>1, <1>2, <1>3, <1>4, <1>5, <1>6 DEF Next, Run
-----------------------------------------------------------------------------
LEMMA NextIInv ==
    ASSUME IInv, [Next]_vars
    PROVE  IInv'
<1>1. LifeTypes' /\ TasksPosted' /\ FreeCountExact' /\ Stages'
  BY TypesStep, CountStep, StagesStep
<1> QED
  BY <1>1, CountInRangeNext DEF IInv, TypeOK, LifeTypes, CountRange

(* The parts of the invariant hold together in every state.                *)
THEOREM PoolInvariance == Spec => []IInv
<1>1. Init => IInv
  BY InitIInv
<1>2. IInv /\ [Next]_vars => IInv'
  BY NextIInv
<1> QED
  BY <1>1, <1>2, PTL DEF Spec

(* The types hold, and the count of free workers stays within the number   *)
(* of workers and of callers adding one.                                   *)
THEOREM PoolTypes == Spec => []TypeOK
<1>1. IInv => TypeOK
  BY DEF IInv
<1> QED
  BY <1>1, PoolInvariance, PTL

(* _freeWorkerCount never drifts from the workers and the work under way,  *)
(* whatever the order in which RunWork, AddWorker, the start notification  *)
(* and the wrappers run, until a race of AddWorkers ends the process; in   *)
(* the window in which Start has returned and its notification has not     *)
(* ended (IoServicesImpl.cpp:70-77) the count is one lower.                *)
THEOREM FreeCountNeverDrifts == Spec => []FreeCountExact
<1>1. IInv => FreeCountExact
  BY DEF IInv
<1> QED
  BY <1>1, PoolInvariance, PTL

(* When Stop has returned no thread of the service runs a task.            *)
THEOREM StopIsQuiet == Spec => []StoppedIsQuiet
<1>1. IInv => StoppedIsQuiet
  BY DEF IInv, Stages, StoppedIsQuiet, Threads
<1> QED
  BY <1>1, PoolInvariance, PTL

(* Every task posted to the io_service runs once, in the order of posting, *)
(* on whichever thread is free: RunWork, AddWorker, the loop of Run that   *)
(* catches what handlers throw, and Stop never drop or repeat one          *)
(* (IoServicesImpl.cpp:282-325).                                           *)
THEOREM NoTaskIsLost == Spec => []WorkRunsOnce
<1>1. Init => RunOnce
  BY InitRunOnce
<1>2. IInv /\ RunOnce /\ [Next]_vars => RunOnce'
  BY RunOnceStep
<1>3. RunOnce => WorkRunsOnce
  BY DEF RunOnce
<1> QED
  BY <1>1, <1>2, <1>3, PoolInvariance, PTL DEF Spec

(* Until Stop is called the service thread is alive: an exception takes it *)
(* round its loop, never out of it (IoServicesImpl.cpp:282-302).           *)
THEOREM ServiceThreadLives == Spec => []ServiceThreadStays
<1>1. Init => ServiceThreadStays
  BY DEF Init, ServiceThreadStays, _shouldRun
<1>2. IInv /\ ServiceThreadStays /\ [Next]_vars => ServiceThreadStays'
  BY ServiceThreadStep
<1> QED
  BY <1>1, <1>2, PoolInvariance, PTL DEF Spec
=============================================================================
