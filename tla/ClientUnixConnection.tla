------------------------ MODULE ClientUnixConnection ------------------------
(***************************************************************************)
(* The Unix domain client: a task that connects, waits for the connection  *)
(* through a promise, then for an error or for Stop, and the manager whose *)
(* callbacks feed it from the io_service.  The manager has one client, as  *)
(* it has in the program; UnixDomainClient adds the program.               *)
(*                                                                         *)
(* The library's side is cut down to what ClientConnections promises: a    *)
(* connect is answered, a lost connection is reported once, and in this    *)
(* order.  The program runs the io_service on one thread.                  *)
(***************************************************************************)
VARIABLES
    task,          \* the client's task, to how it ended
    _clientConn,   \* the task has stored its connection
    mConnPromise,  \* the promise of a connection is fulfilled
    mErrPromise,   \* the promise of an error is fulfilled
    _shouldRun,
    _ioError,
    _mutex,        \* the thread that holds the client's mutex, or "none"
    conn,          \* the library's connection
    ioAt           \* the handler the io_service is in

clientVars == <<task, _clientConn, mConnPromise, mErrPromise, _shouldRun,
                _ioError, _mutex, conn, ioAt>>

Ended == {"normally", "with_error"}

ClientTypeOK ==
    /\ task \in {"none", "connect", "await_connection", "lock", "test",
                 "sleep", "wait", "await_error"} \cup Ended
    /\ _clientConn \in BOOLEAN
    /\ mConnPromise \in BOOLEAN
    /\ mErrPromise \in BOOLEAN
    /\ _shouldRun \in BOOLEAN
    /\ _ioError \in BOOLEAN
    /\ _mutex \in {"none", "main", "task"}
    /\ conn \in {"none", "pending", "connected", "refused", "open", "lost",
                 "reported"}
    /\ ioAt \in {"none", "idle", "connect_callback", "error_callback",
                 "set_error", "notify", "heartbeat", "udp_error", "udp_write",
                 "left"}

ClientInit == /\ task = "none"
              /\ _clientConn = FALSE
              /\ mConnPromise = FALSE
              /\ mErrPromise = FALSE
              /\ _shouldRun = FALSE
              /\ _ioError = FALSE
              /\ _mutex = "none"
              /\ conn = "none"
              /\ ioAt = "none"
-----------------------------------------------------------------------------
(* TryAddConnection, called once, enters the client and starts its task.   *)
TryAddConnection ==
    /\ task = "none"
    /\ task' = "connect"
    /\ _shouldRun' = TRUE
    /\ UNCHANGED <<_clientConn, mConnPromise, mErrPromise, _ioError, _mutex,
                   conn, ioAt>>

(* notify_one on the client's condition: a task that does not wait there   *)
(* misses it.                                                              *)
NotifyOne == task' = IF task = "wait" THEN "lock" ELSE task

(* Stop, from the destructor, which then waits for the task: the flag is   *)
(* cleared under the mutex, which is given back before the task is told.   *)
Stop ==
    /\ _mutex = "none"
    /\ _mutex' = "main"
    /\ _shouldRun' = FALSE
    /\ UNCHANGED <<task, _clientConn, mConnPromise, mErrPromise, _ioError,
                   conn, ioAt>>

StopUnlocks ==
    /\ _mutex' = "none"
    /\ UNCHANGED <<task, _clientConn, mConnPromise, mErrPromise, _shouldRun,
                   _ioError, conn, ioAt>>

StopNotifies ==
    /\ NotifyOne
    /\ UNCHANGED <<_clientConn, mConnPromise, mErrPromise, _shouldRun,
                   _ioError, _mutex, conn, ioAt>>

Joined == task \in {"none"} \cup Ended
-----------------------------------------------------------------------------
(* RunOnce, on the task.                                                   *)

AsyncConnect ==
    /\ task = "connect"
    /\ task' = "await_connection"
    /\ conn' = "pending"
    /\ UNCHANGED <<_clientConn, mConnPromise, mErrPromise, _shouldRun,
                   _ioError, _mutex, ioAt>>

(* The exception ends the task; the connection may still come.             *)
ConnectTimesOut ==
    /\ task = "await_connection"
    /\ ~mConnPromise
    /\ task' = "with_error"
    /\ UNCHANGED <<_clientConn, mConnPromise, mErrPromise, _shouldRun,
                   _ioError, _mutex, conn, ioAt>>

StoreConnection ==
    /\ task = "await_connection"
    /\ mConnPromise
    /\ task' = "lock"
    /\ _clientConn' = TRUE
    /\ UNCHANGED <<mConnPromise, mErrPromise, _shouldRun, _ioError, _mutex,
                   conn, ioAt>>

(* The mutex is the task's from here, but for its waits, to its end.       *)
LockMutex ==
    /\ task = "lock"
    /\ _mutex = "none"
    /\ task' = "test"
    /\ _mutex' = "task"
    /\ UNCHANGED <<_clientConn, mConnPromise, mErrPromise, _shouldRun,
                   _ioError, conn, ioAt>>

FaultyPredicate ==
    /\ task = "test"
    /\ IF ~_shouldRun THEN /\ task' = "await_error"
                           /\ conn' = IF ~_ioError /\ conn = "open"
                                      THEN "lost" ELSE conn
                      ELSE task' = "sleep" /\ UNCHANGED conn
    /\ UNCHANGED <<_clientConn, mConnPromise, mErrPromise, _shouldRun,
                   _ioError, _mutex, ioAt>>

(* Told to stop, or of an error, it waits no longer; without an error the  *)
(* socket is closed.                                                       *)
Predicate ==
    /\ task = "test"
    /\ IF ~_shouldRun \/ _ioError
       THEN /\ task' = "await_error"
            /\ conn' = IF ~_ioError /\ conn = "open" THEN "lost" ELSE conn
       ELSE task' = "sleep" /\ UNCHANGED conn
    /\ UNCHANGED <<_clientConn, mConnPromise, mErrPromise, _shouldRun,
                   _ioError, _mutex, ioAt>>

Wait ==
    /\ task = "sleep"
    /\ task' = "wait"
    /\ _mutex' = "none"
    /\ UNCHANGED <<_clientConn, mConnPromise, mErrPromise, _shouldRun,
                   _ioError, conn, ioAt>>

FaultyErrorAwaited ==
    /\ task = "await_error"
    /\ task' = "normally"
    /\ _mutex' = "none"
    /\ UNCHANGED <<_clientConn, mConnPromise, mErrPromise, _shouldRun,
                   _ioError, conn, ioAt>>

ErrorAwaited ==
    /\ task = "await_error"
    /\ task' = IF mErrPromise THEN "normally" ELSE "with_error"
    /\ _mutex' = "none"
    /\ UNCHANGED <<_clientConn, mConnPromise, mErrPromise, _shouldRun,
                   _ioError, conn, ioAt>>

RunOnce == \/ AsyncConnect
           \/ ConnectTimesOut
           \/ StoreConnection
           \/ LockMutex
           \/ Predicate
           \/ Wait
           \/ ErrorAwaited

(* A condition variable may wake its waiter for no reason.                 *)
SpuriousWake ==
    /\ task = "wait"
    /\ NotifyOne
    /\ UNCHANGED <<_clientConn, mConnPromise, mErrPromise, _shouldRun,
                   _ioError, _mutex, conn, ioAt>>
-----------------------------------------------------------------------------
(* The library, and the callbacks of the manager.                          *)

ConnectEnds ==
    /\ conn = "pending"
    /\ conn' \in {"connected", "refused"}
    /\ UNCHANGED <<task, _clientConn, mConnPromise, mErrPromise, _shouldRun,
                   _ioError, _mutex, ioAt>>

ServerGoes ==
    /\ conn = "open"
    /\ conn' = "lost"
    /\ UNCHANGED <<task, _clientConn, mConnPromise, mErrPromise, _shouldRun,
                   _ioError, _mutex, ioAt>>

ConnectHandler ==
    /\ ioAt = "idle"
    /\ conn = "connected"
    /\ conn' = "open"
    /\ ioAt' = "connect_callback"
    /\ UNCHANGED <<task, _clientConn, mConnPromise, mErrPromise, _shouldRun,
                   _ioError, _mutex>>

(* Under the manager's mutex: SetConnection, unless a connection is        *)
(* stored; one that comes after the timeout is still promised.             *)
HandleConnectCallback ==
    /\ ioAt = "connect_callback"
    /\ ioAt' = "idle"
    /\ mConnPromise' = (mConnPromise \/ ~_clientConn)
    /\ UNCHANGED <<task, _clientConn, mErrPromise, _shouldRun, _ioError, _mutex,
                   conn>>

ReadFailed ==
    /\ ioAt = "idle"
    /\ conn = "lost"
    /\ conn' = "reported"
    /\ ioAt' = "error_callback"
    /\ UNCHANGED <<task, _clientConn, mConnPromise, mErrPromise, _shouldRun,
                   _ioError, _mutex>>

(* Under the manager's mutex, to its last step: SetError, which ignores    *)
(* the error of a connection that is not stored.  The promise comes before *)
(* the client's mutex and the flag.                                        *)
HandleErrorCallback ==
    /\ ioAt = "error_callback"
    /\ ioAt' = IF _clientConn THEN "set_error" ELSE "idle"
    /\ mErrPromise' = (mErrPromise \/ _clientConn)
    /\ UNCHANGED <<task, _clientConn, mConnPromise, _shouldRun, _ioError,
                   _mutex, conn>>

FaultySetError ==
    /\ ioAt = "set_error"
    /\ _ioError' = TRUE
    /\ ioAt' = "notify"
    /\ UNCHANGED <<task, _clientConn, mConnPromise, mErrPromise, _shouldRun,
                   _mutex, conn>>

SetError ==
    /\ ioAt = "set_error"
    /\ _mutex = "none"
    /\ _ioError' = TRUE
    /\ ioAt' = "notify"
    /\ UNCHANGED <<task, _clientConn, mConnPromise, mErrPromise, _shouldRun,
                   _mutex, conn>>

SetErrorNotifies ==
    /\ ioAt = "notify"
    /\ NotifyOne
    /\ ioAt' = "idle"
    /\ UNCHANGED <<_clientConn, mConnPromise, mErrPromise, _shouldRun,
                   _ioError, _mutex, conn>>
-----------------------------------------------------------------------------
(* Safety.                                                                 *)

(* A promise is fulfilled once, for a second set_value would throw on the  *)
(* io_service's thread, and that of an error only for the connection that  *)
(* is stored.                                                              *)
PromisesAreKeptOnce ==
    /\ ioAt = "connect_callback" => ~mConnPromise
    /\ ioAt = "error_callback" => ~mErrPromise
    /\ mErrPromise => _clientConn

(* A task that ends normally has had its connection and heard of its end:  *)
(* no callback begins for it any more.  The one that told it may still be  *)
(* on its way to the mutex, the flag and the condition.                    *)
NormalEndIsTheLast ==
    task = "normally" => /\ conn = "reported"
                         /\ mErrPromise
                         /\ ioAt \notin {"connect_callback", "error_callback"}
=============================================================================
