-------------------------- MODULE UnixDomainClient --------------------------
(***************************************************************************)
(* The program UnixDomainClient: its main thread, the Unix domain client   *)
(* with its task and its manager, a datagram sender, a watchdog thread,    *)
(* the io_service on one thread, and a signal handler that shuts the       *)
(* services down on whichever thread the signal interrupts.                *)
(*                                                                         *)
(* That thread does nothing else until the handler has returned, and keeps *)
(* the mutexes it holds: the manager's in TryAddConnection, the            *)
(* UdpListener's in AsyncWrite, the client's in Stop or, on its task, in   *)
(* RunOnce.                                                                *)
(***************************************************************************)
EXTENDS ClientUnixConnection

VARIABLES
    mainAt,    \* what the main thread is in
    armed,     \* sigHandlerHandle holds the handler
    handler,   \* the destructor of SigHandler: how far it is
    on,        \* ... and the thread it runs on
    services,  \* the io_service: "none", "running" or "stopping"
    watchdog,  \* the watchdog thread: "none", "running" or "left"
    udp,       \* the datagram listener the sender is the handle of
    sending,   \* its send: "none", "pending" or "done"
    thrown     \* an exception has ended the main loop

programVars == <<mainAt, armed, handler, on, services, watchdog, udp, sending,
                 thrown>>

allVars == <<clientVars, programVars>>

TypeOK ==
    /\ ClientTypeOK
    /\ mainAt \in {"start", "arm", "start_manager", "add", "adding",
                 "make_sender", "loop", "writing", "leave", "stopping",
                 "notifying", "destroy_manager", "destroy_services", "exited"}
    /\ armed \in BOOLEAN
    /\ handler \in {"none", "stop", "join", "await_watchdog", "done"}
    /\ on \in {"none", "main", "io", "task", "watchdog"}
    /\ services \in {"none", "running", "stopping"}
    /\ watchdog \in {"none", "running", "left"}
    /\ udp \in {"none", "connecting", "connected", "refused", "erased"}
    /\ sending \in {"none", "pending", "done"}
    /\ thrown \in BOOLEAN

ProgramInit == /\ ClientInit
               /\ mainAt = "start"
               /\ armed = FALSE
               /\ handler = "none"
               /\ on = "none"
               /\ services = "none"
               /\ watchdog = "none"
               /\ udp = "none"
               /\ sending = "none"
               /\ thrown = FALSE
-----------------------------------------------------------------------------
(* The signal.  One that comes before there is a handler is lost.          *)

Live(x) == \/ x = "main" /\ mainAt # "exited"
           \/ x = "io" /\ ioAt \notin {"none", "left"}
           \/ x = "task" /\ ~Joined
           \/ x = "watchdog" /\ watchdog = "running"

Interrupted(x) == on = x /\ handler # "done"

sig_handler(x) ==
    /\ armed
    /\ Live(x)
    /\ armed' = FALSE
    /\ handler' = "stop"
    /\ on' = x
    /\ UNCHANGED <<clientVars, mainAt, services, watchdog, udp, sending,
                   thrown>>

(* The watchdog is told to stop, and the io_service.                       *)
StopIoService ==
    /\ handler = "stop"
    /\ handler' = "join"
    /\ services' = "stopping"
    /\ UNCHANGED <<clientVars, mainAt, armed, on, watchdog, udp, sending,
                   thrown>>

FaultyJoinServices ==
    /\ handler = "join"
    /\ handler' = "await_watchdog"
    /\ UNCHANGED <<clientVars, mainAt, armed, on, services, watchdog, udp,
                   sending, thrown>>

JoinServices ==
    /\ handler = "join"
    /\ ioAt = "left"
    /\ handler' = "await_watchdog"
    /\ UNCHANGED <<clientVars, mainAt, armed, on, services, watchdog, udp,
                   sending, thrown>>

JoinWatchdog ==
    /\ handler = "await_watchdog"
    /\ watchdog = "left"
    /\ handler' = "done"
    /\ UNCHANGED <<clientVars, mainAt, armed, on, services, watchdog, udp,
                   sending, thrown>>

FaultyWatchdogLeaves ==
    /\ ~Interrupted("watchdog")
    /\ watchdog = "running"
    /\ handler = "done"
    /\ watchdog' = "left"
    /\ UNCHANGED <<clientVars, mainAt, armed, handler, on, services, udp,
                   sending, thrown>>

WatchdogLeaves ==
    /\ ~Interrupted("watchdog")
    /\ watchdog = "running"
    /\ handler \in {"join", "await_watchdog"}
    /\ watchdog' = "left"
    /\ UNCHANGED <<clientVars, mainAt, armed, handler, on, services, udp,
                   sending, thrown>>
-----------------------------------------------------------------------------
(* The main thread.                                                        *)

MainGoes(from, to) == /\ ~Interrupted("main")
                      /\ mainAt = from
                      /\ mainAt' = to

MakeServices ==
    /\ MainGoes("start", "arm")
    /\ services' = "running"
    /\ ioAt' = "idle"
    /\ UNCHANGED <<task, _clientConn, mConnPromise, mErrPromise, _shouldRun,
                   _ioError, _mutex, conn, armed, handler, on, watchdog, udp,
                   sending, thrown>>

MakeSigHandler ==
    /\ MainGoes("arm", "start_manager")
    /\ armed' = TRUE
    /\ watchdog' = "running"
    /\ UNCHANGED <<clientVars, handler, on, services, udp, sending, thrown>>

(* The heartbeat timer is set; its handler is HeartbeatDue.                *)
StartManager ==
    /\ MainGoes("start_manager", "add")
    /\ UNCHANGED <<clientVars, armed, handler, on, services, watchdog, udp,
                   sending, thrown>>

AddConnection ==
    /\ MainGoes("add", "adding")
    /\ TryAddConnection
    /\ UNCHANGED <<armed, handler, on, services, watchdog, udp, sending,
                   thrown>>

ConnectionAdded ==
    /\ MainGoes("adding", "make_sender")
    /\ UNCHANGED <<clientVars, armed, handler, on, services, watchdog, udp,
                   sending, thrown>>

ConnectSender ==
    /\ MainGoes("make_sender", "loop")
    /\ udp' = "connecting"
    /\ UNCHANGED <<clientVars, armed, handler, on, services, watchdog, sending,
                   thrown>>

BeginSend ==
    /\ MainGoes("loop", "writing")
    /\ armed
    /\ udp = "connected"
    /\ UNCHANGED <<clientVars, armed, handler, on, services, watchdog, udp,
                   sending, thrown>>

(* With a send outstanding the message is queued behind it.                *)
EndSend ==
    /\ MainGoes("writing", "loop")
    /\ sending' = IF sending = "none" THEN "pending" ELSE sending
    /\ UNCHANGED <<clientVars, armed, handler, on, services, watchdog, udp,
                   thrown>>

(* A datagram error has removed the listener under a sender that was       *)
(* connected: the next send throws, out of the loop.                       *)
SendThrows ==
    /\ MainGoes("loop", "leave")
    /\ udp = "erased"
    /\ thrown' = TRUE
    /\ UNCHANGED <<clientVars, armed, handler, on, services, watchdog, udp,
                   sending>>

LeaveLoop ==
    /\ MainGoes("loop", "leave")
    /\ ~armed
    /\ UNCHANGED <<clientVars, armed, handler, on, services, watchdog, udp,
                   sending, thrown>>

(* The locals go in the reverse order: the sender, the manager with its    *)
(* client, the services.                                                   *)
StopClient ==
    /\ \/ MainGoes("leave", "stopping") /\ Stop
       \/ MainGoes("stopping", "notifying") /\ StopUnlocks
       \/ MainGoes("notifying", "destroy_manager") /\ StopNotifies
    /\ UNCHANGED <<armed, handler, on, services, watchdog, udp, sending,
                   thrown>>

DestroyManager ==
    /\ MainGoes("destroy_manager", "destroy_services")
    /\ Joined
    /\ services' = "stopping"
    /\ UNCHANGED <<clientVars, armed, handler, on, watchdog, udp, sending,
                   thrown>>

DestroyServices ==
    /\ MainGoes("destroy_services", "exited")
    /\ ioAt = "left"
    /\ UNCHANGED <<clientVars, armed, handler, on, services, watchdog, udp,
                   sending, thrown>>
-----------------------------------------------------------------------------
(* The io_service's thread.                                                *)

IoPolls == services = "running" /\ ioAt = "idle" /\ ~Interrupted("io")

Handles(x) == ioAt = x /\ ~Interrupted("io")

IoGoes(to) ==
    /\ ioAt' = to
    /\ UNCHANGED <<task, _clientConn, mConnPromise, mErrPromise, _shouldRun,
                   _ioError, _mutex, conn, mainAt, armed, handler, on, services,
                   watchdog, thrown>>

(* The manager's mutex is free unless the main thread is in                *)
(* TryAddConnection.                                                       *)
ClientCallback ==
    /\ UNCHANGED programVars
    /\ \/ IoPolls /\ (ConnectHandler \/ ReadFailed)
       \/ /\ ~Interrupted("io")
          /\ mainAt # "adding"
          /\ HandleConnectCallback \/ HandleErrorCallback
       \/ ~Interrupted("io") /\ (SetError \/ SetErrorNotifies)

(* The heartbeat handler walks the manager's connections, with no lock.    *)
ManagerHeartbeat ==
    /\ IoPolls
    /\ mainAt \notin {"start", "arm", "start_manager"}
    /\ IoGoes("heartbeat")
    /\ UNCHANGED <<udp, sending>>

HeartbeatDone ==
    /\ Handles("heartbeat")
    /\ IoGoes("idle")
    /\ UNCHANGED <<udp, sending>>

UdpConnected ==
    /\ IoPolls
    /\ udp = "connecting"
    /\ udp' = "connected"
    /\ IoGoes("idle")
    /\ UNCHANGED sending

(* The connect or, later, the read fails: the error callback writes to a   *)
(* local of main's, then the listener is removed.                          *)
UdpError ==
    /\ IoPolls
    /\ udp \in {"connecting", "connected"}
    /\ IoGoes("udp_error")
    /\ UNCHANGED <<udp, sending>>

UdpErased ==
    /\ Handles("udp_error")
    /\ udp' = IF udp = "connecting" THEN "refused" ELSE "erased"
    /\ IoGoes("idle")
    /\ UNCHANGED sending

UdpSent ==
    /\ sending = "pending"
    /\ sending' = "done"
    /\ UNCHANGED <<clientVars, mainAt, armed, handler, on, services, watchdog,
                   udp, thrown>>

UdpWriteHandler ==
    /\ IoPolls
    /\ sending = "done"
    /\ IoGoes("udp_write")
    /\ UNCHANGED <<udp, sending>>

(* ... which pops the message under the mutex AsyncWrite holds, and sends  *)
(* the next if there is one.                                               *)
UdpPop ==
    /\ Handles("udp_write")
    /\ mainAt # "writing"
    /\ sending' \in {"none", "pending"}
    /\ IoGoes("idle")
    /\ UNCHANGED udp

IoLeaves ==
    /\ services = "stopping"
    /\ Handles("idle")
    /\ IoGoes("left")
    /\ UNCHANGED <<udp, sending>>
-----------------------------------------------------------------------------
Signal == \E x \in {"main", "io", "task", "watchdog"} : sig_handler(x)

SigHandler == StopIoService \/ JoinServices \/ JoinWatchdog

MainThread == \/ MakeServices
              \/ MakeSigHandler
              \/ StartManager
              \/ AddConnection
              \/ ConnectionAdded
              \/ ConnectSender
              \/ BeginSend
              \/ EndSend
              \/ SendThrows
              \/ LeaveLoop
              \/ StopClient
              \/ DestroyManager
              \/ DestroyServices

Task == ~Interrupted("task") /\ RunOnce /\ UNCHANGED programVars

Io == \/ ClientCallback
      \/ ManagerHeartbeat
      \/ HeartbeatDone
      \/ UdpConnected
      \/ UdpError
      \/ UdpErased
      \/ UdpWriteHandler
      \/ UdpPop
      \/ IoLeaves

Outside == \/ (ConnectEnds \/ ServerGoes) /\ UNCHANGED programVars
           \/ ~Interrupted("task") /\ SpuriousWake /\ UNCHANGED programVars
           \/ UdpSent

ProgramNext == \/ Signal
               \/ SigHandler
               \/ WatchdogLeaves
               \/ MainThread
               \/ Task
               \/ Io
               \/ Outside

(* Every thread that can go on does: a connect or an error that does not   *)
(* come is timed out.  Between two sends the main thread sleeps for five   *)
(* seconds, so that the io_service's thread gets the mutex; and neither    *)
(* what the io_service has queued for the client nor a thread that wants   *)
(* the client's mutex is overtaken for ever.                               *)
ProgramFairness == /\ WF_allVars(SigHandler)
                   /\ WF_allVars(WatchdogLeaves)
                   /\ WF_allVars(MainThread)
                   /\ SF_allVars(StopClient)
                   /\ WF_allVars(Task)
                   /\ SF_allVars(Io)
                   /\ SF_allVars(ClientCallback)

ProgramSpec == ProgramInit /\ [][ProgramNext]_allVars /\ ProgramFairness
-----------------------------------------------------------------------------
(* Safety.                                                                 *)

(* When a signal on the main thread has shut the services down, or none    *)
(* has come, no callback of the io_service finds the manager, or the       *)
(* locals of main it refers to, already destroyed.  Only an exception in   *)
(* the main loop, or a signal on another thread, destroys them first.      *)
CallbacksFindManager ==
    /\ mainAt \in {"destroy_services", "exited"}
    /\ ~thrown
    /\ on \in {"none", "main"}
    => ioAt = "left"

(* A task that waits although it has been told to stop, or of an error, is *)
(* about to be notified: who set the flag has not yet gone past the        *)
(* condition.  No interleaving with the task's test loses the wake-up.     *)
NoWakeUpIsLost ==
    task = "wait" => /\ ~_shouldRun => mainAt \in {"stopping", "notifying"}
                     /\ _ioError => ioAt = "notify"

(* Liveness.                                                               *)

(* A signal on the main thread or on the client's task ends the program,   *)
(* unless it finds there a mutex that the io_service's thread, which the   *)
(* handler joins, may be waiting for: the manager's or the listener's on   *)
(* main, the client's on either.  On the two threads the handler joins it  *)
(* ends nothing.                                                           *)
SignalStopsProgram ==
    /\ handler = "stop"
    /\ \/ on = "main" /\ mainAt \notin {"adding", "writing", "stopping"}
       \/ on = "task" /\ _mutex # "task"
    ~> mainAt = "exited"

(* The loss of a connection the client has stored ends its task, while the *)
(* io_service runs.                                                        *)
ErrorsEndTheClient ==
    _clientConn /\ conn = "lost" ~> task \in Ended \/ services # "running"
=============================================================================
