------------------------- MODULE ServiceCoordinator -------------------------
(***************************************************************************)
(* The life of the process: run_server()'s runner, ServiceCoordinator with *)
(* its ServiceLifecycle, the Wyoming and the admin listener, the handlers  *)
(* of the connected clients and the signals that end it all                *)
(* (app/coordinator.py, app/lifecycle.py, the end of app/wyoming_server.py *)
(* and AdminHttpServer.start()/stop()).                                    *)
(*                                                                         *)
(* Several coroutines run this code: the runner ("main"), which may still  *)
(* be inside start(), one task per signal, the first of which executes     *)
(* shutdown() ("shut" says where), and the handlers.  An action takes one  *)
(* of them from a suspension to the next.                                  *)
(***************************************************************************)
EXTENDS Naturals, FiniteSets

CONSTANTS
    Clients,        \* connections clients may open, one each
    Signals,        \* SIGTERM or SIGINT deliveries
    AdminEnabled    \* ADMIN_HTTP_ENABLED

ASSUME ClientsAreFinite == IsFiniteSet(Clients)
ASSUME AdminEnabledIsBoolean == AdminEnabled \in BOOLEAN

VARIABLES
    life,       \* ServiceLifecycle._state
    main,       \* where the runner is
    exit,       \* what run_server() returns, "killed" if it does not
    interrupted,\* a KeyboardInterrupt ended asyncio.run()
    bound,      \* coordinator.server and coordinator.scheduler are set
    listener,   \* the Wyoming socket
    admin,      \* the admin socket
    adminRef,   \* coordinator.admin is set
    adminBusy,  \* an admin request is being served
    started,    \* _shutdown_started
    complete,   \* _shutdown_complete
    shut,       \* where shutdown() is
    toClose,    \* handlers _close_all_handlers() has still to disconnect
    sig,        \* the task of each signal
    conn,       \* the handler of each connection
    transport,  \* its socket
    sched,      \* SpeechScheduler: admits requests, or drains
    lateConnect \* a client may connect while server.stop() stops the handlers; never changes

runnerVars   == <<main, exit, interrupted, bound>>
socketVars   == <<listener, admin, adminRef, adminBusy>>
shutdownVars == <<started, complete, shut, toClose>>
clientVars   == <<conn, transport>>
serviceVars == <<life, runnerVars, socketVars, shutdownVars, sig, clientVars, sched>>
vars == <<serviceVars, lateConnect>>

Lives == {"STARTING", "RUNNING", "DRAINING", "STOPPING", "STOPPED", "FAILED"}

Terminal(l) == l \in {"STOPPED", "FAILED"}

\* A handler registers itself in its constructor and leaves in disconnect().
Registered == {c \in Clients : conn[c] \notin {"none", "gone"}}

\* Inside SpeechScheduler.run().
Busy(c) == conn[c] \in {"legacy", "phrase"}

Init ==
    /\ life = "STARTING"
    /\ main = "entering" /\ exit = "none" /\ interrupted = FALSE /\ bound = FALSE
    /\ listener = "none" /\ admin = "none" /\ adminRef = FALSE /\ adminBusy = FALSE
    /\ started = FALSE /\ complete = FALSE /\ shut = "idle" /\ toClose = {}
    /\ sig = [s \in Signals |-> "off"]
    /\ conn = [c \in Clients |-> "none"] /\ transport = [c \in Clients |-> "none"]
    /\ sched = "open"
    /\ lateConnect \in BOOLEAN

-----------------------------------------------------------------------------
(* ServiceLifecycle.                                                       *)

\* Faulty: a late failure of start() overwrites STOPPED.
FailedAlways(l) == "FAILED"

\* transition_to_failed()
Failed(l) == IF Terminal(l) THEN l ELSE "FAILED"

\* start_draining(), also from STARTING.
Draining(l) == IF l \in {"RUNNING", "STARTING"} THEN "DRAINING" ELSE l

-----------------------------------------------------------------------------
(* server.stop().  AsyncTcpServer.stop() clears every handler's running    *)
(* flag, closes its transport and feeds end of file to its reader; only    *)
(* then the socket is closed, and wait_closed() waits for all connections. *)

Hangup(t) == IF t = "open" THEN "closing" ELSE t

HandlersStopped == transport' = [c \in Clients |-> IF c \in Registered THEN Hangup(transport[c]) ELSE transport[c]]

AllClosed == \A c \in Clients : transport[c] \in {"none", "closed"}

-----------------------------------------------------------------------------
(* The runner and start().                                                 *)

\* install_signal_handlers().
InstallHandlers ==
    /\ main = "entering"
    /\ main' = "binding"
    /\ UNCHANGED <<life, exit, interrupted, bound, socketVars, shutdownVars, sig, clientVars, sched>>

\* parse_tcp_uri() or the bind fails: nothing to clean up.
StartFails ==
    /\ main = "binding"
    /\ life' = Failed(life)
    /\ main' = "removing" /\ exit' = "1"
    /\ UNCHANGED <<interrupted, bound, socketVars, shutdownVars, sig, clientVars, sched>>

\* The socket listens; start_server() gives the loop one more turn.
Listens ==
    /\ main = "binding"
    /\ listener' = "open"
    /\ main' = "bound"
    /\ UNCHANGED <<life, exit, interrupted, bound, admin, adminRef, adminBusy, shutdownVars, sig, clientVars, sched>>

\* The end of start(): transition_to_running() raises when a signal came
\* first, and the partial start is undone, as far as the server goes.
FinishStart ==
    IF life = "STARTING"
    THEN /\ life' = "RUNNING"
         /\ main' = "waiting"
    ELSE /\ life' = Failed(life)
         /\ main' = "undo"

\* start_fake_tts_server() returns; the admin server, if any, starts to bind.
ServerReturned ==
    /\ main = "bound"
    /\ bound' = TRUE
    /\ \/ /\ AdminEnabled
          /\ main' = "admin" /\ admin' = "starting" /\ adminRef' = TRUE
          /\ UNCHANGED life
       \/ /\ ~AdminEnabled
          /\ FinishStart
          /\ UNCHANGED <<admin, adminRef>>
    /\ UNCHANGED <<exit, interrupted, listener, adminBusy, shutdownVars, sig, clientVars, sched>>

\* AdminHttpServer.start() returns, or fails to bind, which is not fatal.
AdminReturned ==
    /\ main = "admin"
    /\ \/ admin' = "open" /\ UNCHANGED adminRef
       \/ admin' = "closed" /\ adminRef' = FALSE
    /\ FinishStart
    /\ UNCHANGED <<exit, interrupted, bound, listener, adminBusy, shutdownVars, sig, clientVars, sched>>

\* except Exception: await self.server.stop(), in two turns.
UndoStops ==
    /\ main = "undo"
    /\ HandlersStopped
    /\ main' = "undoClose"
    /\ UNCHANGED <<life, exit, interrupted, bound, socketVars, shutdownVars, sig, conn, sched>>

UndoCloses ==
    /\ main = "undoClose"
    /\ listener' = "closed"
    /\ main' = "undoWait"
    /\ UNCHANGED <<life, exit, interrupted, bound, admin, adminRef, adminBusy, shutdownVars, sig, clientVars, sched>>

UndoEnds ==
    /\ main = "undoWait" /\ AllClosed
    /\ main' = "removing" /\ exit' = "1"
    /\ UNCHANGED <<life, interrupted, bound, socketVars, shutdownVars, sig, clientVars, sched>>

\* wait_for_shutdown() returns.
RunnerWakes ==
    /\ main = "waiting" /\ complete
    /\ main' = "removing"
    /\ exit' = IF life = "STOPPED" THEN "0" ELSE "1"
    /\ UNCHANGED <<life, interrupted, bound, socketVars, shutdownVars, sig, clientVars, sched>>

\* remove_signal_handlers(): cancel what is left of the signal tasks ...
RemoveHandlers ==
    /\ main = "removing"
    /\ main' = "reaping"
    /\ sig' = [s \in Signals |-> CASE sig[s] = "due"                     -> "ended"
                                   [] sig[s] \in {"shutting", "waiting"} -> "cancelled"
                                   [] OTHER                              -> sig[s]]
    /\ UNCHANGED <<life, exit, interrupted, bound, socketVars, shutdownVars, clientVars, sched>>

\* ... and await them.
RunnerExits ==
    /\ main = "reaping"
    /\ \A s \in Signals : sig[s] \in {"off", "ended"}
    /\ main' = "closing"
    /\ UNCHANGED <<life, exit, interrupted, bound, socketVars, shutdownVars, sig, clientVars, sched>>

\* asyncio.run() cancels what is left and closes the loop; run_server() returns.
LoopCloses ==
    /\ main = "closing"
    /\ main' = "exited"
    /\ UNCHANGED <<life, exit, interrupted, bound, socketVars, shutdownVars, sig, clientVars, sched>>

\* CancelledError in a signal task: shutdown()'s finally releases the others.
SignalCancelled(s) ==
    /\ sig[s] = "cancelled"
    /\ sig' = [sig EXCEPT ![s] = "ended"]
    /\ complete' = (complete \/ shut \notin {"idle", "over"})
    /\ shut' = IF shut = "idle" THEN "idle" ELSE "over"
    /\ UNCHANGED <<life, runnerVars, socketVars, started, toClose, clientVars, sched>>

-----------------------------------------------------------------------------
(* Signals and shutdown().                                                 *)

\* The loop's signal callback creates a task.
SignalArrives(s) ==
    /\ sig[s] = "off" /\ main \notin {"entering", "reaping", "closing", "exited"}
    /\ sig' = [sig EXCEPT ![s] = "due"]
    /\ UNCHANGED <<life, runnerVars, socketVars, shutdownVars, clientVars, sched>>

\* A signal before the handlers are installed, or after they are removed:
\* SIGINT ends asyncio.run() with a KeyboardInterrupt, whose handler answers 0
\* whatever the lifecycle says; SIGTERM kills.
SignalUnhandled(s) ==
    /\ sig[s] = "off" /\ main \in {"entering", "reaping", "closing"}
    /\ sig' = [sig EXCEPT ![s] = "ended"]
    /\ main' = "exited"
    /\ \/ exit' = "0" /\ interrupted' = TRUE
       \/ exit' = "killed" /\ UNCHANGED interrupted
    /\ UNCHANGED <<life, bound, socketVars, shutdownVars, clientVars, sched>>

\* Faulty: a second signal does not wait, it ends the shutdown.
SignalJoinsEarly(s) ==
    /\ sig[s] = "due" /\ started
    /\ sig' = [sig EXCEPT ![s] = "ended"]
    /\ complete' = TRUE
    /\ UNCHANGED <<life, runnerVars, socketVars, started, shut, toClose, clientVars, sched>>

\* A later signal waits for the shutdown of the first one.
SignalJoins(s) ==
    /\ sig[s] = "due" /\ started
    /\ sig' = [sig EXCEPT ![s] = IF complete THEN "ended" ELSE "waiting"]
    /\ UNCHANGED <<life, runnerVars, socketVars, shutdownVars, clientVars, sched>>

SignalReleased(s) ==
    /\ sig[s] = "waiting" /\ complete
    /\ sig' = [sig EXCEPT ![s] = "ended"]
    /\ UNCHANGED <<life, runnerVars, socketVars, shutdownVars, clientVars, sched>>

\* shutdown() in a state that is terminal already, or before start() has a
\* server (then there is nothing to stop and no suspension), or for real.
SignalShutsDown(s) ==
    /\ sig[s] = "due" /\ ~started
    /\ started' = TRUE
    /\ \/ /\ Terminal(life)
          /\ complete' = TRUE /\ shut' = "over" /\ sig' = [sig EXCEPT ![s] = "ended"]
          /\ UNCHANGED life
       \/ /\ ~Terminal(life) /\ ~bound
          /\ life' = "STOPPED"
          /\ complete' = TRUE /\ shut' = "over" /\ sig' = [sig EXCEPT ![s] = "ended"]
       \/ /\ ~Terminal(life) /\ bound
          /\ life' = Draining(life)
          /\ shut' = "stop" /\ sig' = [sig EXCEPT ![s] = "shutting"]
          /\ UNCHANGED complete
    /\ UNCHANGED <<runnerVars, socketVars, toClose, clientVars, sched>>

\* The task that executes shutdown() may go on.
Executing(stage) == shut = stage /\ \E s \in Signals : sig[s] = "shutting"

\* except Exception: the state fails, then handlers and admin are still closed.
ShutdownFails ==
    /\ life' = Failed(life)
    /\ toClose' = Registered
    /\ shut' = "failHandlers"

\* Faulty: no finally.
ShutdownOverSilently ==
    /\ complete' = complete /\ shut' = "over"
    /\ sig' = [s \in Signals |-> IF sig[s] = "shutting" THEN "ended" ELSE sig[s]]

\* finally: wake the runner and the other signals.
ShutdownOver ==
    /\ complete' = TRUE /\ shut' = "over"
    /\ sig' = [s \in Signals |-> IF sig[s] = "shutting" THEN "ended" ELSE sig[s]]

ListenerStops ==
    /\ Executing("stop")
    /\ HandlersStopped
    /\ shut' = "close"
    /\ UNCHANGED <<life, runnerVars, socketVars, started, complete, toClose, sig, conn, sched>>

\* Faulty: trusts AsyncTcpServer.stop() with the socket.
ListenerKept ==
    /\ Executing("close")
    /\ shut' = "wait"
    /\ UNCHANGED <<life, runnerVars, socketVars, started, complete, toClose, sig, clientVars, sched>>

ListenerCloses ==
    /\ Executing("close")
    /\ listener' = "closed"
    /\ shut' = "wait"
    /\ UNCHANGED <<life, runnerVars, admin, adminRef, adminBusy, started, complete, toClose, sig,
                   clientVars, sched>>

\* The connections are closed.  STOPPING and the scheduler's drain follow in
\* the same turn; if start() has failed in the meantime the transition raises.
\* A session whose phrase waits in the queue is drained: if its deadline
\* overwrites the reason before it resumes, nobody counts it off and
\* _drain_done is never set ("lost": shutdown() stays there for ever).
ListenerClosed ==
    /\ Executing("wait") /\ AllClosed
    /\ \/ /\ life = "DRAINING"
          /\ life' = "STOPPING" /\ sched' = "draining"
          /\ \/ shut' = "drain"
             \/ (\E c \in Clients : conn[c] = "session") /\ shut' = "lost"
          /\ UNCHANGED toClose
       \/ /\ life # "DRAINING"
          /\ ShutdownFails
          /\ UNCHANGED sched
    /\ UNCHANGED <<runnerVars, socketVars, started, complete, sig, clientVars>>

\* scheduler.shutdown() returns once the active request is gone.
SchedulerDrained ==
    /\ Executing("drain")
    /\ \A c \in Clients : ~Busy(c)
    /\ toClose' = Registered
    /\ shut' = "handlers"
    /\ UNCHANGED <<life, runnerVars, socketVars, started, complete, sig, clientVars, sched>>

\* It raises when the task it cancelled and awaits ends with an exception.
SchedulerRaises ==
    /\ Executing("drain")
    /\ ShutdownFails
    /\ UNCHANGED <<runnerVars, socketVars, started, complete, sig, clientVars, sched>>

\* await handler.disconnect(): at once if the handler is in its own disconnect().
HandlerClosed(c) ==
    /\ Executing("handlers") \/ Executing("failHandlers")
    /\ c \in toClose
    /\ toClose' = toClose \ {c}
    /\ conn' = [conn EXCEPT ![c] = IF @ \in {"leaving", "gone"} THEN @ ELSE "gone"]
    /\ transport' = [transport EXCEPT ![c] = Hangup(@)]
    /\ UNCHANGED <<life, runnerVars, socketVars, started, complete, shut, sig, sched>>

\* _stop_admin() begins; stop() on a server that is still starting finds nothing.
AdminStops ==
    /\ Executing("handlers") \/ Executing("failHandlers")
    /\ toClose = {}
    /\ shut' = IF shut = "handlers" THEN "admin" ELSE "failAdmin"
    /\ admin' = IF adminRef /\ admin = "open" THEN "closed" ELSE admin
    /\ UNCHANGED <<life, runnerVars, listener, adminRef, adminBusy, started, complete, toClose, sig,
                   clientVars, sched>>

\* wait_closed() has seen the last admin connection; the last transition.
AdminStopped ==
    /\ Executing("admin") \/ Executing("failAdmin")
    /\ ~adminBusy
    /\ adminRef' = FALSE
    /\ \/ /\ shut = "admin" /\ life = "STOPPING"
          /\ life' = "STOPPED"
          /\ ShutdownOver
          /\ UNCHANGED toClose
       \/ /\ shut = "admin" /\ life # "STOPPING"
          /\ ShutdownFails
          /\ UNCHANGED <<complete, sig>>
       \/ /\ shut = "failAdmin"
          /\ ShutdownOver
          /\ UNCHANGED <<life, toClose>>
    /\ UNCHANGED <<runnerVars, listener, admin, adminBusy, started, clientVars, sched>>

-----------------------------------------------------------------------------
(* Clients and their handlers.                                             *)

\* The loop accepts a connection; start() has its server before the handler
\* runs.  Between the stopping of the handlers and
\* the closing of the socket it still does (lateConnect).
Connect(c) ==
    /\ listener = "open" /\ bound /\ conn[c] = "none"
    /\ main = "undoClose" \/ shut = "close" => lateConnect
    /\ conn' = [conn EXCEPT ![c] = "open"]
    /\ transport' = [transport EXCEPT ![c] = "open"]
    /\ UNCHANGED <<life, runnerVars, socketVars, shutdownVars, sig, sched>>

\* synthesize: checked against the lifecycle first, admitted a little later
\* (cancel_new_request() and a sleep(0) lie in between).
LegacyChecked(c) ==
    /\ conn[c] = "open" /\ transport[c] = "open"
    /\ life = "RUNNING"
    /\ conn' = [conn EXCEPT ![c] = "checked"]
    /\ UNCHANGED <<life, runnerVars, socketVars, shutdownVars, sig, transport, sched>>

\* synthesize-start: a progressive session, whatever the lifecycle says.
StreamStarts(c) ==
    /\ conn[c] = "open" /\ transport[c] = "open"
    /\ conn' = [conn EXCEPT ![c] = "session"]
    /\ UNCHANGED <<life, runnerVars, socketVars, shutdownVars, sig, transport, sched>>

\* Faulty: a request enters a scheduler that drains.
AdmittedAlways(c) ==
    /\ conn[c] \in {"checked", "session"}
    /\ conn' = [conn EXCEPT ![c] = IF @ = "checked" THEN "legacy" ELSE "phrase"]
    /\ UNCHANGED <<life, runnerVars, socketVars, shutdownVars, sig, transport, sched>>

\* SpeechScheduler.run() takes the request or the next phrase.
Admitted(c) ==
    /\ conn[c] \in {"checked", "session"} /\ sched = "open"
    /\ conn' = [conn EXCEPT ![c] = IF @ = "checked" THEN "legacy" ELSE "phrase"]
    /\ UNCHANGED <<life, runnerVars, socketVars, shutdownVars, sig, transport, sched>>

\* Refused while draining; or the session comes to its end.
Refused(c) ==
    /\ \/ conn[c] = "checked" /\ sched = "draining"
       \/ conn[c] = "session"
    /\ conn' = [conn EXCEPT ![c] = "open"]
    /\ UNCHANGED <<life, runnerVars, socketVars, shutdownVars, sig, transport, sched>>

\* The synthesis ends, by itself, by its deadlines, or cancelled.
Synthesized(c) ==
    /\ Busy(c)
    /\ conn' = [conn EXCEPT ![c] = IF @ = "legacy" THEN "open" ELSE "session"]
    /\ UNCHANGED <<life, runnerVars, socketVars, shutdownVars, sig, transport, sched>>

\* A handler that reads finds end of file: its own disconnect() begins, which
\* cancels a session.  A handler inside a legacy request reads no events.
HandlerLeaves(c) ==
    /\ conn[c] \in {"open", "session", "phrase"} /\ transport[c] # "open"
    /\ conn' = [conn EXCEPT ![c] = "leaving"]
    /\ UNCHANGED <<life, runnerVars, socketVars, shutdownVars, sig, transport, sched>>

HandlerGone(c) ==
    /\ conn[c] = "leaving"
    /\ conn' = [conn EXCEPT ![c] = "gone"]
    /\ UNCHANGED <<life, runnerVars, socketVars, shutdownVars, sig, transport, sched>>

\* The peer goes away ...
ClientLeaves(c) ==
    /\ transport[c] = "open"
    /\ transport' = [transport EXCEPT ![c] = "closed"]
    /\ UNCHANGED <<life, runnerVars, socketVars, shutdownVars, sig, conn, sched>>

\* ... or takes what a closing transport still has to send.
Flushed(c) ==
    /\ transport[c] = "closing"
    /\ transport' = [transport EXCEPT ![c] = "closed"]
    /\ UNCHANGED <<life, runnerVars, socketVars, shutdownVars, sig, conn, sched>>

\* An admin request is served within its read timeout.
AdminAccepts ==
    /\ admin = "open" /\ ~adminBusy
    /\ adminBusy' = TRUE
    /\ UNCHANGED <<life, runnerVars, listener, admin, adminRef, shutdownVars, sig, clientVars, sched>>

AdminAnswers ==
    /\ adminBusy
    /\ adminBusy' = FALSE
    /\ UNCHANGED <<life, runnerVars, listener, admin, adminRef, shutdownVars, sig, clientVars, sched>>

-----------------------------------------------------------------------------
Runner == \/ InstallHandlers \/ StartFails \/ Listens \/ ServerReturned \/ AdminReturned
          \/ UndoStops \/ UndoCloses \/ UndoEnds
          \/ RunnerWakes \/ RemoveHandlers \/ RunnerExits \/ LoopCloses

SignalTask(s) == \/ SignalShutsDown(s) \/ SignalJoins(s) \/ SignalReleased(s) \/ SignalCancelled(s)

ShutdownStep == \/ ListenerStops \/ ListenerCloses \/ ListenerClosed \/ SchedulerDrained
                \/ (\E c \in Clients : HandlerClosed(c)) \/ AdminStops \/ AdminStopped

HandlerStep(c) == \/ Admitted(c) \/ Refused(c) \/ Synthesized(c) \/ HandlerLeaves(c) \/ HandlerGone(c)

Client(c) == Connect(c) \/ LegacyChecked(c) \/ StreamStarts(c) \/ ClientLeaves(c) \/ Flushed(c)

\* The loop runs the coroutines until the runner has returned.
Looping == main \notin {"closing", "exited"}

Next ==
    /\ \/ Runner
       \/ \E s \in Signals : SignalUnhandled(s)
       \/ /\ Looping
          /\ \/ \E s \in Signals : SignalArrives(s) \/ SignalTask(s)
             \/ ShutdownStep \/ SchedulerRaises
             \/ \E c \in Clients : HandlerStep(c) \/ Client(c)
             \/ AdminAccepts \/ AdminAnswers
    /\ UNCHANGED lateConnect

Spec == Init /\ [][Next]_vars

\* What a synthesis must end by: the socket is gone, or the grace period of the
\* scheduler's shutdown cancels it.  Before that a peer that does not read may
\* hold it.
MustEnd(c) == transport[c] = "closed" \/ Executing("drain")

\* Ready coroutines run; a peer takes what a closing socket still has to send,
\* or is found gone; an admin request ends.  Nobody has to connect, leave or
\* signal.
Fairness ==
    /\ WF_serviceVars(Runner) /\ WF_serviceVars(Looping /\ ShutdownStep)
    /\ \A s \in Signals : WF_serviceVars(Looping /\ SignalTask(s))
    /\ \A c \in Clients : /\ WF_serviceVars(Looping /\ (HandlerLeaves(c) \/ (MustEnd(c) /\ Synthesized(c))))
                          /\ WF_serviceVars(Looping /\ HandlerGone(c))
                          /\ WF_serviceVars(Looping /\ Flushed(c))
                          /\ WF_serviceVars(Looping /\ conn[c] = "checked" /\ (Admitted(c) \/ Refused(c)))
    /\ WF_serviceVars(Looping /\ AdminAnswers)

FairSpec == Spec /\ Fairness

-----------------------------------------------------------------------------
(* Properties.                                                             *)

TypeOK ==
    /\ life \in Lives
    /\ main \in {"entering", "binding", "bound", "admin", "undo", "undoClose", "undoWait", "waiting",
                 "removing", "reaping", "closing", "exited"}
    /\ exit \in {"none", "0", "1", "killed"}
    /\ interrupted \in BOOLEAN /\ bound \in BOOLEAN /\ adminRef \in BOOLEAN /\ adminBusy \in BOOLEAN
    /\ started \in BOOLEAN /\ complete \in BOOLEAN
    /\ listener \in {"none", "open", "closed"}
    /\ admin \in {"none", "starting", "open", "closed"}
    /\ shut \in {"idle", "stop", "close", "wait", "drain", "handlers", "admin",
                 "failHandlers", "failAdmin", "lost", "over"}
    /\ toClose \subseteq Clients
    /\ sig \in [Signals -> {"off", "due", "shutting", "waiting", "cancelled", "ended"}]
    /\ conn \in [Clients -> {"none", "open", "checked", "session", "legacy", "phrase", "leaving", "gone"}]
    /\ transport \in [Clients -> {"none", "open", "closing", "closed"}]
    /\ sched \in {"open", "draining"}
    /\ lateConnect \in BOOLEAN

\* wait_for_shutdown() and the other signals are released only when shutdown()
\* is over, and then the state is final, unless the runner gave up a start or
\* the process is dying of a signal without a handler.
ReleasedOnlyWhenOver ==
    complete => /\ shut = "over"
                /\ Terminal(life) \/ exit \notin {"none", "0"} \/ interrupted

\* Unless a Ctrl-C found no handler installed (wyoming_server.py:2009), the
\* runner answers 0 only for a service that is closed: no socket listens,
\* nothing is being synthesised, and a handler that is left is already inside
\* its own disconnect().
CleanExit ==
    exit = "0" /\ ~interrupted =>
        /\ life = "STOPPED"
        /\ listener = "closed" /\ admin # "open"
        /\ \A c \in Registered : conn[c] = "leaving"

\* The state only moves forward and a terminal state is final, although start()
\* and shutdown() may both be changing it.
Rank(l) == CASE l = "STARTING" -> 0 [] l = "RUNNING"  -> 1 [] l = "DRAINING" -> 2
             [] l = "STOPPING" -> 3 [] OTHER -> 4

LifecycleForward ==
    [][life' # life => Rank(life) < Rank(life')]_life

\* A service that was started admits nothing to the scheduler once it is STOPPING.
NoAdmissionWhenStopping ==
    [][\A c \in Clients : ~Busy(c) /\ Busy(c)' /\ main = "waiting"
            => life \notin {"STOPPING", "STOPPED"}]_vars

\* A signal ends the process, with two exceptions: a client that connects after
\* the handlers were stopped and before the socket is, for which wait_closed()
\* then waits (wyoming_server.py:1902-1917); and a drained waiter that is never
\* counted off, for which the scheduler's shutdown waits (scheduler.py:335).
SignalTerminates ==
    \A s \in Signals :
        sig[s] = "due" /\ ~lateConnect ~> main = "exited" \/ shut = "lost"

=============================================================================
