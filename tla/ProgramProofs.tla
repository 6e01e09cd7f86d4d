---------------------------- MODULE ProgramProofs ----------------------------
(***************************************************************************)
(* Theorems about the two programs: the service (ServiceCoordinator), for  *)
(* any number of clients and signals, with and without the admin server;   *)
(* and the smoke harness (SmokeHarness), for any variables of the          *)
(* environment and any number of reads.                                    *)
(***************************************************************************)
EXTENDS ServiceCoordinator, SmokeHarness, TLAPS

(* The inductive invariant.                                                *)

\* A start that has no server yet has nothing a shutdown could stop.
Starting ==
    /\ bound => main \notin {"entering", "binding", "bound"}
    /\ main \in {"admin", "waiting"} => bound
    /\ main \in {"entering", "binding", "bound"} => admin = "none"
    /\ life = "STARTING" => shut = "idle"
    /\ main = "admin" /\ shut = "idle" => adminRef

\* The event of wait_for_shutdown() is set by the end of shutdown() alone.
Released ==
    /\ complete <=> shut = "over"
    /\ ~started => shut = "idle"
    /\ shut \notin {"idle", "over"} => bound /\ life # "STOPPED"
    /\ shut \in {"failHandlers", "failAdmin"} => Terminal(life)
    /\ complete => Terminal(life) \/ exit \notin {"none", "0"} \/ interrupted

\* What the stages of shutdown() have closed stays closed.
Closing ==
    /\ shut \in {"wait", "drain", "handlers", "admin"} => listener = "closed"
    /\ shut \in {"handlers", "admin"} =>
          \A c \in Clients \ toClose : conn[c] \in {"none", "leaving", "gone"}
    /\ shut = "admin" => toClose = {}
    /\ main = "waiting" /\ shut \in {"admin", "failAdmin"} => admin # "open"
    /\ main = "waiting" /\ admin = "open" => adminRef
    /\ main = "waiting" /\ life \in {"STOPPING", "STOPPED"} => sched = "draining"

\* A service that was started and is closed.
Clean ==
    /\ life = "STOPPED"
    /\ listener = "closed" /\ admin # "open"
    /\ \A c \in Clients : conn[c] \in {"none", "leaving", "gone"}

\* The exit code is decided when the runner goes to its end, and not before.
Exits ==
    /\ main \in {"removing", "reaping", "closing", "exited"} <=> exit # "none"
    /\ \A s \in Signals : sig[s] = "cancelled" => main \in {"reaping", "exited"}
    /\ exit = "0" /\ ~interrupted => Clean
    /\ main = "waiting" /\ life = "STOPPED" => Clean

IInv == TypeOK /\ Starting /\ Released /\ Closing /\ Exits

-----------------------------------------------------------------------------
(* Every step keeps it.                                                    *)

\* The runner's own steps.
LEMMA RunnerKeeps ==
    ASSUME IInv, Runner, UNCHANGED lateConnect
    PROVE  IInv'
<1> USE DEF IInv, TypeOK, Starting, Released, Closing, Exits, Clean,
            runnerVars, socketVars, shutdownVars, clientVars
<1>1. CASE StartFails
  BY <1>1 DEF StartFails, Failed, Terminal, Lives
<1>2. CASE Listens
  BY <1>2 DEF Listens
<1>3. CASE ServerReturned
  <2> USE <1>3 DEF ServerReturned, FinishStart, Failed, Terminal, Lives
  <2>1. bound' \in BOOLEAN /\ adminRef' \in BOOLEAN
    OBVIOUS
  <2>2. TypeOK'
    BY <2>1
  <2>3. Starting'
    BY <2>1
  <2>4. Released'
    BY <2>1
  <2>5. Closing'
    BY <2>1
  <2>6. Exits'
    BY <2>1
  <2> QED
    BY <2>2, <2>3, <2>4, <2>5, <2>6
<1>4. CASE AdminReturned
  <2> USE <1>4 DEF AdminReturned, FinishStart, Failed, Terminal, Lives
  <2>1. adminRef' \in BOOLEAN
    OBVIOUS
  <2>2. TypeOK'
    BY <2>1
  <2>3. Starting'
    BY <2>1
  <2>4. Released'
    BY <2>1
  <2>5. Closing'
    BY <2>1
  <2>6. Exits'
    BY <2>1
  <2> QED
    BY <2>2, <2>3, <2>4, <2>5, <2>6
<1>5. CASE UndoStops
  BY <1>5 DEF UndoStops, HandlersStopped, Hangup
<1>6. CASE UndoCloses
  BY <1>6 DEF UndoCloses
<1>7. CASE UndoEnds
  BY <1>7 DEF UndoEnds
<1>8. CASE RunnerWakes
  BY <1>8 DEF RunnerWakes, Terminal
<1>9. CASE RemoveHandlers
  BY <1>9 DEF RemoveHandlers
<1>10. CASE RunnerExits
  BY <1>10 DEF RunnerExits
<1>11. CASE InstallHandlers
  BY <1>11 DEF InstallHandlers
<1>12. CASE LoopCloses
  BY <1>12 DEF LoopCloses
<1> QED
  BY <1>1, <1>2, <1>3, <1>4, <1>5, <1>6, <1>7, <1>8, <1>9, <1>10, <1>11, <1>12 DEF Runner

\* The tasks of the signals.
LEMMA SignalKeeps ==
    ASSUME IInv, UNCHANGED lateConnect, NEW s \in Signals, SignalArrives(s) \/ SignalTask(s)
    PROVE  IInv'
<1> USE DEF IInv, TypeOK, Starting, Released, Closing, Exits, Clean,
            runnerVars, socketVars, shutdownVars, clientVars
<1>1. CASE SignalArrives(s)
  BY <1>1 DEF SignalArrives
<1>2. CASE SignalShutsDown(s)
  <2> USE <1>2 DEF SignalShutsDown, Terminal, Draining, Lives
  <2>1. started' \in BOOLEAN /\ complete' \in BOOLEAN
    OBVIOUS
  <2>2. TypeOK'
    BY <2>1
  <2>3. Starting'
    BY <2>1
  <2>4. Released'
    BY <2>1
  <2>5. Closing'
    BY <2>1
  <2>6. Exits'
    BY <2>1
  <2> QED
    BY <2>2, <2>3, <2>4, <2>5, <2>6
<1>3. CASE SignalJoins(s)
  BY <1>3 DEF SignalJoins
<1>4. CASE SignalReleased(s)
  BY <1>4 DEF SignalReleased
<1>5. CASE SignalCancelled(s)
  <2> USE <1>5 DEF SignalCancelled, Terminal
  <2>1. complete' \in BOOLEAN
    OBVIOUS
  <2>2. complete' <=> shut' = "over"
    OBVIOUS
  <2>3. TypeOK'
    BY <2>1, <2>2
  <2>4. Starting'
    BY <2>1, <2>2
  <2>5. Released'
    BY <2>1, <2>2
  <2>6. Closing'
    BY <2>1, <2>2
  <2>7. Exits'
    BY <2>1, <2>2
  <2> QED
    BY <2>3, <2>4, <2>5, <2>6, <2>7
<1> QED BY <1>1, <1>2, <1>3, <1>4, <1>5 DEF SignalTask

\* A signal that finds no handler.
LEMMA UnhandledKeeps ==
    ASSUME IInv, UNCHANGED lateConnect, NEW s \in Signals, SignalUnhandled(s)
    PROVE  IInv'
<1> USE DEF IInv, TypeOK, Starting, Released, Closing, Exits, Clean,
            runnerVars, socketVars, shutdownVars, clientVars, SignalUnhandled, Terminal
<1>1. CASE exit' = "0" /\ interrupted' = TRUE
  BY <1>1
<1>2. CASE exit' = "killed" /\ UNCHANGED interrupted
  BY <1>2
<1> QED BY <1>1, <1>2

\* The stages of shutdown().
LEMMA ShutdownKeeps ==
    ASSUME IInv, UNCHANGED lateConnect, ShutdownStep \/ SchedulerRaises
    PROVE  IInv'
<1> USE DEF IInv, TypeOK, Starting, Released, Closing, Exits, Clean,
            runnerVars, socketVars, shutdownVars, clientVars
<1>1. CASE ListenerStops
  BY <1>1 DEF ListenerStops, Executing, HandlersStopped, Hangup
<1>2. CASE ListenerCloses
  BY <1>2 DEF ListenerCloses, Executing
<1>3. CASE ListenerClosed
  BY <1>3 DEF ListenerClosed, Executing, ShutdownFails, Failed, Terminal, Registered, Lives
<1>4. CASE SchedulerDrained
  BY <1>4 DEF SchedulerDrained, Executing, Registered
<1>5. CASE AdminStops
  BY <1>5 DEF AdminStops, Executing
<1>6. CASE AdminStopped
  <2> USE <1>6 DEF AdminStopped, Executing, ShutdownFails, ShutdownOver, Failed, Terminal,
             Registered, Lives
  <2>1. adminRef' \in BOOLEAN /\ complete' \in BOOLEAN
    OBVIOUS
  <2>2. TypeOK'
    BY <2>1
  <2>3. Starting'
    BY <2>1
  <2>4. Released'
    BY <2>1
  <2>5. Closing'
    BY <2>1
  <2>6. Exits'
    BY <2>1
  <2> QED
    BY <2>2, <2>3, <2>4, <2>5, <2>6
<1>7. CASE SchedulerRaises
  BY <1>7 DEF SchedulerRaises, Executing, ShutdownFails, Failed, Terminal, Registered, Lives
<1>8. ASSUME NEW c \in Clients, HandlerClosed(c) PROVE IInv'
  BY <1>8 DEF HandlerClosed, Executing, Hangup
<1> QED BY <1>1, <1>2, <1>3, <1>4, <1>5, <1>6, <1>7, <1>8 DEF ShutdownStep

\* Clients and their handlers.
LEMMA HandlerKeeps ==
    ASSUME IInv, UNCHANGED lateConnect, NEW c \in Clients, HandlerStep(c) \/ Client(c)
    PROVE  IInv'
<1> USE DEF IInv, TypeOK, Starting, Released, Closing, Exits, Clean,
            runnerVars, socketVars, shutdownVars, clientVars
<1>1. CASE Admitted(c)
  BY <1>1 DEF Admitted
<1>2. CASE Refused(c)
  BY <1>2 DEF Refused
<1>3. CASE Synthesized(c)
  BY <1>3 DEF Synthesized, Busy
<1>4. CASE HandlerLeaves(c)
  BY <1>4 DEF HandlerLeaves
<1>5. CASE HandlerGone(c)
  BY <1>5 DEF HandlerGone
<1>6. CASE Connect(c)
  BY <1>6 DEF Connect
<1>7. CASE LegacyChecked(c)
  BY <1>7 DEF LegacyChecked
<1>8. CASE StreamStarts(c)
  BY <1>8 DEF StreamStarts
<1>9. CASE ClientLeaves(c)
  BY <1>9 DEF ClientLeaves
<1>10. CASE Flushed(c)
  BY <1>10 DEF Flushed
<1> QED BY <1>1, <1>2, <1>3, <1>4, <1>5, <1>6, <1>7, <1>8, <1>9, <1>10 DEF HandlerStep, Client

\* The admin server, and steps that change nothing.
LEMMA AdminKeeps ==
    ASSUME IInv, UNCHANGED lateConnect, AdminAccepts \/ AdminAnswers
    PROVE  IInv'
<1> USE DEF IInv, TypeOK, Starting, Released, Closing, Exits, Clean,
            runnerVars, socketVars, shutdownVars, clientVars
<1>1. CASE AdminAccepts
  BY <1>1 DEF AdminAccepts
<1>2. CASE AdminAnswers
  <2> USE <1>2 DEF AdminAnswers
  <2>1. adminBusy' \in BOOLEAN
    OBVIOUS
  <2> QED
    BY <2>1
<1> QED BY <1>1, <1>2

LEMMA StutterKeeps ==
    ASSUME IInv, UNCHANGED vars
    PROVE  IInv'
BY DEF vars, serviceVars, IInv, TypeOK, Starting, Released, Closing, Exits, Clean,
       runnerVars, socketVars, shutdownVars, clientVars

\* The invariant is inductive.
LEMMA Inductive == Spec => []IInv
<1>1. Init => IInv
  BY DEF Init, Lives, Terminal, IInv, TypeOK, Starting, Released, Closing, Exits, Clean
<1>2. IInv /\ [Next]_vars => IInv'
  BY RunnerKeeps, SignalKeeps, UnhandledKeeps, ShutdownKeeps, HandlerKeeps, AdminKeeps, StutterKeeps DEF Next
<1> QED BY <1>1, <1>2, PTL DEF Spec

-----------------------------------------------------------------------------
(* Theorems.                                                               *)

\* Every reachable state of the service is well typed.
THEOREM TypeCorrect == Spec => []TypeOK
<1>1. IInv => TypeOK
  BY DEF IInv
<1> QED BY <1>1, Inductive, PTL

\* Nobody who waits for the end of the service is released before shutdown()
\* is over, and what they see then is final (coordinator.py:226).
THEOREM ReleasedOnlyWhenOverHolds == Spec => []ReleasedOnlyWhenOver
<1>1. IInv => ReleasedOnlyWhenOver
  BY DEF IInv, Released, ReleasedOnlyWhenOver
<1> QED BY <1>1, Inductive, PTL

\* Exit code 0, other than from a KeyboardInterrupt, means closed: no socket
\* listens and no handler works (run_server, wyoming_server.py:2001).
THEOREM CleanExitHolds == Spec => []CleanExit
<1>1. IInv => CleanExit
  BY DEF IInv, Exits, Clean, CleanExit, Registered
<1> QED BY <1>1, Inductive, PTL

\* The lifecycle only moves forward, whoever moves it (lifecycle.py:100-171).
THEOREM LifecycleForwardHolds == Spec => LifecycleForward
<1>1. IInv /\ [Next]_vars => [life' # life => Rank(life) < Rank(life')]_life
  <2> SUFFICES ASSUME IInv, Next, life' # life PROVE Rank(life) < Rank(life')
    BY DEF vars, serviceVars
  <2> USE DEF IInv, TypeOK, Lives, Rank, Terminal, runnerVars, socketVars, shutdownVars,
              clientVars
  <2>1. CASE StartFails \/ ServerReturned \/ AdminReturned
    BY <2>1 DEF StartFails, ServerReturned, AdminReturned, FinishStart, Failed
  <2>2. CASE ListenerClosed \/ SchedulerRaises \/ AdminStopped
    BY <2>2 DEF ListenerClosed, SchedulerRaises, AdminStopped, ShutdownFails, Failed
  <2>3. ASSUME NEW s \in Signals, SignalShutsDown(s) PROVE Rank(life) < Rank(life')
    BY <2>3 DEF SignalShutsDown, Draining
  <2> QED
    BY <2>1, <2>2, <2>3 DEF Next, Runner, SignalTask, ShutdownStep, HandlerStep, Client, Listens,
       UndoStops, UndoCloses, UndoEnds, RunnerWakes, RemoveHandlers, RunnerExits, SignalArrives,
       InstallHandlers, LoopCloses, SignalUnhandled, SignalJoins, SignalReleased, SignalCancelled, ListenerStops, ListenerCloses,
       SchedulerDrained, HandlerClosed, AdminStops, Admitted, Refused, Synthesized,
       HandlerLeaves, HandlerGone, Connect, LegacyChecked, StreamStarts, ClientLeaves, Flushed,
       AdminAccepts, AdminAnswers
<1> QED BY <1>1, Inductive, PTL DEF Spec, LifecycleForward

\* Once the service is STOPPING the scheduler takes nothing new
\* (coordinator.py:190-205).
THEOREM NoAdmissionWhenStoppingHolds == Spec => NoAdmissionWhenStopping
<1>1. IInv /\ [Next]_vars =>
        [\A c \in Clients : ~Busy(c) /\ Busy(c)' /\ main = "waiting"
            => life \notin {"STOPPING", "STOPPED"}]_vars
  <2> SUFFICES ASSUME IInv, Next, NEW c \in Clients, ~Busy(c), Busy(c)', main = "waiting"
               PROVE  life \notin {"STOPPING", "STOPPED"}
    OBVIOUS
  <2>1. sched = "open"
    <3> USE DEF Busy, IInv, TypeOK, clientVars
    <3>1. ASSUME NEW d \in Clients, HandlerStep(d) \/ Client(d) PROVE sched = "open"
      BY <3>1 DEF HandlerStep, Client, Admitted, Refused, Synthesized, HandlerLeaves, HandlerGone,
         Connect, LegacyChecked, StreamStarts, ClientLeaves, Flushed
    <3>2. ASSUME NEW d \in Clients, HandlerClosed(d) PROVE FALSE
      BY <3>2 DEF HandlerClosed
    <3> QED
      BY <3>1, <3>2 DEF Next, Runner, SignalTask, ShutdownStep, StartFails, Listens,
         ServerReturned, AdminReturned, UndoStops, UndoCloses, UndoEnds, RunnerWakes,
         RemoveHandlers, RunnerExits, InstallHandlers, LoopCloses, SignalUnhandled,
         SignalArrives, SignalShutsDown, SignalJoins,
         SignalReleased, SignalCancelled, ListenerStops, ListenerCloses, ListenerClosed,
         SchedulerDrained, SchedulerRaises, AdminStops, AdminStopped, AdminAccepts, AdminAnswers
  <2> QED
    BY <2>1 DEF IInv, Closing
<1> QED BY <1>1, Inductive, PTL DEF Spec, NoAdmissionWhenStopping

-----------------------------------------------------------------------------
(* The harness: what its settings may be.                                  *)

\* A word is an error for every variable that is checked, but two.
LEMMA WordRefused ==
    ASSUME NEW rules \in Checks, NEW name \in DOMAIN rules,
           name \notin {"S2_CODEC_CONTEXT_FRAMES", "ADMIN_HTTP_HOST"}
    PROVE  "word" \notin Unset(name) \cup rules[name]
<1>1. "word" \notin Unset(name)
    BY DEF Unset
<1>2. \A n \in DOMAIN Streaming : "word" \notin Streaming[n]
    BY DEF Streaming
<1>3. \A n \in DOMAIN Sampling : "word" \notin Sampling[n]
    BY DEF Sampling, Finite, Positive
<1>4. \A n \in DOMAIN Switches : "word" \notin Switches[n]
    BY DEF Switches, Switch
<1>5. \A n \in DOMAIN Patience : "word" \notin Patience[n]
    BY DEF Patience, Deadline, Positive
<1>6. \A n \in DOMAIN Admin : n # "ADMIN_HTTP_HOST" => "word" \notin Admin[n]
    BY DEF Admin, Deadline
<1>7. DOMAIN Context = {"S2_CODEC_CONTEXT_FRAMES"}
    BY DEF Context
<1>8. "word" \notin rules[name]
    BY <1>2, <1>3, <1>4, <1>5, <1>6, <1>7 DEF Checks
<1> QED
    BY <1>1, <1>8

\* So an environment that was accepted has none.
LEMMA NoWordAccepted ==
    ASSUME env \in [Tried -> Texts], Reported(env) = {}, NEW name \in Tried \cap Checked,
           env[name] = "word"
    PROVE  name \in {"S2_CODEC_CONTEXT_FRAMES", "ADMIN_HTTP_HOST"}
<1>1. PICK rules \in Checks : name \in DOMAIN rules
    BY DEF Checked
<1>2. name \notin Wrong(env, rules)
    BY <1>1 DEF Reported
<1>3. name \in DOMAIN env \cap DOMAIN rules
    BY <1>1
<1>4. env[name] \in Unset(name) \cup rules[name]
    BY <1>2, <1>3 DEF Wrong
<1> QED
    BY <1>1, <1>4, WordRefused

-----------------------------------------------------------------------------
(* The harness: the invariant.                                             *)

Streams ==
    [open : BOOLEAN, chunked : BOOLEAN, channels : Channels \cup {0}, complete : BOOLEAN,
     reads : 0..MaxReads, total : Nat, ending : {"none", "whole", "cut", "error"}]

HarnessTypeOK ==
    /\ env \in [Tried -> Texts] /\ option \in Options
    /\ stage \in {"start", "probe", "buffered", "opening", "reading", "legacy", "verdict",
                  "over", "crashed"}
    /\ asked \in BOOLEAN /\ buffered \in {"none", "failure", "invalid", "valid"}
    /\ report \in {"none", "skipped", "unavailable", "failed", "verified"}
    /\ stream \in Streams

\* Behind the gate: from the first contact on, and as long as there may be one.
GatePassed ==
    asked \/ stage \notin {"start", "over", "crashed"} => option.real /\ Reported(env) = {}

\* A stream is open while it is read, and has an ending when it is not; a
\* chunked one is never cut unnoticed.
StreamCourse ==
    /\ stage \in {"start", "probe", "buffered", "opening"} => stream = Unopened
    /\ stage = "reading" => stream.open /\ stream.ending = "none"
    /\ stage \in {"legacy", "verdict"} => ~stream.open /\ stream.ending # "none"
    /\ stream.chunked => stream.ending # "cut"

\* There is no report before the end, and it says what was seen.
Reports ==
    /\ stage # "over" => report = "none"
    /\ report = "verified" =>
          buffered = "valid" /\ StreamingOk /\ ~stream.open /\ stream.ending # "none"

HarnessInv == HarnessTypeOK /\ GatePassed /\ StreamCourse /\ Reports

LEMMA HarnessInductive == HarnessSpec => []HarnessInv
<1>0. MaxReads \in Nat
    BY TriedAreVariables
<1>1. HarnessInit => HarnessInv
    <2> SUFFICES ASSUME HarnessInit PROVE HarnessInv
        OBVIOUS
    <2>1. HarnessTypeOK
        <3>1. env \in [Tried -> Texts]
            BY DEF HarnessInit, Environments
        <3>2. Unopened \in Streams
            BY <1>0 DEF Unopened, Streams
        <3> QED
            BY <3>1, <3>2 DEF HarnessInit, HarnessTypeOK
    <2>2. GatePassed /\ StreamCourse /\ Reports
        BY DEF HarnessInit, GatePassed, StreamCourse, Reports, Unopened
    <2> QED
        BY <2>1, <2>2 DEF HarnessInv
<1>2. HarnessInv /\ [HarnessNext]_harnessVars => HarnessInv'
    <2> SUFFICES ASSUME HarnessInv, [HarnessNext]_harnessVars PROVE HarnessInv'
        OBVIOUS
    <2> USE <1>0 DEF HarnessInv, HarnessTypeOK, GatePassed, StreamCourse, Reports
    <2>1. CASE SettingsRefused
        BY <2>1 DEF SettingsRefused, Escapes, StreamingOk, Progressive, Aligned
    <2>2. CASE Begins
        BY <2>2 DEF Begins, Escapes, Ends, StreamingOk, Progressive, Aligned
    <2>3. CASE Probe
        BY <2>3 DEF Probe, Ends, Escapes, StreamingOk, Progressive, Aligned
    <2>4. CASE BufferedRequest
        BY <2>4 DEF BufferedRequest, Escapes, StreamingOk, Progressive, Aligned
    <2>5. CASE StreamOpens
        <3>1. stage = "opening" /\ UNCHANGED <<env, option, asked, buffered>> /\ report = "none"
            BY <2>5 DEF StreamOpens
        <3>2. stream = Unopened /\ option.real /\ Reported(env) = {}
            BY <3>1
        <3>3. CASE stage' = "reading" /\ UNCHANGED report /\ \E h \in Headers : stream' = Opened(h)
            <4>1. PICK h \in Headers : stream' = Opened(h)
                BY <3>3
            <4>2. /\ h.channels \in Channels
                  /\ h.stated \in BOOLEAN /\ h.others \in BOOLEAN /\ h.chunked \in BOOLEAN
                BY DEF Headers
            <4> DEFINE told == h.stated /\ h.others
                       width == IF h.stated THEN h.channels ELSE 0
            <4>3. told \in BOOLEAN /\ width \in Channels \cup {0}
                BY <4>2
            <4>4. stream' = [open |-> TRUE, chunked |-> h.chunked, channels |-> width,
                             complete |-> told, reads |-> 0, total |-> 0, ending |-> "none"]
                BY <4>1 DEF Opened
            <4> HIDE DEF told, width
            <4>5. /\ stream' \in Streams
                  /\ stream'.open /\ stream'.ending = "none"
                BY <4>2, <4>3, <4>4 DEF Streams
            <4> QED
                BY <3>1, <3>2, <3>3, <4>5
        <3>4. CASE stage' = AfterStream /\ stream' = [stream EXCEPT !.ending = "error"] /\ UNCHANGED report
            <4>1. stream' \in Streams /\ ~stream'.open /\ stream'.ending = "error"
                BY <3>2, <3>4 DEF Unopened, Streams
            <4> QED
                BY <3>1, <3>2, <3>4, <4>1 DEF AfterStream
        <3>5. CASE Escapes /\ UNCHANGED stream
            BY <3>1, <3>2, <3>5 DEF Escapes
        <3> QED
            BY <2>5, <3>3, <3>4, <3>5 DEF StreamOpens
    <2>6. CASE StreamReads
        <3>1. PICK size \in ReadSizes :
                     stream' = [stream EXCEPT !.reads = @ + 1, !.total = @ + size]
            BY <2>6 DEF StreamReads
        <3>2. /\ stage = "reading" /\ stream.reads < MaxReads /\ report = "none"
              /\ UNCHANGED <<env, option, stage, asked, buffered, report>>
            BY <2>6 DEF StreamReads
        <3>3. stream.reads + 1 \in 0..MaxReads /\ stream.total + size \in Nat
            BY <3>2, TriedAreVariables DEF Streams
        <3>4. /\ stream' \in Streams
              /\ stream'.open = stream.open /\ stream'.ending = stream.ending
              /\ stream'.chunked = stream.chunked
            BY <3>1, <3>3 DEF Streams
        <3> QED
            BY <3>2, <3>4
    <2>7. CASE StreamEnds
        <3>1. PICK ending \in {"whole", "cut", "error"} :
                 /\ ending = "cut" => ~stream.chunked
                 /\ stream' = [stream EXCEPT !.open = FALSE, !.ending = ending]
            BY <2>7 DEF StreamEnds
        <3>2. /\ stream' \in Streams
              /\ ~stream'.open /\ stream'.ending = ending /\ stream'.chunked = stream.chunked
            BY <3>1 DEF Streams
        <3> QED
            BY <2>7, <3>1, <3>2 DEF StreamEnds, AfterStream
    <2>8. CASE LegacyProbe
        BY <2>8 DEF LegacyProbe, Escapes
    <2>9. CASE Decide
        BY <2>9 DEF Decide, Ends, StreamingOk, Progressive, Aligned
    <2>10. CASE UNCHANGED harnessVars
        BY <2>10 DEF harnessVars, StreamingOk, Progressive, Aligned
    <2> QED
        BY <2>1, <2>2, <2>3, <2>4, <2>5, <2>6, <2>7, <2>8, <2>9, <2>10 DEF HarnessNext
<1> QED
    BY <1>1, <1>2, PTL DEF HarnessSpec

\* "real_backend_verified" is said only of a server whose buffered answer was
\* audio and whose stream closed without an error after several reads that make
\* whole frames, whatever the channels it declared and the sizes of the reads;
\* only of a chunked stream does that mean that it was complete.
THEOREM VerdictEarnedHolds == HarnessSpec => []VerdictEarned
<1>1. HarnessInv => VerdictEarned
    <2> SUFFICES ASSUME HarnessInv, report = "verified" PROVE VerdictEarned
        BY DEF VerdictEarned
    <2>1. buffered = "valid" /\ StreamingOk /\ ~stream.open /\ stream.ending # "none"
        BY DEF HarnessInv, Reports
    <2>2. stream \in Streams /\ (stream.chunked => stream.ending # "cut")
        BY DEF HarnessInv, HarnessTypeOK, StreamCourse
    <2>3. stream.ending \in {"whole", "cut", "error"}
        BY <2>1, <2>2 DEF Streams
    <2> QED
        BY <2>1, <2>2, <2>3 DEF VerdictEarned, StreamingOk, Aligned, Progressive
<1> QED
    BY <1>1, HarnessInductive, PTL

\* A server is contacted only for an operator who asked for it, and only with
\* settings that from_env() could read: whatever variables are set, and to what.
THEOREM NoContactUnaskedHolds == HarnessSpec => []NoContactUnasked
<1>1. HarnessInv => NoContactUnasked
    <2> SUFFICES ASSUME HarnessInv, asked PROVE NoContactUnasked
        BY DEF NoContactUnasked
    <2>1. option.real /\ Reported(env) = {} /\ env \in [Tried -> Texts]
        BY DEF HarnessInv, HarnessTypeOK, GatePassed
    <2> QED
        BY <2>1, NoWordAccepted DEF NoContactUnasked
<1> QED
    BY <1>1, HarnessInductive, PTL
=============================================================================
