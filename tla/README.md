# Formal models of wyoming-s2cpp-tts

A TLA+ development for the Wyoming text-to-speech bridge in this repository.
TLC checks every model on small instances; TLAPS proves the theorems listed
below for every value of the constants. Line numbers in modules and in this
file refer to the repository.

## The system

One asyncio process. Clients (Home Assistant) speak the Wyoming protocol over
TCP; speech is synthesised by one s2.cpp server that can serve one request at a
time, so everything goes through one bounded FIFO scheduler. An operator
imports voice profiles with a command of its own, reads an admin HTTP endpoint,
and has a harness that tries a real backend.

| Component | State it keeps | Operations | Talks to |
|---|---|---|---|
| `SpeechScheduler` (`app/speech/scheduler.py`, `models.py`, `counters.py`) | active entry and task, deque of waiter futures, depth, four events, drain counter, cumulative counters | `run`, `drain`, `shutdown`, `cancel_connection`, `cancel_synthesis`, `cancel_active_for_connection`, `cancel_new_request` | called by handlers, streaming coordinators and the service coordinator |
| `StreamingCoordinator` (`speech/stream_coordinator.py`), `AudioEnvelope` (`envelope.py`), `SynthesisSession` (`session.py`) | pending phrases, one-slot output queue, done/cancelled/draining flags, background task; envelope format, frames, closed | `start`, `feed_text`, `feed_done`, `cancel`, async iteration, the synthesis loop | scheduler (one phrase at a time), backend, consumer task of the handler |
| Wyoming handler (`wyoming_server.py`, `FakeTtsEventHandler`) | session flags, coordinator, consumer task, recorded consumer error, requested voice | `handle_event` for start/chunk/stop/synthesize/describe, `disconnect` | client, streaming coordinator, scheduler, service coordinator, voice directory |
| Backend path (`wyoming_server.py` synthesis functions, `s2_client.py`) | attempt number, deadline, stream, reader thread, metrics | buffered and streamed generation, busy retries, cancellation | s2.cpp over HTTP (a thread per read) |
| `ServiceCoordinator`, `ServiceLifecycle` (`coordinator.py`, `lifecycle.py`) | lifecycle state, server/scheduler/admin references, shutdown flags, handlers, signal tasks | `start`, `shutdown`, `handle_signal`, `remove_signal_handlers`, handler registration | all of the above |
| Audio path (`audio.py`, initial buffer, `envelope.py`) | carry, buffered bytes, cumulative frames | `feed`/`flush`, `wrap` | backend path, coordinator |
| `PhraseAccumulator` (`speech/phrases.py`) | buffer, flags | `feed`, `flush` | coordinator |
| Admin HTTP server (`admin_http.py`) | listener, connection tasks, parser state | parse, route, answer, `stop` | lifecycle, scheduler's snapshot |
| Voice profiles (`voice_cli.py`, `voice_profile.py`, `voice_discovery.py`) | files of a directory, without a lock | import, audit, scan | handler, backend |
| Configuration (`config.py`) | none | `Settings.from_env` | every entry point |
| Smoke harness (`smoke_harness.py`, `scripts/smoke_s2cpp_generate.py`) | counters of one trial | gate, buffered and streaming request, verdict | a real backend |

Hard behaviours: everything of the server runs on one event loop, so its only
interleaving points are `await`s, but timers, task cancellation and clients act
at each of them; cancellation has five sources (wait deadline, disconnect,
barge-in, drain, forced shutdown); threads that read the backend cannot be
stopped; some calls block the loop; shutdown must wait for several parties that
can each fail to report; imports are processes that may die anywhere while the
server scans the same directory. `PROJECT.json` lists the hazards with their
lines and the properties that would catch them.

What makes each component correct:

* scheduler: one synthesis at a time, FIFO, capacity, no lost waiter, exact
  counters, a drain after which nothing starts, a shutdown that returns;
* streaming coordinator and handler: audio in order inside one envelope, one
  terminal answer per session, no synthesis left running for a client that is
  gone, a stop that is always answered, one voice per session;
* backend path: no retry after audio was sent, attempts within the shared
  deadline, no cut audio announced as success, streams and threads given back;
* service coordinator: a life cycle that only moves forward, one shutdown
  whatever the number of signals, everything closed at the exit;
* pure algorithms: no text or audio lost, doubled or reordered, bounds kept;
* admin server: the answer a request deserves, every connection ended;
* voices: what can be discovered is complete, temporary files reclaimed;
* harness: a verdict that is earned, no contact nobody asked for.

## Modules

| Module | Models |
|---|---|
| `SpeechScheduler`, `MCSpeechScheduler` | the scheduler and its counters, all operations |
| `SpeechGate` | what the scheduler promises: a bounded FIFO gate |
| `ProgressiveSession` | the streaming sessions of one connection |
| `BackendRequest` | the plain synthesize path down to the HTTP stream and its thread |
| `ServiceCoordinator` | the life of the process: start, service, signals, shutdown |
| `PhraseAccumulator` | text to phrases |
| `AudioPath`, `MCAudioPath` | bytes of the backend to Wyoming events |
| `AdminHttp`, `MCAdminHttp` | the admin server's parser, connections and stop |
| `VoiceLibrary` | imports, audit and the directory |
| `VoiceRequests`, `MCVoiceRequests` | extends `VoiceLibrary` with a connection that resolves voices and sends backend requests |
| `Configuration` | the environment to settings |
| `SmokeHarness` | extends `Configuration` with the harness's course and verdict |
| `SpeechSchedulerProofs`, `ProgressiveSessionProofs`, `BackendRequestProofs`, `VoiceRequestsProofs`, `AudioPathProofs`, `AdminHttpProofs`, `PhraseAccumulatorProofs` | the theorems about the module each is named after |
| `ProgramProofs` | the theorems about the two programs, the service (`ServiceCoordinator`) and the smoke harness (`SmokeHarness`) |

How they compose: `BackendRequest` and `ProgressiveSession` see the scheduler
through its promise (a line whose head works; granted, refused or cancelled),
which `SpeechScheduler` is shown to keep by refinement of `SpeechGate`;
`ServiceCoordinator` sees the scheduler and the handlers through what it waits
for. `VoiceRequests` and `SmokeHarness` compose by `EXTENDS`.

An action runs one task from a suspension to the next. Definitions whose
comment says "Faulty" are wrong variants of one definition each (a dropped
guard, a missing reset, a swapped order); with the variant in place of the
definition the property it belongs to fails, so each property can tell the code
from a plausible mistake.

### SpeechScheduler

One element of `Requests` is one call of `run()`. `pc` is where its task is
suspended: `waiting` (inside `wait_for`), `operating` (inside `operation()`),
`done`. `asyncio.Lock` is never held across a suspension, so each stretch of
code between two awaits is one action, and a future that one action resolves is
seen by the waiting task only in its own later action. In particular
(Python 3.12 `asyncio.wait_for`) a deadline or a `Task.cancel()` that comes
after the hand-over but before the waiter runs wins over the hand-over; that
window is what `expired`, `cancelReq` and `fut` are for.

`run()` is split into admission (`Reject`, `AdmitActive`, `AdmitWaiting`), the
wait (`WaitTimeout`, `Resume`, `LeaveTimedOut`, `LeaveCancelled`) and the
operation with its finally block (`OperationEnds`: `HandOver` or `GoIdle`,
including the `InvalidStateError` raised by `set_result` on a cancelled
future). `Disconnect` is a handler's `disconnect()` with
`StreamingCoordinator.cancel()`; `CancelNewRequest` is barge-in; `Shutdown`
and the actions of `ShutdownStep` are `drain()` and `shutdown()`.

Abstractions: `_depth` and `_pending` always change together and are one
variable; texts, timestamps, logging and `snapshot()` are left out; the
`clean` result of `shutdown()` is dropped (its only caller ignores it); the
operation is a black box that completes, fails, times out or is cancelled. A
connection has at most one `run()` in flight (a handler runs requests inline, a
coordinator's loop is sequential). `disconnect()` of a legacy connection while
its handler is inside `run()` comes only from the service coordinator, after
`shutdown()` has returned. `cancel_on_client_disconnect` has its default,
True. The task that a forced shutdown cancels and awaits is taken to end when
its `run()` ends; that the await re-raises an exception of that task is part of
`ServiceCoordinator` (`SchedulerRaises`).

Properties: `SingleWorker`, `NoLostWaiter`, `CapacityAccounting`,
`OutcomesCountedOnce`, `DrainGate`, `ShutdownStopsSynthesis`,
`NoStartAfterDrain`, the refinement `ImplementsGate`, and the liveness
properties `EveryWaitEnds`, `EveryWaiterServed`, `ShutdownReturns`.
`ImplementsGate` maps the scheduler to `SpeechGate`: the holder is the
operating request, the line is the deque, preceded by a request that has been
handed the worker and has not resumed. `Finite` are the requests whose operation
ends by itself; the operation of any other ends only when it is cancelled, as
that of a client that does not read what it is sent (`write_event` has no
limit), or of a buffered request whose backend goes on dripping. `EveryWaitEnds`
is checked with no finite operation at all, so the deadline has to end the wait;
`EveryWaiterServed` says that without deadlines a waiter is served, told, or
behind such an operation for ever (`Stalled`), and that nothing else holds it up.

### ProgressiveSession

Four tasks of one connection: the handler (`handler`), the synthesis loop
(`loop`, with the events `toPut` it still owes), the consumer (`consumer`) and
whoever runs `disconnect()`. They share the one-slot queue `output`, the wake-up
event `ready`, and the handler's fields. `wire` is what was written to the
client in the current session; sessions follow one another without a bound,
because `HandleStart` resets everything a new coordinator starts with.

`LoopPuts` is one `put` with all that follows the last one (`NextTurn`, which
may reach the next phrase). `coordinator.cancel()` is `CancelBegins`, then a
wait for the loop, then `CancelEnds`; the consumer and `disconnect()` may both
be inside it. A pending cancellation always wins over an ordinary resumption of
the loop. `outsiders`, chosen in `Init` and never changed, says whether anybody
but the connection itself (barge-in, a forced shutdown) may cancel the loop's
task: the two liveness properties do not hold against those, the safety
properties do.

Abstractions: a text is a number of phrases, a phrase has one audio chunk; the
scheduler is its interface (granted, refused, cancelled), and may raise after
the operation as `SpeechScheduler` shows. A turn may be granted at once or by a
hand-over, after which the loop's task has still to resume (`handed`): nobody
finds it in the scheduler then, so `DisconnectEnds` cancels nothing there, and
the history variable `missed` records that this happened. `session` folds the two flags the
answer looks at. Transport: a peer may stop sending (`gone`: what it sent is
still read, writes still succeed) or the transport may be lost (`lost`: writes
fail and so does the next read, as asyncio's stream reader does). The service
disconnects handlers only after the server closed their transports. The Error
that refuses a second synthesize-start, or a legacy synthesize while the service
stops, is written into the running session (`HandlerRefuses`, at most
`MaxRefusals` different places); `refusals` remembers after how many events of
the session, so that `OneEnvelope` can say that none comes behind the answer. A new
session does not start while the loop of an earlier one is stuck, since that
takes a lost transport.

Properties: `OneEnvelope` (what the client sees, however the session is cut
short), `NoFalseSuccess`, `WorkerReleased`, `NoPhraseAfterCancel`; liveness
`StopAnswered`, `ConnectionEnds`. `WorkerReleased` excepts the missed hand-over and
shows that it takes a lost transport: the loop then resumes, synthesizes for
nobody, and may keep the worker at an output slot that is not emptied.

### BackendRequest

Each request is one `synthesize` event: its place in the line, `send_audio()`
with the generator underneath (`job`), the `S2StreamResult` (`stream`), the
worker thread of the read in progress (`thread`), the metrics and what its
client was sent (`wire`). `urlopen()` and `HTTPResponse.close()` are called on
the event loop, so while a request is in `connect` or `close` no other action
of the loop is enabled (`LoopFree`); threads, clients and deadlines still act.
The three modes are the buffered client, streaming without and with an initial
buffer. A run of audio chunks is one `chunk` on the wire. `left` is a generator
that a failed write abandoned: nobody iterates it, and asyncio's finaliser
closes it in a later turn (`Finalised`). A read of a stream asks for 4096 bytes
and returns, since each receive has a timeout; a buffered `response.read()` asks
for all there is and need not return while the backend goes on sending, nor does
any deadline of the bridge end it. `EveryRequestEnds` therefore excepts a request
that is, or waits behind, such a read (`Stalled`).

Properties: `OneAnswer`, `NoFalseSuccess`, `StreamsReleased`, `OneReader`,
`NothingBegunLate`; liveness `EveryRequestEnds`.

### ServiceCoordinator

The runner (`main`), which may still be inside `start()`, one task per signal,
the first of which executes `shutdown()` (`shut` says where), the handlers
(`conn`) with their transports, the two listeners and the admin connections.
A signal can arrive at any point, also between the two listeners of `start()`,
before the handlers are installed and after they are removed: Ctrl-C then ends
`asyncio.run()` with a KeyboardInterrupt, for which `run_server()` returns 0
whatever the lifecycle says (`interrupted`), and SIGTERM kills the process
(`SignalUnhandled`).
A step of `shutdown()` may raise: the rest of the sequence is then that of the
code's except branch, and the runner is still released. `lateConnect`, chosen
in `Init` and never changed, says whether a client may connect while
`server.stop()` disconnects the handlers; Python's `Server.wait_closed()` then
waits for that client. `lost` is a scheduler that waits for a drained waiter
which its deadline let leave under another reason. `SignalTerminates` names both
as exceptions; `CleanExit` and `ReleasedOnlyWhenOver` except the death by a signal
without a handler.

Properties: `ReleasedOnlyWhenOver`, `CleanExit`, `LifecycleForward`,
`NoAdmissionWhenStopping`; liveness `SignalTerminates`.

### PhraseAccumulator

`feed()` and `flush()` over an alphabet with one or two members of every class
of character the code tells apart, for every text up to `MaxText` and every way
to cut it. A loop of the code is the turns of it that are taken (`Round`,
`EnforceRound`), as many as there are characters, since a turn that does
anything takes one. `NothingLost`: the phrases are contiguous pieces of the text in
its order, none of them blank, and with what is retained they leave out only
white space. `PeriodsDecidedOnce`: within the texts that `PlainText` describes the
phrases do not depend on the cuts. `ChunkingInvariant`, the same claim without
that restriction, is what the documentation says and what fails.

### AudioPath

Bytes are numbers, so that loss and reordering show. The transport cuts a
phrase anywhere; the initial buffer fills to its target or cap; the re-chunker
carries incomplete chunks; the envelope makes one response of all phrases. A
phrase may fail at any byte. The envelope's own exceptions (a second start, a
chunk before any start, a chunk that ends inside a frame) stand for programming
errors of the callers; a phrase here is what the callers produce, one start and
then whole frames, so they do not occur. `AudioIntact` and `OneTimeline` relate what the
client received to what the backend sent and to the clock.

### AdminHttp

A client sends the lines of its request one at a time and may stop anywhere,
hang up or reset; a deadline covers all reads of a request, of the head and of the body. `AnswerDeserved`
compares the parser with a definition of what a request deserves that looks
at the lines received rather than at the parser's state. A request is a request
line, then any lines (`IsRequest`, which the configuration's requests satisfy). Bodies of the answers
are status codes. Liveness: `EveryConnectionEnds`, `StopEnds`.

### VoiceLibrary and VoiceRequests

An import is a sequence of file-system calls (check, create a temporary file,
write, rename, the same for the sidecar); each may fail, the unlink of the
clean-up included (`CleansUp`, at most `MaxStuck` times, whose error the code swallows), and the
process may be killed between any two. Any regular file beside the source is
copied as its sidecar (`Accompanied`), a licence in it or not (`Documented`). Several imports, an audit, removals by the operator and
the server's scans interleave. A file is what the parser looks at, with sizes
scaled down. `VoiceRequests` adds a connection: `Describe` scans, a request
resolves its voice against a fresh scan, a compatibility `synthesize` event may
arrive inside a streaming session, and the backend opens the profile later,
once for each phrase. Properties: `ServedWhole`, `TempsReclaimed`,
`OneVoicePerSession`.

### Configuration and SmokeHarness

A text is its class: not set, blank, no number, below, inside or above the
range, NaN. `Configuration` gives what each variable accepts, which errors are
collected and which conversions raise; variables that take any text are left
out. The checks are tables, one for each group of variables (`Checks`), and the
errors of all of them are reported together. `SmokeHarness` is the real-backend run of the harness: settings, gate,
buffered request, streaming request, verdict, with exceptions that nothing
catches (among them the OverflowError of a port that is none, `FarPort`). A
server may declare any number of channels of `Channels`, or none, and a read
bring any number of bytes of `ReadSizes`. A body that is not chunked reads as
ended where it was cut (`ending`), so `VerdictEarned` claims that a verified stream
was complete only for a chunked one. Properties: `VerdictEarned`,
`NoContactUnasked`.

## Runs and bounds

| Run | Instance | Shows |
|---|---|---|
| `sched_safety` | 4 requests of 4 connections, capacity 3, one with a deadline, which is progressive, none with an operation that must end, barge-in on; 860 000 states | all safety properties, the refinement of the FIFO gate, and that a wait with a deadline ends also behind an operation that does not; four requests overfill a capacity of three, so rejection, a two-deep queue, hand-over and drain with two waiters all happen |
| `sched_serves` | 3 requests, no deadline, no progressive request, two whose operation ends and one whose need not, barge-in on | no hand-over is lost, only an operation without an end holds a waiter up, shutdown returns |
| `sched_permit_leak` | 3 requests | a statement of the repository that the code does not keep (below) |
| `prog` | up to 4 phrases and one refused event a session, generator backend; 225 000 states | what the client sees and what stays in the scheduler; with four phrases one is in the making, one in the slot, one on the wire and one pending |
| `backend` | 2 requests, 2 attempts, all three modes; 188 000 states | the answer, streams, threads and deadlines; two requests are what `OneReader` and a thread that outlives its request need, two attempts are one retry |
| `service` | 2 clients, 2 signals, admin enabled; 205 000 states | signals at every point, with and without handlers; two signals are one that shuts down and one that joins it |
| `phrases`, `phrases_chunking` | texts of up to 5 characters, soft maximum 2, phrase maximum and retained maximum 4; 141 000 states | five characters hold a period with both neighbours and pass every limit |
| `audio` | 3 phrases of up to 11 bytes, chunks of 4 bytes (a rate of 440, frames of 2 bytes, chunks of 5 ms), six policies | every division, with phrases that end inside a frame and inside a chunk |
| `admin` | 2 connections, head limit 6, body limit 2, 27 requests at and around the limits | the parser at its limits, a silent client, stop at any time |
| `voices` | 2 importers, 2 imports, 1 crash, 1 removal, 1 failed clean-up, 2 ids that differ by case, 4 sources (licensed, with a sidecar without licence, bare, malformed), 2 phrases; 1 270 000 states up to the symmetry of the importers and of the two ids, which the liveness-free properties allow | overlapping imports, one of which dies or cannot clean up; an ambiguous directory |
| `smoke` | six variables that stand for the kinds of checks, at most two set, 3 reads of 2 or 4 bytes, 0, 2 or 3 channels; 3 400 000 states | the order of the checks, the gate and the verdict; three reads are one more than the verdict asks for, and two or three of them may or may not fill frames of 4 or 6 bytes |

`CHECK_DEADLOCK FALSE` in these runs: a process in which every request is done
and shutdown has returned, a connection that is closed, a flushed text or a
harness that has reported has nothing left to do. That nothing stops early is
what the liveness properties say.

Fairness:

* scheduler: the event loop runs every ready task and due timer, so `Resume`,
  the two exits of the wait, `WaitTimeout` and the shutdown coroutine are weakly
  fair. An operation is sure to end only once it is cancelled, or if it is one of
  `Finite`: a legacy operation drains its client's socket inside `run()` without a
  deadline, and a progressive one waits for its consumer, so neither need end by
  itself;
* streaming session: the phrase in the scheduler ends, ready tasks run, the
  client reads what it is sent or is found gone (the code has no limit on that
  wait; the hazard list says so), and end of file is read because what a peer
  sent before leaving is finite (strong fairness of `HandlerLeaves`, since those
  events may open further sessions);
* backend: ready tasks run, time passes, a client reads; a call that asks the
  backend for its headers or for 4096 bytes returns, because each receive has a
  timeout. The thread of a buffered read need not;
* admin: a ready handler runs, the deadline comes, a client takes its answer or
  the stop cancels its task;
* service: the runner, the steps of shutdown, the signal tasks and the handlers
  run, a peer takes what a closing transport still has to send or is found gone, an
  admin request ends. A synthesis has to end only when its socket is gone or when
  the grace period of the scheduler's shutdown cancels it.

Nothing forces a client to call, to send, to disconnect, or a signal to arrive.

## Disagreements between the code and what the repository says

Two have a run that finds them:

* `NoPermitLeak`: a waiter that times out or is cancelled between the hand-over
  and its resumption keeps `_active_entry`; nobody is served afterwards
  (docs/PHASE_9_QUEUE_BUSY_TIMEOUT_POLICY.md:20, "No permit-leak paths").
* `ChunkingInvariant`: closing quotes or brackets that arrive after their mark
  become a phrase of their own (docs/ARCHITECTURE.md:210).

The others are visible in the models; the properties of the passing runs are
stated so that they hold in spite of them:

* scheduler.py:271 `set_result` on a future already cancelled makes `run()` of
  an unrelated, finished request raise `InvalidStateError`, which the docstring
  (scheduler.py:105) does not list.
* scheduler.py:187 the timeout branch overwrites the `drain_cancelled` reason,
  so the drain counter may never reach 0 and `shutdown()`, called bounded in
  README.md:82, waits for ever. `ShutdownReturns` is checked without deadlines;
  `SignalTerminates` excepts it.
* scheduler.py:419 `cancel_new_request` also cancels other connections' active
  work (docstring, line 416: "if it belongs to this connection").
* scheduler.py:341 without an active entry `shutdown()` skips the quiescence
  gate, so a cancelled waiter may still be inside `run()` when it returns; and a
  request that finds the worker free goes from CREATED to ACTIVE, which the
  table of models.py:18 does not have.
* stream_coordinator.py:367 a loop cancelled by another party than its own
  `cancel()` puts no sentinel, so the consumer (line 245) and the stop handler
  wait until the connection is disconnected. `StopAnswered` excludes it.
* wyoming_server.py:1689 when a write fails while the next phrase's generator
  runs, closing that generator raises before the coordinator is cancelled; its
  loop may stay blocked on the output slot after the connection is closed
  (docs/PHASE_9_5_IMPLEMENTATION_PLAN.md:234). It holds no worker then.
* wyoming_server.py:1798 when a transport is lost while the worker is on its way
  to the connection's loop, `disconnect()` finds nothing to cancel, and the loop
  may hold the worker for good (the same document and line). `WorkerReleased` and
  `ConnectionEnds` speak of every other moment.
* wyoming_server.py:2009 a Ctrl-C that finds no handler makes `run_server()`
  return 0 for a service that failed or was never stopped; its docstring (line
  1975) says 0 is a clean shutdown. `CleanExit` excepts it.
* wyoming_server.py:1838 no deadline of the bridge ends a buffered read while the
  backend goes on sending. `EveryRequestEnds` excepts it.
* wyoming_server.py:1917 a client that connects while the handlers are being
  stopped keeps `wait_closed()` waiting
  (docs/PHASE_9C_IMPLEMENTATION_PLAN.md:438). `SignalTerminates` excludes it.
* wyoming_server.py:1840 a buffered request cancelled on the loop goes on in its
  thread while the scheduler grants the worker to the next one
  (docs/PHASE_9_5_IMPLEMENTATION_PLAN.md:24). `OneReader` speaks of streams.
* wyoming_server.py:1007 a client that names the default voice `s2-pro`, which
  is "always present" (docs/ARCHITECTURE.md:58), is refused and its connection
  dropped, unless a profile has that name.
* config.py:207 promises strict validation, but a text that is no number makes
  an optional integer None, NaN passes the deadlines, and a negative
  `S2_CODEC_CONTEXT_FRAMES` is accepted and then refused at each request.
* voice_cli.py:252 and 263: an import whose clean-up fails leaves its temporary
  file, without a word in its result; the docstring promises to clean up on any
  failure. `TempsReclaimed` excepts it.
* s2_client.py:388 a stream with a Content-Length, or one that ends with its
  connection, reads as ended where it was cut; the harness verifies such a server
  if the cut is at the end of a frame. `VerdictEarned` says so.
* smoke_harness.py: a `TimeoutError` or `IncompleteRead` in the middle of the
  stream ends the harness without a report.

## Proofs

All theorems hold for every value of the constants allowed by the named
assumptions of the modules.

`SpeechSchedulerProofs`, for any number of requests and connections:

* `TypeCorrect`: `Spec => []TypeOK`.
* `SingleWorkerHolds`: by the inductive invariant `Ownership`. `SingleWorker`
  alone is not inductive, because `Resume` starts an operation without looking
  at the others: a waiter whose future is resolved must own the active entry.
* `NoLostWaiterHolds`: by `Queued`, which adds that only waiting requests with
  an unresolved future are in the deque; it needs `Ownership`.
* `CapacityAccountingHolds`: by `Accounting`, which needs `Queued`: the
  exceptional hand-over skips `_quiescence.set()`, and that is right only
  because the request taken from the deque is still inside `run()`.
* `NoStartAfterDrainHolds`: an action property, from `Ownership`.

In the same module, from the same invariants (together, `Base`):

* `ShutdownStopsSynthesisHolds`: by `Stopping` (while draining the deque is
  empty, and every waiter has a future). `shutdown()` returns past a free worker
  or past quiescence; in the first case the only waiters left are interrupted.
* `DrainGateHolds`: by `Gated`. `_drain_remaining` may exceed the number of the
  drained waiters that are still inside, because one whose deadline has fired
  leaves under another reason and decrements nothing; the invariant is that it
  never falls below.
* `OutcomesCountedOnceHolds`: by `Counting`, with the cardinality of the entries
  counted under each reason.

There too: `ImplementsGateHolds`, the refinement. Every step of the
scheduler is shown to be a step of the gate or a stutter; beyond `Base` it needs
`Entered` (the owner of the active entry has entered `run()` and is not in the
deque). `Resume` is the gate's `Serve`: the hand-over itself changes nothing of
the gate but that the holder is done, because the request handed the worker
still stands first in the line.

`ProgressiveSessionProofs`, for any number of phrases and sessions, either
backend, with and without outsiders:

* `TypeCorrect`; the lengths of the queue and of what the loop owes are part of it.
* `NoPhraseAfterCancelHolds` by the invariant `CancelReaches`: a cancelled
  session has a pending cancellation of the loop's task, or a finished loop.
  The action property alone says nothing about the state a turn is granted in;
  the invariant excludes a cancelled loop that waits in the scheduler undisturbed.
* `WorkerReleasedHolds` by `Counted` (phrases taken and waiting were fed),
  `Sentinel` (the sentinel is put by a loop that is over), `Reaped`, `Settled`
  and `Freed`: the fields of the handler are emptied by three parties, and each
  leaves them empty only when the loop's text is complete or its task cancelled,
  so that after `disconnect()` only last events are left to put, unless it fell
  into a hand-over; `Freed` says that this takes a lost client.

In the same module, for the same sessions: `OneEnvelopeHolds` and
`NoFalseSuccessHolds`. Neither is inductive, because an event passes from the
loop's list through the slot to the wire in steps of two tasks. The invariant
`Sent` has four parts:

* `Chained`: the loop's list is the rest of one phrase or of one end (`Lined`),
  and while a consumer reads, the slot continues the last event written and the
  list continues the slot (`Linked`, with `Follows` for what may come after what).
* `Shape`: what was written is at one of six stages (silent, speaking, closed,
  error, and the two answers), and is not answered while anyone may still write.
* `Complete`: in a session that nobody cancelled, cut or failed, the phrases
  that wait and those taken are all that were fed; a loop that ends its audio has
  spoken all of them, and a finished one has seen its AudioStop written.
* `Standing`: while the client is there and the handler reads or waits, nobody
  has disconnected it, and only the end of the loop's task cancels its session.

The lemmas before it say of `Audio`, `Endings` and tuples what the stages need
(`Grows`: one more event in its turn leads to a next stage; `StagesWhole` and
`StagesTrue`: the stages are what the two properties allow).

`BackendRequestProofs`, for any number of requests and attempts: `TypeCorrect`
(with `Lined`: no request is twice in the line, whoever works is at its head),
and all five safety properties of the run. The invariant is one per request:
`Held` (a thread reads an open stream for a generator that waits for it, the
deadline belongs to an attempt in progress), `Truthful` (an announced end or a
recorded success follows a drained stream) and `Enveloped` (what is on the wire
followed by what the generator owes is one envelope). None of the three
properties on answer, success and streams is inductive alone, because a cancel
or a failed write leaves each of the three half done.

`ProgramProofs`, for any clients and signals of the service: the invariant `IInv`
adds to the types `Starting` (a start without a server has nothing to shut
down), `Released` (the completion event is set by the end of `shutdown()`
alone), `Closing` (what a stage has closed stays closed) and `Exits` (the exit
status is decided when the runner goes to its end, or by a signal that no handler takes).
`CleanExitHolds` speaks of status 0 alone: with status 1, after a failed start,
the admin socket may be open. From it follow
`TypeCorrect`, `ReleasedOnlyWhenOverHolds`, `CleanExitHolds`,
`LifecycleForwardHolds` and `NoAdmissionWhenStoppingHolds`. For the harness,
with any variables set and any number of reads: `HarnessInv` says that whoever is
past the gate was asked for with readable settings (`GatePassed`), that a
stream which is no longer read ended, was cut or failed (`StreamCourse`) and what a
report was made from (`Reports`); hence `VerdictEarnedHolds` and, with the tables
of `Configuration` (`WordRefused`: every table but two variables refuses what is
no number and no switch), `NoContactUnaskedHolds`.

`VoiceRequestsProofs`, for any voices, sources and importers: `LibInv`
(`LibTypeOK`, `SourcesChecked`, `RenamesWhole`: a file about to be renamed holds
the whole of a checked source) gives `ServedWholeHolds` and
`TempsReclaimedHolds`; `VoiceKept` (the next request would be made in the voice
of every one that had one) gives `OneVoicePerSessionHolds`.

`AudioPathProofs`, for any rate, frame size, chunk length, policies, number of
phrases and bytes: `TypeCorrect`, `AudioIntactHolds` and `OneTimelineHolds`. The
last two speak of what the client heard and of the session's clock; to be
inductive they need `Held` (where the bytes of a phrase are: a filling buffer is
within its cap and nothing was yielded, and once audio flows the buffer is
empty and the events are the beginning of a phrase) and `Heard` (the response so far
is one start and chunks whose times add up). The lemmas say of flattening,
cutting and re-chunking sequences what these steps need: a re-chunker that
carries the rest of a chunk yields, with its final flush, the concatenation of
what it was fed, for every division of it.

`AdminHttpProofs`, for any number of connections, any requests that satisfy
`RequestsAssumption` and any limits: `TypeCorrect` and `AnswerDeservedHolds`.
What a request deserves is defined on the lines received, and the parser decides
from counters; the invariant `Parsing` says of each reading phase that the
counters summarise the lines (the sum is the size of the head so far and leaves
room, the Content-Length is the only one the head has, nothing read so far is
malformed, in the body the head is complete and some of the body is missing).
`Answered` is the property for each connection. The attempt showed that two arms
of a CASE in `HeadersEnd` overlapped (no Content-Length is a negative number
there), where TLA+ leaves the choice open and TLC takes the first; the arms are
disjoint now.

`PhraseAccumulatorProofs`, for any limits, any text and any way to cut it:

* `NothingLostHolds`. `NothingLost` is inductive over the calls, but a call is a
  loop: `Intact` says it of one turn, with the phrases of this call between those
  before it and the buffer; `Skip` (white space at the front goes) and `Take`
  (characters at the front become a phrase) show that a turn keeps it, `More`
  that fed text does.
* `RetainedShortHolds`: every turn takes a character, or it does nothing and the
  buffer is within `phrase_max` (`RoundTurn`), so as many turns as characters end
  the loop with at most `phrase_max` left (`ExtractEnds`, `ExtractShort`). Hence
  the second loop of `_extract_phrases`, which enforces `retained_max`, never has
  anything to do (`EnforceIdle`), for whatever limits the constructor accepts.
* `PeriodsDecidedOnceHolds` compares two runs of the loop, one over the whole text
  and one resumed at every chunk. The invariant `Decided` says that for a plain text
  the calls so far have left what one call with all of their text would have.
  A period that can be judged is judged the same with more text behind it
  (`VerdictSame`), and a first boundary, the phrase it ends and the space behind
  it stay where they are (`BoundarySame`, `EndSame`, `RestSame`); so a turn that
  cuts at a boundary commutes with more text (`RoundSame`) and, by induction over
  the length of the buffer, extracting may stop and go on later (`ExtractMore`)
  whatever phrases were returned before (`ExtractBehind`). Each hypothesis of
  `PlainText` is used: beyond `phrase_max` a fallback would cut, and closers or
  space behind a mark at the end of a chunk would be left for a phrase of their
  own (`Calm` is what remains of it for the buffer).

Model-checked only: all liveness (TLAPS has no ENABLED and no fairness), that is
`EveryWaitEnds`, `EveryWaiterServed`, `ShutdownReturns`, `StopAnswered`,
`ConnectionEnds`, `SignalTerminates`, `EveryRequestEnds`, `EveryConnectionEnds`
and `StopEnds`. Every invariant, every action property and the refinement that a
passing run checks is proved.

## Not modelled

* `StreamingCoordinator.stream()` and `drain()`: nothing calls them.
* The WAV parser, `generate_wav()` and the bytes of the multipart body: no event
  handler uses the first two, and of the body only the fields matter that can
  make encoding fail.
* The JSON schema of `voice_schema.py` beyond licence and attribution, and the
  `inspect` and `validate` commands, which read one file and print.
* The contents of the info event, log formatting, the status and metrics
  documents, durations in the metrics: nothing decides on them.
* Benchmark and acceptance scripts run by hand on a live host, container files,
  and the patches to the s2.cpp server, which is another program.

## What could follow

An abstract "one answer per session" protocol refined by `ProgressiveSession`
and by `BackendRequest`; the fake-server run of the harness.
