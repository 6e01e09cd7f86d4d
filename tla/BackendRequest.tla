--------------------------- MODULE BackendRequest ---------------------------
(***************************************************************************)
(* What a plain synthesize event does with the s2.cpp server: send_audio() *)
(* of the handler, the generator synthesize_s2cpp_streaming_tts_events()   *)
(* or its buffered counterpart, and S2StreamResult underneath              *)
(* (app/wyoming_server.py, app/s2_client.py).                              *)
(*                                                                         *)
(* The generator runs on the event loop; the HTTP reads run in threads.    *)
(* urlopen() and HTTPResponse.close() are called on the loop: nothing else *)
(* of the program moves while a request is in "connect" or "close".        *)
(* The scheduler is its promise, a first-in first-out line whose head      *)
(* works (SpeechGate).  A run of audio chunks is one "chunk" on the wire.  *)
(***************************************************************************)
EXTENDS Naturals, Sequences, FiniteSets

CONSTANTS
    Requests,       \* synthesize events, each of a connection of its own
    MaxAttempts     \* S2_BACKEND_BUSY_MAX_RETRIES + 1

ASSUME RequestsAreFinite == IsFiniteSet(Requests)
ASSUME AttemptsArePositive == MaxAttempts \in Nat \ {0}

VARIABLES
    mode,       \* S2_STREAM and the initial buffer settings
    line,       \* the scheduler: the head is inside operation()
    job,        \* send_audio() and the generator of each request
    stream,     \* its S2StreamResult; "drained": the backend ended it
    thread,     \* what its worker thread does, or brought back
    metrics,    \* its MetricsCollector
    wire,       \* what was written to its client
    client

vars == <<mode, line, job, stream, thread, metrics, wire, client>>

Modes == {"buffered", "immediate", "prebuffered"}

Fresh == [pc |-> "new", todo |-> <<>>, then |-> "read", flowing |-> FALSE, seen |-> FALSE,
          attempt |-> 1, late |-> FALSE, cancel |-> FALSE, left |-> FALSE, why |-> "none"]

Init ==
    /\ mode \in Modes
    /\ line = <<>>
    /\ job = [r \in Requests |-> Fresh]
    /\ stream = [r \in Requests |-> "none"]
    /\ thread = [r \in Requests |-> "none"]
    /\ metrics = [r \in Requests |-> "none"]
    /\ wire = [r \in Requests |-> <<>>]
    /\ client = [r \in Requests |-> "connected"]

\* No coroutine sits in a blocking call.
LoopFree == \A r \in Requests : job[r].pc \notin {"connect", "close"}

At(r, pc) == job[r].pc = pc /\ ~job[r].cancel /\ LoopFree

\* The line without r, which is in it once at most.
Without(r) ==
    LET place == CHOOSE k \in DOMAIN line : line[k] = r
    IN  IF \E k \in DOMAIN line : line[k] = r
        THEN [k \in 1..(Len(line) - 1) |-> line[IF k < place THEN k ELSE k + 1]]
        ELSE line

Put(f, r, v) == [f EXCEPT ![r] = v]

-----------------------------------------------------------------------------
(* How an operation ends; its locals are gone then.                        *)

\* What _run_operational() turns into an Error; other exceptions close the
\* connection, a cancellation is silent.
Answered == {"refused", "busy", "timeout", "backend"}

\* run() gives the worker away; the handler answers.
Ends(r, why) ==
    /\ line' = Without(r)
    /\ job' = Put(job, r, [Fresh EXCEPT !.pc = IF why \in Answered THEN "answer" ELSE "done"])

Status(why) == CASE why = "success" -> "success" [] why = "cancelled" -> "cancelled" [] OTHER -> "error"

\* The generator leaves its with block and its except clauses.
Finishes(r, why) ==
    /\ Ends(r, why)
    /\ stream' = Put(stream, r, IF stream[r] = "drained" THEN "drained" ELSE "closed")
    /\ thread' = Put(thread, r, "none")
    /\ metrics' = Put(metrics, r, Status(why))
    /\ UNCHANGED wire

\* Faulty: the response is left to the thread that reads it.
LeavesAtOnce(r, why) ==
    /\ Ends(r, why)
    /\ metrics' = Put(metrics, r, Status(why))
    /\ UNCHANGED <<stream, thread, wire>>

\* response.close() waits for the lock that a read in progress holds.
Leaves(r, why) ==
    IF thread[r] = "reading"
    THEN /\ job' = Put(job, r, [job[r] EXCEPT !.pc = "close", !.why = why])
         /\ UNCHANGED <<line, stream, thread, metrics, wire>>
    ELSE Finishes(r, why)

\* close() returns once the read has: the backend sent something, or its
\* socket timed out.
CloseReturns(r) ==
    /\ job[r].pc = "close" /\ thread[r] # "reading"
    /\ Finishes(r, job[r].why)
    /\ UNCHANGED <<mode, client>>

-----------------------------------------------------------------------------
(* The generator between two suspensions.                                  *)

Emit(w, e) == IF e = "chunk" /\ w # <<>> /\ w[Len(w)] = "chunk" THEN w ELSE Append(w, e)

\* The next event is yielded and written.
Yields(r, j) ==
    /\ job' = Put(job, r, [j EXCEPT !.pc = "write", !.todo = Tail(@)])
    /\ wire' = Put(wire, r, Emit(wire[r], Head(j.todo)))
    /\ thread' = Put(thread, r, "none")
    /\ UNCHANGED <<line, stream, metrics>>

\* Faulty: the deadline is left to the read's own timer.
ReadsUnchecked(r, j) ==
    /\ job' = Put(job, r, [j EXCEPT !.pc = "read"])
    /\ thread' = Put(thread, r, "reading")
    /\ UNCHANGED <<line, stream, metrics, wire>>

\* _read_stream_with_deadline()
Reads(r, j) ==
    IF j.late
    THEN Finishes(r, "timeout")
    ELSE /\ job' = Put(job, r, [j EXCEPT !.pc = "read"])
         /\ thread' = Put(thread, r, "reading")
         /\ UNCHANGED <<line, stream, metrics, wire>>

\* The generator goes on with locals j: it yields, reads, or is over; a
\* partial frame at the end makes flush() raise.
Proceeds(r, j) ==
    \/ j.todo # <<>> /\ Yields(r, j)
    \/ j.todo = <<>> /\ j.then = "read" /\ Reads(r, j)
    \/ j.todo = <<>> /\ j.then = "end" /\ Finishes(r, "success")
    \/ j.todo = <<>> /\ j.then = "bad" /\ Finishes(r, "invalid")

-----------------------------------------------------------------------------
(* The request and its place in the line.                                  *)

Ask(r) ==
    /\ job[r].pc = "new" /\ LoopFree /\ client[r] = "connected"
    /\ line' = Append(line, r)
    /\ job' = Put(job, r, [job[r] EXCEPT !.pc = "queued"])
    /\ UNCHANGED <<mode, stream, thread, metrics, wire, client>>

\* The scheduler is full, or the wait for the worker timed out.
Refused(r) ==
    /\ At(r, "new") \/ At(r, "queued")
    /\ Ends(r, "refused")
    /\ UNCHANGED <<mode, stream, thread, metrics, wire, client>>

Starts(r) ==
    /\ At(r, "queued") /\ line[1] = r
    /\ metrics' = Put(metrics, r, "open")
    /\ IF mode = "buffered"
       THEN job' = Put(job, r, [job[r] EXCEPT !.pc = "thread"]) /\ thread' = Put(thread, r, "posting")
       ELSE job' = Put(job, r, [job[r] EXCEPT !.pc = "connect"]) /\ UNCHANGED thread
    /\ UNCHANGED <<mode, line, stream, wire, client>>

\* urlopen() succeeds and the headers declare a format the bridge knows:
\* AudioStart at once, or only after some audio is in hand.
StreamOpens(r) ==
    /\ job[r].pc = "connect"
    /\ \/ /\ mode = "immediate"
          /\ job' = Put(job, r, [job[r] EXCEPT !.pc = "write", !.flowing = TRUE])
          /\ wire' = Put(wire, r, Emit(wire[r], "start"))
          /\ stream' = Put(stream, r, "open")
          /\ UNCHANGED <<line, thread, metrics>>
       \/ /\ mode = "prebuffered" /\ ~job[r].late
          /\ job' = Put(job, r, [job[r] EXCEPT !.pc = "read"])
          /\ stream' = Put(stream, r, "open")
          /\ thread' = Put(thread, r, "reading")
          /\ UNCHANGED <<line, metrics, wire>>
       \/ /\ mode = "prebuffered" /\ job[r].late
          /\ Finishes(r, "timeout")
    /\ UNCHANGED <<mode, client>>

\* 503 with attempts left.
BackendBusy(r) ==
    /\ job[r].pc = "connect" /\ job[r].attempt < MaxAttempts
    /\ job' = Put(job, r, [job[r] EXCEPT !.pc = "sleep", !.attempt = @ + 1])
    /\ UNCHANGED <<mode, line, stream, thread, metrics, wire, client>>

\* The last 503, an unreachable server, a header timeout, a connection reset
\* before the headers, or a format that is not PCM.
ConnectFails(r) ==
    /\ job[r].pc = "connect"
    /\ \E why \in {"busy", "backend", "timeout", "reset", "invalid"} :
          /\ why = "busy" => job[r].attempt = MaxAttempts
          /\ Finishes(r, why)
    /\ UNCHANGED <<mode, client>>

\* Faulty: each attempt has a deadline of its own.
SleepEndsAfresh(r) ==
    /\ At(r, "sleep")
    /\ job' = Put(job, r, [job[r] EXCEPT !.pc = "connect"])
    /\ UNCHANGED <<mode, line, stream, thread, metrics, wire, client>>

\* The head of the retry loop, outside the try: the metrics stay open when
\* the deadline has passed.
SleepEnds(r) ==
    /\ At(r, "sleep")
    /\ IF job[r].late
       THEN Ends(r, "timeout")
       ELSE job' = Put(job, r, [job[r] EXCEPT !.pc = "connect"]) /\ UNCHANGED line
    /\ UNCHANGED <<mode, stream, thread, metrics, wire, client>>

-----------------------------------------------------------------------------
(* Reading the stream.                                                     *)

Some(k) == IF k = 0 THEN <<>> ELSE <<"chunk">>

\* A transport chunk: it may fill the initial buffer and give audio, or not.
ChunkArrives(r) ==
    /\ thread[r] = "chunk"
    /\ \E k \in 0..1, enough \in BOOLEAN :
          LET flowing == job[r].flowing \/ enough
              todo == IF job[r].flowing THEN Some(k)
                      ELSE IF enough THEN <<"start">> \o Some(k) ELSE <<>>
          IN  Proceeds(r, [job[r] EXCEPT !.seen = TRUE, !.flowing = flowing, !.todo = todo])

\* The end of the stream: what was buffered and carried, then AudioStop; a
\* stream without audio that was to be buffered first sends nothing at all.
StreamEnds(r) ==
    /\ thread[r] = "eof"
    /\ \E k \in 0..1, whole \in BOOLEAN :
          LET begun == job[r].flowing \/ job[r].seen
              audio == (IF job[r].flowing THEN <<>> ELSE <<"start">>) \o Some(k)
              todo == IF ~begun THEN <<>> ELSE IF whole THEN Append(audio, "stop") ELSE audio
          IN  Proceeds(r, [job[r] EXCEPT !.todo = todo, !.then = IF whole \/ ~begun THEN "end" ELSE "bad"])

\* Faulty: an error while reading is retried like a busy backend.
ReadReturnsRetrying(r) ==
    /\ At(r, "read")
    /\ \/ ChunkArrives(r)
       \/ StreamEnds(r)
       \/ /\ thread[r] = "error"
          /\ job' = Put(job, r, [job[r] EXCEPT !.pc = "sleep"])
          /\ UNCHANGED <<line, stream, thread, metrics, wire>>
    /\ UNCHANGED <<mode, client>>

ReadReturns(r) ==
    /\ At(r, "read")
    /\ \/ ChunkArrives(r)
       \/ StreamEnds(r)
       \/ thread[r] = "error" /\ Finishes(r, "backend")
    /\ UNCHANGED <<mode, client>>

\* Faulty: the end that cancel() makes the read see counts as the stream's.
ReadTimesOutAsEnd(r) ==
    /\ At(r, "read") /\ job[r].late
    /\ Proceeds(r, [job[r] EXCEPT !.todo = IF job[r].flowing THEN <<"stop">> ELSE <<>>, !.then = "end"])
    /\ UNCHANGED <<mode, client>>

\* The timer of the read wins over whatever the thread brings.
ReadTimesOut(r) ==
    /\ At(r, "read") /\ job[r].late
    /\ Leaves(r, "timeout")
    /\ UNCHANGED <<mode, client>>

\* The buffered request: its thread validates the audio and cuts it.
PostReturns(r) ==
    /\ At(r, "thread") /\ thread[r] \in {"posted", "failed"}
    /\ \/ /\ thread[r] = "posted"
          /\ \E k \in 0..1 :
                Proceeds(r, [job[r] EXCEPT !.todo = <<"start">> \o Some(k) \o <<"stop">>, !.then = "end"])
       \/ /\ thread[r] = "failed"
          /\ \E why \in {"busy", "backend", "timeout", "reset", "invalid"} : Ends(r, why)
          /\ UNCHANGED <<stream, thread, metrics, wire>>
    /\ UNCHANGED <<mode, client>>

-----------------------------------------------------------------------------
(* Writing, cancelling, answering.                                         *)

WriteCompletes(r) ==
    /\ At(r, "write")
    /\ Proceeds(r, job[r])
    /\ UNCHANGED <<mode, client>>

\* The client is gone: session.disconnect() closes the outer generator; the
\* inner one, suspended in a yield, is dropped with its stream open, for the
\* interpreter's finaliser to close in a task of its own.
Abandons(r) ==
    /\ line' = Without(r)
    /\ job' = Put(job, r, [Fresh EXCEPT !.pc = "done", !.left = mode # "buffered"])
    /\ UNCHANGED <<stream, thread, metrics, wire>>

WriteFails(r) ==
    /\ At(r, "write") /\ client[r] = "gone"
    /\ Abandons(r)
    /\ UNCHANGED <<mode, client>>

\* CancelledError at the suspension the task is in.  A thread that posts the
\* buffered request goes on; a retry pause leaves the metrics open.
CancelArrives(r) ==
    /\ job[r].cancel /\ LoopFree
    /\ \/ job[r].pc \in {"queued", "sleep", "thread"} /\ Ends(r, "cancelled")
          /\ UNCHANGED <<stream, thread, metrics, wire>>
       \/ job[r].pc = "read" /\ Leaves(r, "cancelled")
       \/ job[r].pc = "write" /\ Abandons(r)
    /\ UNCHANGED <<mode, client>>

\* Faulty: the finaliser forgets the response.
FinalisedWithoutClose(r) ==
    /\ job[r].left /\ LoopFree
    /\ job' = Put(job, r, [job[r] EXCEPT !.left = FALSE])
    /\ metrics' = Put(metrics, r, "cancelled")
    /\ UNCHANGED <<mode, line, stream, thread, wire, client>>

\* GeneratorExit reaches the abandoned generator.
Finalised(r) ==
    /\ job[r].left /\ LoopFree
    /\ job' = Put(job, r, [job[r] EXCEPT !.left = FALSE])
    /\ metrics' = Put(metrics, r, "cancelled")
    /\ stream' = Put(stream, r, IF stream[r] = "open" THEN "closed" ELSE stream[r])
    /\ UNCHANGED <<mode, line, thread, wire, client>>

\* The terminal Error of _run_operational().
AnswerWritten(r) ==
    /\ job[r].pc = "answer" /\ LoopFree
    /\ job' = Put(job, r, [job[r] EXCEPT !.pc = "done"])
    /\ wire' = IF client[r] = "gone" THEN wire ELSE Put(wire, r, Append(wire[r], "error"))
    /\ UNCHANGED <<mode, line, stream, thread, metrics, client>>

-----------------------------------------------------------------------------
(* Threads, clients, time.                                                 *)

\* response.read(4096), or the whole buffered request with its metrics.
ThreadReturns(r) ==
    /\ \/ /\ thread[r] = "reading"
          /\ \E brought \in {"chunk", "eof", "error"} : thread' = Put(thread, r, brought)
          /\ stream' = Put(stream, r, CASE thread'[r] = "chunk" -> "open"
                                        [] thread'[r] = "eof" -> "drained"
                                        [] OTHER -> "closed")
          /\ UNCHANGED metrics
       \/ /\ thread[r] = "posting"
          /\ \E ok \in BOOLEAN :
                /\ thread' = Put(thread, r, IF ok THEN "posted" ELSE "failed")
                /\ metrics' = Put(metrics, r, IF ok THEN "success" ELSE "error")
          /\ UNCHANGED stream
    /\ UNCHANGED <<mode, line, job, wire, client>>

DeadlinePasses(r) ==
    /\ mode # "buffered" /\ ~job[r].late
    /\ job[r].pc \in {"connect", "sleep", "read", "write", "close"}
    /\ job' = Put(job, r, [job[r] EXCEPT !.late = TRUE])
    /\ UNCHANGED <<mode, line, stream, thread, metrics, wire, client>>

\* Barge-in or the end of the grace period cancels the task inside run().
CancelRequested(r) ==
    /\ LoopFree /\ ~job[r].cancel
    /\ job[r].pc \in {"queued", "sleep", "read", "write", "thread"}
    /\ job' = Put(job, r, [job[r] EXCEPT !.cancel = TRUE])
    /\ UNCHANGED <<mode, line, stream, thread, metrics, wire, client>>

ClientLeaves(r) ==
    /\ client[r] = "connected" /\ job[r].pc # "done"
    /\ client' = Put(client, r, "gone")
    /\ UNCHANGED <<mode, line, job, stream, thread, metrics, wire>>

Connects(r) == StreamOpens(r) \/ BackendBusy(r) \/ ConnectFails(r)

\* A turn of the loop, or of the call that blocks it, for request r.
Turn(r) ==
    \/ Starts(r) \/ Connects(r) \/ SleepEnds(r) \/ ReadReturns(r) \/ PostReturns(r)
    \/ WriteCompletes(r) \/ CancelArrives(r) \/ CloseReturns(r) \/ Finalised(r) \/ AnswerWritten(r)

Next ==
    \E r \in Requests :
        \/ Ask(r) \/ Refused(r) \/ Turn(r) \/ ReadTimesOut(r) \/ WriteFails(r)
        \/ ThreadReturns(r) \/ DeadlinePasses(r) \/ CancelRequested(r) \/ ClientLeaves(r)

Spec == Init /\ [][Next]_vars

\* Ready tasks run; a call that asks the backend for no more than its headers
\* or 4096 bytes returns, because each recv() has a timeout; time passes; a
\* client reads what it is sent (the code sets no limit on a write).  A buffered
\* response.read() asks for all there is: it need not return while a backend
\* goes on sending.
FairSpec ==
    /\ Spec
    /\ \A r \in Requests :
          /\ WF_vars(Turn(r)) /\ WF_vars(DeadlinePasses(r))
          /\ WF_vars(thread[r] = "reading" /\ ThreadReturns(r))

-----------------------------------------------------------------------------
(* Properties.                                                             *)

Pcs == {"new", "queued", "connect", "sleep", "read", "close", "thread", "write", "answer", "done"}

Jobs == [pc : Pcs, todo : Seq({"start", "chunk", "stop"}), then : {"read", "end", "bad"},
         flowing : BOOLEAN, seen : BOOLEAN, attempt : 1..MaxAttempts, late : BOOLEAN,
         cancel : BOOLEAN, left : BOOLEAN, why : {"none", "timeout", "cancelled"}]

\* Every variable keeps its type.
TypeOK ==
    /\ mode \in Modes
    /\ line \in Seq(Requests)
    /\ job \in [Requests -> Jobs]
    /\ stream \in [Requests -> {"none", "open", "drained", "closed"}]
    /\ thread \in [Requests -> {"none", "reading", "chunk", "eof", "error", "posting", "posted", "failed"}]
    /\ metrics \in [Requests -> {"none", "open", "success", "error", "cancelled"}]
    /\ wire \in [Requests -> Seq({"start", "chunk", "stop", "error"})]
    /\ client \in [Requests -> {"connected", "gone"}]

\* The client sees at most one envelope, in order, and at most one terminal
\* event, after which nothing follows, whatever the attempts, reads and
\* failures in between (wyoming_server.py:606-850, 1745).
OneAnswer ==
    \A r \in Requests :
        wire[r] \in {<<>>, <<"error">>, <<"start">>, <<"start", "chunk">>}
                    \cup {w \o <<e>> : w \in {<<"start">>, <<"start", "chunk">>}, e \in {"stop", "error"}}

\* A streamed request that ends its audio with AudioStop, or reports success,
\* has read its backend to the end: an end of stream that a timeout's or a
\* cancellation's close() provokes is never taken for the backend's.
NoFalseSuccess ==
    \A r \in Requests :
        mode # "buffered" /\ (metrics[r] = "success" \/ \E i \in DOMAIN wire[r] : wire[r][i] = "stop")
            => stream[r] = "drained"

\* A finished request holds neither an open response nor a thread that reads
\* one, save through a generator that waits for its finaliser.
StreamsReleased ==
    \A r \in Requests :
        job[r].pc \in {"answer", "done"} /\ ~job[r].left => stream[r] # "open" /\ thread[r] # "reading"

\* No two streams are read at the same time: the blocking close() keeps the
\* next request from starting while a thread of the last one still reads.
OneReader == \A r, s \in Requests : thread[r] = "reading" /\ thread[s] = "reading" => r = s

\* Past the deadline no connection is opened and no read begun, whichever
\* attempt it is (docs/PHASE_9_QUEUE_BUSY_TIMEOUT_POLICY.md:40).
NothingBegunLate ==
    [][\A r \in Requests :
          job[r].late => /\ job'[r].pc = "connect" => job[r].pc = "connect"
                         /\ thread'[r] = "reading" => thread[r] = "reading"]_vars

\* A buffered request whose backend has not come to the end of its answer.
Stalled == \E r \in Requests : job[r].pc = "thread" /\ thread[r] = "posting"

\* A request that was asked ends, provided its client reads: a streamed one
\* even against a backend that never stops sending, a buffered one unless it is,
\* or waits behind, a request with such a backend, which no deadline of the
\* bridge ends (wyoming_server.py:1838, s2_client.py:446).
EveryRequestEnds ==
    \A r \in Requests : job[r].pc = "queued" ~> job[r].pc = "done" \/ []Stalled

=============================================================================
