--------------------------- MODULE ProgressiveSession ---------------------------
(***************************************************************************)
(* The progressive streaming sessions of one Wyoming connection:           *)
(* app/speech/stream_coordinator.py (the synthesis loop and its one-slot   *)
(* output queue), app/speech/envelope.py, the flags of                     *)
(* app/speech/session.py, and the streaming part of FakeTtsEventHandler in *)
(* app/wyoming_server.py (synthesize-start, -chunk, -stop, the consumer    *)
(* task, disconnect()).                                                    *)
(*                                                                         *)
(* Four tasks meet here: the connection's handler, the synthesis loop, the *)
(* consumer that writes audio to the client, and the service coordinator,  *)
(* which may disconnect the handler.  An action is what one task does      *)
(* between two suspensions.  Texts are counted in phrases.  The scheduler  *)
(* is seen from outside: it grants the turn of a phrase, refuses it, or    *)
(* cancels the loop's task.                                                *)
(***************************************************************************)
EXTENDS Integers, Sequences, FiniteSets

CONSTANTS
    MaxPhrases,         \* bound on the phrases of one session
    MaxRefusals,        \* bound on the events refused in one session
    StreamBackend,      \* tts_backend = s2cpp and s2_stream: phrases come from a generator
    CancelOnDisconnect  \* CANCEL_ON_CLIENT_DISCONNECT

ASSUME MaxPhrasesAssumption == MaxPhrases \in Nat
ASSUME MaxRefusalsAssumption == MaxRefusals \in Nat
ASSUME ModesAssumption == {StreamBackend, CancelOnDisconnect} \subseteq BOOLEAN

VARIABLES
    client,         \* connected, gone (it sends no more) or lost (no transport any more)
    wire,           \* the events of this session written to it, refusals left out
    refusals,       \* after how many of them an Error refused an event of the client
    handler,        \* where the connection's task is
    coord,          \* _stream_coordinator is not None
    consumerError,  \* _stream_consumer_error is not None
    session,        \* _stream_session: none, good, failed, or gone (client disconnected)
    hadChunks,      \* _streaming_had_chunks
    compat,         \* _streaming_compat_text is not empty
    disconnect,     \* how far disconnect() has come
    missed,         \* it came while the worker was on its way to the loop (a history variable)
    loop,           \* where _synthesis_loop is
    loopCancel,     \* its task has been asked to cancel
    toPut,          \* the events it still has to put
    pending,        \* number of _pending_phrases
    phraseCount,    \* _phrase_count
    fed,            \* phrases accepted in this session
    ready,          \* _ready_event
    done,           \* _done
    cancelled,      \* _cancelled
    envelope,       \* the AudioEnvelope: silent, started or closed
    output,         \* _output
    consumer,       \* where _consume_coordinator_events is
    consumerCancel, \* its task has been asked to cancel
    outsiders       \* others may cancel the loop's task inside the scheduler; never changes

\* _in_streaming_session is coord, except during disconnect, when nothing reads it.
sessionVars  == <<coord, consumerError, session, hadChunks, compat>>
coordVars    == <<pending, phraseCount, fed, ready, done, cancelled, envelope>>
loopVars     == <<loop, loopCancel, toPut>>
consumerVars == <<consumer, consumerCancel>>
taskVars == <<client, wire, refusals, handler, sessionVars, disconnect, missed, loopVars,
              coordVars, output, consumerVars>>
vars == <<taskVars, outsiders>>

-----------------------------------------------------------------------------
(* Values.                                                                 *)

Mark(kind)  == [kind |-> kind, phrase |-> 0]
Chunk(n)    == [kind |-> "chunk", phrase |-> n]
AudioEvents == {Mark(kind) : kind \in {"start", "stop", "error", "end"}}
               \cup {Chunk(n) : n \in 1..MaxPhrases}
Answers     == {Mark("stopped"), Mark("failed")}

\* Inside scheduler.run; a phrase that was handed the one worker, is being
\* synthesized or is being put out holds it.
InScheduler == loop \in {"queued", "handed", "synth", "put"}

\* Faulty: every phrase brings its own AudioStart.
PhraseEventsUnfiltered == <<Mark("start"), Chunk(phraseCount)>>

\* A phrase's events after AudioEnvelope.process_phrase: the first AudioStart
\* is forwarded, later ones and every AudioStop are not.
PhraseEvents ==
    (IF envelope = "silent" THEN <<Mark("start")>> ELSE <<>>) \o <<Chunk(phraseCount)>>

\* AudioEnvelope.close(on_success=False), and what the loop puts after it.
FailureEvents ==
    (IF envelope = "started" THEN <<Mark("stop")>> ELSE <<>>) \o <<Mark("error"), Mark("end")>>

\* close(on_success=True), which the loop skips when no phrase was spoken.
SuccessEvents ==
    (IF phraseCount > 0 THEN <<Mark("stop")>> ELSE <<>>) \o <<Mark("end")>>

Init ==
    /\ client = "connected" /\ wire = <<>> /\ refusals = {}
    /\ handler = "reading"
    /\ coord = FALSE /\ consumerError = FALSE /\ session = "none"
    /\ hadChunks = FALSE /\ compat = FALSE
    /\ disconnect = "idle" /\ missed = FALSE
    /\ loop = "none" /\ loopCancel = FALSE /\ toPut = <<>>
    /\ pending = 0 /\ phraseCount = 0 /\ fed = 0
    /\ ready = FALSE /\ done = FALSE /\ cancelled = FALSE /\ envelope = "silent"
    /\ output = <<>>
    /\ consumer = "none" /\ consumerCancel = FALSE
    /\ outsiders \in BOOLEAN

-----------------------------------------------------------------------------
(* The handler: text in.                                                   *)

\* A peer that is gone may have left events to read.  A lost transport raises
\* from the next read, and a handler that the server stopped reads no more.
TakesEvents == handler = "reading" /\ client # "lost" /\ disconnect = "idle"

\* synthesize-start.
HandleStart ==
    /\ TakesEvents /\ ~coord /\ loop \in {"none", "finished"}
    /\ coord' = TRUE /\ session' = "good" /\ hadChunks' = FALSE /\ compat' = FALSE
    /\ wire' = <<>> /\ refusals' = {}
    /\ loop' = "created" /\ loopCancel' = FALSE
    /\ pending' = 0 /\ phraseCount' = 0 /\ fed' = 0
    /\ ready' = FALSE /\ done' = FALSE /\ cancelled' = FALSE /\ envelope' = "silent"
    /\ output' = <<>>
    /\ consumer' = "get" /\ consumerCancel' = FALSE
    /\ UNCHANGED <<client, handler, consumerError, disconnect, missed, toPut>>

\* An Error goes into the middle of the session and changes nothing else: the
\* answer to a second synthesize-start, stream_already_active, and to a legacy
\* synthesize once the service stops, service_shutting_down
\* (wyoming_server.py:1213-1218).
HandlerRefuses ==
    /\ TakesEvents /\ coord
    /\ Cardinality(refusals) < MaxRefusals
    /\ refusals' = refusals \cup {Len(wire)}
    /\ UNCHANGED <<client, wire, handler, sessionVars, disconnect, missed, loopVars, coordVars,
                   output, consumerVars>>

\* synthesize-chunk whose text completes n phrases; one that is blank does not
\* count as a chunk.  feed_text ignores it once done or cancelled.
HandleChunk(n) ==
    /\ TakesEvents /\ coord
    /\ fed + n <= MaxPhrases
    /\ IF done \/ cancelled
       THEN UNCHANGED <<pending, fed, ready>>
       ELSE pending' = pending + n /\ fed' = fed + n /\ ready' = (ready \/ n > 0)
    /\ hadChunks' \in IF n = 0 THEN {hadChunks, TRUE} ELSE {TRUE}
    /\ UNCHANGED <<client, wire, refusals, handler, coord, consumerError, session, compat, disconnect, missed,
                   loopVars, phraseCount, done, cancelled, envelope, output, consumerVars>>

\* A legacy synthesize event inside the session, when it is not refused, only
\* leaves its text.
HandleCompat ==
    /\ TakesEvents /\ coord
    /\ compat' = TRUE
    /\ UNCHANGED <<client, wire, refusals, handler, coord, consumerError, session, hadChunks, disconnect, missed,
                   loopVars, coordVars, output, consumerVars>>

\* The phrases that the end of the text adds: what the accumulator still
\* holds, or the compatibility text if no chunk came.
Residuals ==
    IF hadChunks THEN IF fed = 0 THEN {1} ELSE {0, 1}
                 ELSE IF compat THEN 1..MaxPhrases ELSE {0}

\* Faulty: the loop is woken for phrases only.
HandleStopUnsignalled ==
    /\ TakesEvents /\ coord
    /\ IF done \/ cancelled
       THEN UNCHANGED <<pending, fed, ready, done>>
       ELSE \E n \in Residuals :
               /\ fed + n <= MaxPhrases
               /\ pending' = pending + n /\ fed' = fed + n
               /\ ready' = (ready \/ n > 0) /\ done' = TRUE
    /\ handler' = "awaiting"
    /\ UNCHANGED <<client, wire, refusals, sessionVars, disconnect, missed, loopVars, phraseCount, cancelled,
                   envelope, output, consumerVars>>

\* synthesize-stop: feed_text and feed_done, then wait for the consumer.
HandleStop ==
    /\ TakesEvents /\ coord
    /\ IF done \/ cancelled
       THEN UNCHANGED <<pending, fed, ready, done>>
       ELSE \E n \in Residuals :
               /\ fed + n <= MaxPhrases
               /\ pending' = pending + n /\ fed' = fed + n
               /\ ready' = TRUE /\ done' = TRUE
    /\ handler' = "awaiting"
    /\ UNCHANGED <<client, wire, refusals, sessionVars, disconnect, missed, loopVars, phraseCount, cancelled,
                   envelope, output, consumerVars>>

-----------------------------------------------------------------------------
(* The synthesis loop.                                                     *)

\* One turn of the loop, up to its next suspension.
NextTurn ==
    \/ /\ cancelled
       /\ loop' = "finished" /\ toPut' = <<>>
       /\ UNCHANGED <<pending, phraseCount, ready, envelope>>
    \/ /\ ~cancelled /\ pending > 0
       /\ pending' = pending - 1 /\ phraseCount' = phraseCount + 1
       /\ loop' = "queued" /\ toPut' = <<>>
       /\ UNCHANGED <<ready, envelope>>
    \/ /\ ~cancelled /\ pending = 0 /\ done
       /\ loop' = "close" /\ toPut' = SuccessEvents
       /\ envelope' = IF phraseCount > 0 THEN "closed" ELSE envelope
       /\ UNCHANGED <<pending, phraseCount, ready>>
    \/ /\ ~cancelled /\ pending = 0 /\ ~done
       /\ loop' = "ready" /\ ready' = FALSE /\ toPut' = <<>>
       /\ UNCHANGED <<pending, phraseCount, envelope>>

LoopWakes ==
    /\ loop = "created" \/ (loop = "ready" /\ ready)
    /\ ~loopCancel
    /\ NextTurn
    /\ UNCHANGED <<client, wire, refusals, handler, sessionVars, disconnect, missed, loopCancel, fed, done,
                   cancelled, output, consumerVars>>

\* scheduler.run finds the worker free and starts the operation, or the request
\* that had the worker hands it over: the waiter's future is resolved, but its
\* task has not resumed.
TurnGranted ==
    /\ loop = "queued" /\ ~loopCancel
    /\ loop' \in {"synth", "handed"}
    /\ UNCHANGED <<client, wire, refusals, handler, sessionVars, disconnect, missed, loopCancel, toPut, coordVars,
                   output, consumerVars>>

\* The waiter's task resumes and starts the operation.
TurnTaken ==
    /\ loop = "handed" /\ ~loopCancel
    /\ loop' = "synth"
    /\ UNCHANGED <<client, wire, refusals, handler, sessionVars, disconnect, missed, loopCancel,
                   toPut, coordVars, output, consumerVars>>

\* _synthesize_phrase returns all the events of the phrase.
PhraseSynthesized ==
    /\ loop = "synth" /\ ~loopCancel
    /\ loop' = "put" /\ toPut' = PhraseEvents /\ envelope' = "started"
    /\ UNCHANGED <<client, wire, refusals, handler, sessionVars, disconnect, missed, loopCancel, pending,
                   phraseCount, fed, ready, done, cancelled, output, consumerVars>>

\* An exception of scheduler.run: close the envelope with an error, unless cancelled.
Fail ==
    IF cancelled
    THEN NextTurn
    ELSE /\ loop' = "fail" /\ toPut' = FailureEvents /\ envelope' = "closed"
         /\ UNCHANGED <<pending, phraseCount, ready>>

\* The scheduler refuses the phrase, its wait ends by the deadline, or its
\* synthesis fails.
PhraseFails ==
    /\ loop \in {"queued", "handed", "synth"} /\ ~loopCancel
    /\ Fail
    /\ UNCHANGED <<client, wire, refusals, handler, sessionVars, disconnect, missed, loopCancel, fed, done, cancelled,
                   output, consumerVars>>

SlotFree == Len(output) < 1

\* await self._output.put(event), and what follows the last one.  After the
\* operation run() itself may raise, when the waiter next in line is gone.
LoopPuts ==
    /\ loop \in {"put", "close", "fail"} /\ ~loopCancel
    /\ SlotFree
    /\ output' = Append(output, Head(toPut))
    /\ \/ /\ Len(toPut) > 1
          /\ toPut' = Tail(toPut)
          /\ UNCHANGED <<loop, pending, phraseCount, ready, envelope>>
       \/ /\ Len(toPut) = 1 /\ loop = "put"
          /\ NextTurn \/ Fail
       \/ /\ Len(toPut) = 1 /\ loop # "put"
          /\ loop' = "finished" /\ toPut' = <<>>
          /\ UNCHANGED <<pending, phraseCount, ready, envelope>>
    /\ UNCHANGED <<client, wire, refusals, handler, sessionVars, disconnect, missed, loopCancel, fed, done,
                   cancelled, consumerVars>>

\* CancelledError reaches the loop: no sentinel is put.
LoopCancelled ==
    /\ loopCancel
    /\ loop' = "finished" /\ loopCancel' = FALSE /\ toPut' = <<>>
    /\ cancelled' = TRUE /\ envelope' = "closed"
    /\ UNCHANGED <<client, wire, refusals, handler, sessionVars, disconnect, missed, pending, phraseCount, fed,
                   ready, done, output, consumerVars>>

\* Another connection's CANCEL_ON_NEW_REQUEST, the drain, or the end of the
\* grace period cancels the task that is inside the scheduler; one that was
\* handed the worker is not found there until it resumes.
CancelledFromOutside ==
    /\ outsiders /\ InScheduler /\ loop # "handed" /\ ~loopCancel
    /\ loopCancel' = TRUE
    /\ UNCHANGED <<client, wire, refusals, handler, sessionVars, disconnect, missed, loop, toPut, coordVars,
                   output, consumerVars>>

-----------------------------------------------------------------------------
(* StreamingCoordinator.cancel, in two parts: what it does before it waits *)
(* for the loop's task, and after.  A call that finds the task finished    *)
(* does not suspend; here it may, which only adds interleavings.           *)

\* Faulty: the task is left to notice the flag.
CancelBeginsByFlag ==
    /\ cancelled' = TRUE /\ pending' = 0 /\ ready' = TRUE
    /\ UNCHANGED loopCancel

CancelBegins ==
    /\ cancelled' = TRUE /\ pending' = 0 /\ ready' = TRUE
    /\ loopCancel' = (loop # "finished")

CancelEnds ==
    /\ envelope' = "closed"
    /\ output' = <<Mark("end")>>

-----------------------------------------------------------------------------
(* The consumer task.                                                      *)

\* Faulty: the error is forwarded but not recorded.
ConsumerGetsUnmarked ==
    /\ consumer = "get" /\ ~consumerCancel /\ output # <<>>
    /\ output' = Tail(output)
    /\ IF Head(output).kind = "end"
       THEN consumer' = "finished" /\ UNCHANGED wire
       ELSE consumer' = "drain" /\ wire' = Append(wire, Head(output))
    /\ UNCHANGED <<client, refusals, handler, sessionVars, disconnect, missed, loopVars, coordVars,
                   consumerCancel>>

\* __anext__ returns an event, which goes into the transport's buffer; the
\* sentinel ends the task.
ConsumerGets ==
    /\ consumer = "get" /\ ~consumerCancel /\ output # <<>>
    /\ output' = Tail(output)
    /\ IF Head(output).kind = "end"
       THEN consumer' = "finished" /\ UNCHANGED <<wire, session>>
       ELSE /\ consumer' = "drain" /\ wire' = Append(wire, Head(output))
            /\ session' = IF Head(output).kind = "error" /\ session = "good"
                          THEN "failed" ELSE session
    /\ UNCHANGED <<client, refusals, handler, coord, consumerError, hadChunks, compat, disconnect, missed,
                   loopVars, coordVars, consumerCancel>>

ConsumerWrites ==
    /\ consumer = "drain" /\ ~consumerCancel /\ client # "lost"
    /\ consumer' = "get"
    /\ UNCHANGED <<client, wire, refusals, handler, sessionVars, disconnect, missed, loopVars, coordVars, output,
                   consumerCancel>>

\* The write fails.  The session closes its generator first; if that generator
\* is running, aclose() raises and the coordinator is not cancelled.
ConsumerWriteFails ==
    /\ consumer = "drain" /\ ~consumerCancel /\ client = "lost"
    /\ session' = IF session = "none" THEN "none" ELSE "gone"
    /\ \/ /\ StreamBackend /\ loop = "synth" /\ session # "none"
          /\ consumer' = "finished" /\ consumerError' = TRUE
          /\ UNCHANGED <<loopCancel, pending, ready, cancelled>>
       \/ /\ coord
          /\ consumer' = "cancelling"
          /\ CancelBegins
          /\ UNCHANGED consumerError
    /\ UNCHANGED <<client, wire, refusals, handler, coord, hadChunks, compat, disconnect, missed, loop, toPut,
                   phraseCount, fed, done, envelope, output, consumerCancel>>

\* cancel() returns; a cancellation of the consumer meanwhile is swallowed there.
ConsumerGivesUp ==
    /\ consumer = "cancelling" /\ loop = "finished"
    /\ CancelEnds
    /\ consumer' = "finished" /\ consumerCancel' = FALSE /\ consumerError' = TRUE
    /\ UNCHANGED <<client, wire, refusals, handler, coord, session, hadChunks, compat, disconnect, missed, loopVars,
                   pending, phraseCount, fed, ready, done, cancelled>>

ConsumerCancelled ==
    /\ consumer \in {"get", "drain"} /\ consumerCancel
    /\ consumer' = "finished" /\ consumerCancel' = FALSE /\ consumerError' = TRUE
    /\ UNCHANGED <<client, wire, refusals, handler, coord, session, hadChunks, compat, disconnect, missed, loopVars,
                   coordVars, output>>

-----------------------------------------------------------------------------
(* The handler: the answer, and the end of the connection.                 *)

\* What synthesize-stop writes when the consumer has finished.
Answer ==
    IF consumerError THEN <<Mark("failed")>>
    ELSE IF session = "good" THEN <<Mark("stopped")>> ELSE <<>>

\* A write that fails is an expected disconnect, or ends the connection.
HandlerAnswers ==
    /\ handler = "awaiting" /\ consumer = "finished"
    /\ \/ /\ client # "lost" \/ Answer = <<>>
          /\ wire' = wire \o Answer /\ handler' = "answered"
       \/ /\ client = "lost" /\ Answer # <<>>
          /\ handler' \in {"answered", "broken"} /\ UNCHANGED wire
    /\ UNCHANGED <<client, refusals, sessionVars, disconnect, missed, loopVars, coordVars, output,
                   consumerVars>>

HandlerCleansUp ==
    /\ handler = "answered"
    /\ handler' = "reading"
    /\ coord' = FALSE /\ consumerError' = FALSE /\ session' = "none"
    /\ hadChunks' = FALSE /\ compat' = FALSE
    /\ UNCHANGED <<client, wire, refusals, disconnect, missed, loopVars, coordVars, output, consumerVars>>

\* disconnect() up to its first wait; a second call returns at once.
Disconnects ==
    /\ disconnect = "idle"
    /\ compat' = FALSE
    /\ disconnect' = "cancelling"
    /\ IF coord THEN CancelBegins ELSE UNCHANGED <<cancelled, pending, ready, loopCancel>>

\* The read loop ends: end of file, or a handler that raised (a compatibility
\* text whose voice differs, an answer that could not be written).
HandlerLeaves ==
    /\ \/ handler = "reading" /\ (client # "connected" \/ coord)
       \/ handler = "broken"
    /\ IF disconnect = "idle"
       THEN handler' = "leaving" /\ Disconnects
       ELSE /\ handler' = "closed"
            /\ UNCHANGED <<compat, disconnect, cancelled, pending, ready, loopCancel>>
    /\ UNCHANGED <<client, wire, refusals, missed, coord, consumerError, session, hadChunks, loop, toPut,
                   phraseCount, fed, done, envelope, output, consumerVars>>

\* _close_all_handlers, after the server has stopped the handler and closed its transport.
ServiceDisconnects ==
    /\ client = "lost" /\ handler # "closed"
    /\ Disconnects
    /\ UNCHANGED <<client, wire, refusals, missed, handler, coord, consumerError, session, hadChunks, loop, toPut,
                   phraseCount, fed, done, envelope, output, consumerVars>>

\* cancel() returns; the consumer is cancelled next.
DisconnectReaps ==
    /\ disconnect = "cancelling"
    /\ IF coord
       THEN /\ loop = "finished"
            /\ CancelEnds /\ coord' = FALSE
            /\ consumerCancel' = (consumer # "finished")
       ELSE UNCHANGED <<coord, output, envelope, consumerCancel>>
    /\ disconnect' = "reaping"
    /\ UNCHANGED <<client, wire, refusals, missed, handler, consumerError, session, hadChunks, compat, loopVars,
                   pending, phraseCount, fed, ready, done, cancelled, consumer>>

\* Faulty: relies on the coordinator to have left the scheduler.
DisconnectEndsQuietly ==
    /\ disconnect = "reaping" /\ consumer \in {"none", "finished"}
    /\ disconnect' = "done"
    /\ consumerError' = FALSE /\ session' = "none" /\ hadChunks' = FALSE
    /\ UNCHANGED <<client, wire, refusals, handler, coord, compat, missed, loopVars, coordVars,
                   output, consumerVars>>

\* The consumer is gone: clear the rest, and the connection's work in the
\* scheduler.  cancel_connection finds a waiter in the deque,
\* cancel_active_for_connection a task that runs its operation; a loop that was
\* handed the worker and has not resumed is neither.
DisconnectEnds ==
    /\ disconnect = "reaping" /\ consumer \in {"none", "finished"}
    /\ disconnect' = "done"
    /\ consumerError' = FALSE /\ session' = "none" /\ hadChunks' = FALSE
    /\ loopCancel' = (loopCancel \/ (CancelOnDisconnect /\ InScheduler /\ loop # "handed"))
    /\ missed' = (loop = "handed" /\ ~loopCancel)
    /\ UNCHANGED <<client, wire, refusals, handler, coord, compat, loop, toPut, coordVars, output,
                   consumerVars>>

HandlerCloses ==
    /\ handler = "leaving" /\ disconnect = "done"
    /\ handler' = "closed"
    /\ UNCHANGED <<client, wire, refusals, sessionVars, disconnect, missed, loopVars, coordVars, output,
                   consumerVars>>

\* End of file, then a reset, or a reset at once, or the server stops.
ClientLeaves ==
    /\ \/ client = "connected" /\ client' = "gone"
       \/ client # "lost" /\ client' = "lost"
    /\ UNCHANGED <<wire, refusals, handler, sessionVars, disconnect, missed, loopVars, coordVars, output,
                   consumerVars>>

-----------------------------------------------------------------------------
Handler    == \/ HandleStart \/ HandlerRefuses \/ (\E n \in 0..MaxPhrases : HandleChunk(n))
              \/ HandleCompat \/ HandleStop \/ HandlerAnswers \/ HandlerCleansUp \/ HandlerLeaves \/ HandlerCloses
Loop       == \/ LoopWakes \/ TurnGranted \/ TurnTaken \/ PhraseSynthesized \/ PhraseFails
              \/ LoopPuts \/ LoopCancelled
Consumer   == ConsumerGets \/ ConsumerWrites \/ ConsumerWriteFails \/ ConsumerGivesUp \/ ConsumerCancelled
Disconnect == ServiceDisconnects \/ DisconnectReaps \/ DisconnectEnds

Next ==
    /\ Handler \/ Loop \/ Consumer \/ Disconnect \/ CancelledFromOutside \/ ClientLeaves
    /\ UNCHANGED outsiders

Spec == Init /\ [][Next]_vars

\* Ready tasks run; the wait's deadline answers every queued phrase and the
\* deadlines of a streamed request end every synthesis; a peer reads what it is sent, or is found gone;
\* what a peer sent before it left is finite, so end of file is read (SF).
\* Nobody has to send text, leave, cancel or shut down.
Fairness ==
    /\ WF_taskVars(LoopWakes) /\ WF_taskVars(LoopPuts) /\ WF_taskVars(LoopCancelled)
    /\ WF_taskVars(TurnGranted \/ TurnTaken \/ PhraseSynthesized \/ PhraseFails)
    /\ WF_taskVars(ConsumerGets) /\ WF_taskVars(ConsumerWrites \/ ConsumerWriteFails)
    /\ WF_taskVars(ConsumerGivesUp) /\ WF_taskVars(ConsumerCancelled)
    /\ WF_taskVars(HandlerAnswers) /\ WF_taskVars(HandlerCleansUp) /\ WF_taskVars(HandlerCloses)
    /\ SF_taskVars((client # "connected" \/ handler = "broken") /\ HandlerLeaves)
    /\ WF_taskVars(DisconnectReaps) /\ WF_taskVars(DisconnectEnds)

FairSpec == Spec /\ Fairness

-----------------------------------------------------------------------------
(* Properties.                                                             *)

TypeOK ==
    /\ client \in {"connected", "gone", "lost"}
    /\ wire \in Seq(AudioEvents \cup Answers)
    /\ refusals \subseteq Nat
    /\ handler \in {"reading", "awaiting", "answered", "broken", "leaving", "closed"}
    /\ coord \in BOOLEAN /\ consumerError \in BOOLEAN /\ hadChunks \in BOOLEAN
    /\ compat \in BOOLEAN /\ loopCancel \in BOOLEAN /\ ready \in BOOLEAN
    /\ done \in BOOLEAN /\ cancelled \in BOOLEAN /\ consumerCancel \in BOOLEAN
    /\ missed \in BOOLEAN
    /\ session \in {"none", "good", "failed", "gone"}
    /\ disconnect \in {"idle", "cancelling", "reaping", "done"}
    /\ loop \in {"none", "created", "ready", "queued", "handed", "synth", "put", "close", "fail",
                "finished"}
    /\ toPut \in Seq(AudioEvents) /\ Len(toPut) <= 3
    /\ pending \in 0..MaxPhrases /\ phraseCount \in 0..MaxPhrases /\ fed \in 0..MaxPhrases
    /\ envelope \in {"silent", "started", "closed"}
    /\ output \in Seq(AudioEvents) /\ Len(output) <= 1
    /\ consumer \in {"none", "get", "drain", "cancelling", "finished"}

\* The audio of the first k phrases.
Audio(k) == [i \in 1..k + 1 |-> IF i = 1 THEN Mark("start") ELSE Chunk(i - 1)]

\* What may follow the audio of k phrases (k = 0: no audio was sent).
Endings(k) ==
    {<<>>, <<Mark("failed")>>}
    \cup IF k = 0 THEN {<<Mark("stopped")>>, <<Mark("error")>>, <<Mark("error"), Mark("failed")>>}
         ELSE {<<Mark("stop")>> \o e : e \in
                 {<<>>, <<Mark("stopped")>>, <<Mark("failed")>>, <<Mark("error")>>,
                  <<Mark("error"), Mark("failed")>>}}

\* synthesize-stop was answered.
AnswerSent == wire # <<>> /\ wire[Len(wire)] \in Answers

\* Whatever is cut short, the client sees one well-formed envelope: AudioStart
\* once, each phrase once and in order, AudioStop before any error, and nothing
\* after the answer.  The Errors that refuse an event of the client may stand
\* anywhere in it, but not behind the answer (envelope.py,
\* stream_coordinator.py:342-374, wyoming_server.py:1376-1382 and 1453-1507).
OneEnvelope ==
    /\ \E k \in 0..MaxPhrases : \E e \in Endings(k) :
          \/ wire = (IF k = 0 THEN <<>> ELSE Audio(k)) \o e
          \/ wire = <<Mark("start")>> \o e
    /\ AnswerSent => \A i \in refusals : i < Len(wire)

\* synthesize-stopped is sent only when every phrase of the text was sent and
\* the audio closed, whoever failed, cancelled or disconnected meanwhile
\* (wyoming_server.py:1479-1484).
NoFalseSuccess ==
    \A i \in DOMAIN wire : wire[i] = Mark("stopped") =>
       wire = (IF fed = 0 THEN <<>> ELSE Audio(fed) \o <<Mark("stop")>>) \o <<Mark("stopped")>>

\* "Disconnect/cancellation ... prevents future admissions, cancels active/waiting
\* connection work" (docs/PHASE_9_5_IMPLEMENTATION_PLAN.md:234): once disconnect()
\* is over, the loop is out of the scheduler or being cancelled there.  The code
\* misses one moment, the resumption of a loop that was just handed the worker,
\* and only for a client whose transport was lost; its loop then may keep the worker for good.
WorkerReleased ==
    /\ CancelOnDisconnect /\ disconnect = "done" /\ InScheduler => loopCancel \/ missed
    /\ missed => client = "lost"

\* No phrase starts after the session was cancelled (stream_coordinator.py:257-287).
NoPhraseAfterCancel ==
    [][cancelled => ~(loop' = "synth" /\ loop # "synth")]_vars

\* A client that stays gets an answer to its synthesize-stop: success, failure,
\* or the error that ended the audio, unless somebody else cancels the loop's
\* task (wyoming_server.py:1445-1507).
Told == wire # <<>> /\ wire[Len(wire)].kind \in {"stopped", "failed", "error"}
StopAnswered == handler = "awaiting" /\ ~outsiders ~> Told \/ client # "connected"

\* When the client is gone, the handler comes to its end and its phrases leave
\* the scheduler, whatever the loop and the consumer were doing, unless somebody
\* else cancels the loop's task or disconnect() misses it (WorkerReleased)
\* (wyoming_server.py:1685-1703, 1766-1803).
ConnectionEnds ==
    client # "connected" /\ ~outsiders
        ~> handler = "closed" /\ disconnect = "done" /\ (~InScheduler \/ missed)

=============================================================================
