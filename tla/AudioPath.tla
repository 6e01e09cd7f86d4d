------------------------------ MODULE AudioPath ------------------------------
(***************************************************************************)
(* The way of the audio of one streaming session: what the backend sends   *)
(* for a phrase, in transport chunks of any size, through the initial      *)
(* buffer of the generator (app/wyoming_server.py), StreamingPCMRechunker  *)
(* or chunk_pcm_s16le (app/audio.py) and the AudioEnvelope that makes one  *)
(* response of all phrases (app/speech/envelope.py).                       *)
(*                                                                         *)
(* A byte is its number in the session, so that loss, doubling and         *)
(* reordering show.                                                        *)
(***************************************************************************)
EXTENDS Integers, Sequences, FiniteSetsExt, SequencesExt

CONSTANTS
    Rate, FrameSize,    \* frames a second, bytes a frame
    ChunkMs,            \* the length of a Wyoming chunk
    Policies,           \* TTS_BACKEND, S2_STREAM and the initial buffer: [fake, stream, initial, long, max], in ms
    Phrases,            \* bound on the phrases of a session
    MaxBytes            \* bound on the bytes of a phrase

ASSUME AudioParameters ==
    /\ {Rate, FrameSize, ChunkMs, Phrases, MaxBytes} \subseteq Nat \ {0}
    /\ \A p \in Policies : p \in [fake : BOOLEAN, stream : BOOLEAN, initial : Int, long : Int, max : Int]

VARIABLES
    policy,     \* the settings
    phase,      \* "idle", "filling" the buffer, "flowing", "closed"
    target,     \* the buffer's target and cap of this phrase, in bytes
    received,   \* bytes the backend sent for this phrase
    pcm,        \* buffered_pcm
    carry, frames,          \* the re-chunker
    events,     \* what the generator yielded for this phrase
    begun, total,           \* the envelope: AudioStart sent, cumulative frames
    spoken,     \* phrases that are through
    client      \* what the client gets

phraseVars   == <<target, received, pcm, carry, frames, events>>
envelopeVars == <<begun, total>>
vars == <<policy, phase, phraseVars, envelopeVars, spoken, client>>

Empty == <<>>

Init ==
    /\ policy \in Policies
    /\ phase = "idle"
    /\ target = [bytes |-> 0, cap |-> 0] /\ received = 0
    /\ pcm = Empty /\ carry = Empty /\ frames = 0 /\ events = <<>>
    /\ begun = FALSE /\ total = 0
    /\ spoken = 0 /\ client = <<>>

-----------------------------------------------------------------------------
(* Arithmetic.                                                             *)

Atleast(m, n) == IF m < n THEN n ELSE m
Atmost(m, n) == IF m < n THEN m ELSE n

ChunkFrames == Atleast((Rate * ChunkMs) \div 1000, 1)
ChunkBytes  == ChunkFrames * FrameSize

Milliseconds(n) == (n * 1000) \div Rate

Aligned(n) == n - (n % FrameSize)

BytesOf(ms) == Aligned((ms * Rate * FrameSize) \div 1000)

\* The initial buffer in bytes: none when the maximum is not positive.
Target(long) ==
    LET wanted == IF long THEN policy.long ELSE policy.initial
        ms == IF policy.max <= 0 THEN 0 ELSE Atmost(wanted, policy.max)
    IN  [bytes |-> IF ms > 0 THEN BytesOf(ms) ELSE 0,
         cap   |-> IF policy.max > 0 THEN BytesOf(policy.max) ELSE 0]

-----------------------------------------------------------------------------
(* Cutting PCM into chunks.                                                *)

StartEvent == [kind |-> "start", audio |-> Empty, at |-> 0]
ChunkEvent(bytes, at) == [kind |-> "chunk", audio |-> bytes, at |-> at]
StopEvent(at) == [kind |-> "stop", audio |-> Empty, at |-> at]
ErrorEvent == [kind |-> "error", audio |-> Empty, at |-> 0]

Piece(bytes, k) == SubSeq(bytes, (k - 1) * ChunkBytes + 1, Atmost(k * ChunkBytes, Len(bytes)))

\* StreamingPCMRechunker.feed: full chunks of whole frames.
Rechunk(old, n, data) ==
    LET bytes == old \o data
        whole == (Aligned(Len(bytes)) \div ChunkBytes)
    IN  [out    |-> [k \in 1..whole |-> ChunkEvent(Piece(bytes, k), Milliseconds(n + (k - 1) * ChunkFrames))],
         carry  |-> SubSeq(bytes, whole * ChunkBytes + 1, Len(bytes)),
         frames |-> n + whole * ChunkFrames]

\* chunk_pcm_s16le and _pcm_to_audio_events: the last chunk may be short.
Chunked(bytes) ==
    LET n == (Len(bytes) + ChunkBytes - 1) \div ChunkBytes
    IN  <<StartEvent>> \o [k \in 1..n |-> ChunkEvent(Piece(bytes, k), (k - 1) * ChunkMs)]
            \o <<StopEvent(n * ChunkMs)>>

-----------------------------------------------------------------------------
(* AudioEnvelope.                                                          *)

AudioOf(s) == FlattenSeq([i \in DOMAIN s |-> s[i].audio])

FramesIn(s) == Len(AudioOf(s)) \div FrameSize

\* Faulty: every phrase starts its response.
NormalizedAnew(s) == SelectSeq(s, LAMBDA e : e.kind # "stop")

\* process_phrase of one event: one start for all phrases, no phrase's stop, and
\* a timestamp that counts the frames of the whole response.
Relayed(s, i) ==
    IF s[i].kind = "start" /\ ~begun THEN <<s[i]>>
    ELSE IF s[i].kind = "chunk" /\ s[i].audio # Empty
    THEN <<ChunkEvent(s[i].audio, Milliseconds(total + FramesIn(SubSeq(s, 1, i - 1))))>>
    ELSE <<>>

Normalized(s) == FlattenSeq([i \in DOMAIN s |-> Relayed(s, i)])

\* The phrase's events reach the envelope and the client.
Through(s) ==
    /\ client' = client \o Normalized(s)
    /\ begun' = (begun \/ s # <<>>)
    /\ total' = total + FramesIn(s)
    /\ spoken' = spoken + 1
    /\ phase' = "idle"
    /\ UNCHANGED <<policy, phraseVars>>

\* A failed phrase: none of its events is sent; close(on_success=False).
Fails ==
    /\ client' = client \o (IF begun THEN <<StopEvent(Milliseconds(total))>> ELSE <<>>) \o <<ErrorEvent>>
    /\ phase' = "closed"
    /\ UNCHANGED <<policy, phraseVars, envelopeVars, spoken>>

-----------------------------------------------------------------------------
(* A streamed phrase.                                                      *)

\* The headers are there: the buffer policy, and AudioStart at once without it.
PhraseBegins ==
    /\ ~policy.fake /\ policy.stream /\ phase = "idle" /\ spoken < Phrases
    /\ \E long \in BOOLEAN :
          /\ target' = Target(long)
          /\ phase' = IF target'.bytes > 0 THEN "filling" ELSE "flowing"
          /\ events' = IF target'.bytes > 0 THEN <<>> ELSE <<StartEvent>>
    /\ received' = 0 /\ pcm' = Empty /\ carry' = Empty /\ frames' = 0
    /\ UNCHANGED <<policy, envelopeVars, spoken, client>>

\* The session's bytes are numbered through; this phrase's begin after those
\* the envelope has counted.
Incoming(n) == [i \in 1..n |-> total * FrameSize + received + i]

\* Re-chunk bytes into events.
Passes(started, data) ==
    LET r == Rechunk(carry, frames, data)
    IN  /\ events' = started \o r.out
        /\ carry' = r.carry /\ frames' = r.frames

\* The part of a chunk of n bytes that still fits under the cap, in whole
\* frames: Fix 4 of the generator.
Fits(n) == IF n <= target.cap - Len(pcm) THEN n ELSE Aligned(target.cap - Len(pcm))

\* Faulty: what does not fit is dropped.
BufferFillsLossy(data) ==
    LET held == pcm \o SubSeq(data, 1, Fits(Len(data)))
    IN  IF Fits(Len(data)) = Len(data) /\ Len(held) < target.bytes /\ Len(held) < target.cap
        THEN /\ pcm' = held
             /\ UNCHANGED <<phase, events, carry, frames>>
        ELSE /\ phase' = "flowing" /\ pcm' = Empty
             /\ Passes(<<StartEvent>>, held)

\* A transport chunk while the buffer fills: below target it is kept; else
\* playback begins with the buffer and, behind it, what did not fit.
BufferFills(data) ==
    LET fit  == Fits(Len(data))
        held == pcm \o SubSeq(data, 1, fit)
    IN  IF fit = Len(data) /\ Len(held) < target.bytes /\ Len(held) < target.cap
        THEN /\ pcm' = held
             /\ UNCHANGED <<phase, events, carry, frames>>
        ELSE /\ phase' = "flowing" /\ pcm' = Empty
             /\ Passes(<<StartEvent>>, held \o SubSeq(data, fit + 1, Len(data)))

ChunkArrives ==
    /\ phase \in {"filling", "flowing"}
    /\ \E n \in 1..(MaxBytes - received) :
          /\ received' = received + n
          /\ \/ phase = "filling" /\ BufferFills(Incoming(n))
             \/ phase = "flowing" /\ Passes(events, Incoming(n)) /\ UNCHANGED <<phase, pcm>>
    /\ UNCHANGED <<policy, target, envelopeVars, spoken, client>>

\* Faulty: a truncated stream ends like any other.
Whole(bytes) == TRUE

Complete(bytes) == Len(bytes) % FrameSize = 0

\* flush(), and the stop of the phrase if it has begun.
Flushed(s, bytes, n) ==
    s \o (IF bytes = Empty THEN <<>> ELSE <<ChunkEvent(bytes, Milliseconds(n))>>)
      \o (IF s = <<>> THEN <<>> ELSE <<StopEvent(Milliseconds(n + Len(bytes) \div FrameSize))>>)

\* The stream ends, perhaps before the buffer was full, perhaps inside a frame.
StreamEnds ==
    /\ phase \in {"filling", "flowing"}
    /\ LET first == IF pcm = Empty THEN events ELSE <<StartEvent>>
           r == Rechunk(carry, frames, pcm)
       IN  IF Complete(r.carry)
           THEN Through(Flushed(first \o r.out, r.carry, r.frames))
           ELSE Fails

\* The backend fails, the deadline passes, or the format is not the first
\* phrase's.
StreamFails ==
    /\ phase \in {"filling", "flowing"}
    /\ Fails

\* The buffered backend: an empty or truncated response is refused.
PhraseBuffered ==
    /\ ~policy.fake /\ ~policy.stream /\ phase = "idle" /\ spoken < Phrases
    /\ \E n \in 0..MaxBytes :
          LET bytes == [i \in 1..n |-> total * FrameSize + i]
          IN  IF n > 0 /\ Complete(bytes) THEN Through(Chunked(bytes)) ELSE Fails

\* The built-in test tone: whole frames, none at all for a duration of zero.
PhraseFaked ==
    /\ policy.fake /\ phase = "idle" /\ spoken < Phrases
    /\ \E n \in 0..(MaxBytes \div FrameSize) :
          Through(Chunked([i \in 1..(n * FrameSize) |-> total * FrameSize + i]))

\* The end of the text.
SessionEnds ==
    /\ phase = "idle" /\ spoken > 0
    /\ client' = Append(client, StopEvent(Milliseconds(total)))
    /\ phase' = "closed"
    /\ UNCHANGED <<policy, phraseVars, envelopeVars, spoken>>

Next ==
    \/ PhraseBegins \/ ChunkArrives \/ StreamEnds \/ StreamFails \/ PhraseBuffered \/ PhraseFaked
    \/ SessionEnds

Spec == Init /\ [][Next]_vars

-----------------------------------------------------------------------------
(* Properties.                                                             *)

Count(n, from) == [i \in 1..n |-> from + i]

\* No byte is lost, doubled or moved between the backend and the client,
\* however the transport cuts the stream, wherever the buffer's cap falls, and
\* no byte of a phrase that failed is heard.
AudioIntact ==
    /\ phase \in {"filling", "flowing"} =>
          AudioOf(events) \o carry \o pcm = Count(received, total * FrameSize)
    /\ AudioOf(client) = Count(total * FrameSize, 0)

\* The client hears one response: one start, before everything; chunks of
\* whole frames, each stamped with the time of its first frame since the start
\* of the response; one stop at the time of the last frame.
OneTimeline ==
    \A i \in DOMAIN client :
        /\ client[i].kind = "start" <=> i = 1 /\ begun
        /\ client[i].kind = "chunk" =>
              /\ Complete(client[i].audio)
              /\ LET before == FramesIn(SubSeq(client, 1, i - 1))
                 IN  client[i].at * Rate <= before * 1000 /\ before * 1000 < (client[i].at + 1) * Rate
        /\ client[i].kind = "stop" =>
              /\ \A j \in DOMAIN client : client[j].kind = "stop" => j = i
              /\ client[i].at = Milliseconds(FramesIn(client))
=============================================================================
