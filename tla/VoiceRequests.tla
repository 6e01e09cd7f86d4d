---------------------------- MODULE VoiceRequests ----------------------------
(***************************************************************************)
(* How a connection of the Wyoming server turns voice names into backend   *)
(* requests while the operator changes the voice directory (VoiceLibrary). *)
(* The directory is scanned at every Describe and again at every request   *)
(* that names or needs a voice; the profile itself is opened later, by the *)
(* backend, once for each phrase.                                          *)
(*                                                                         *)
(* One connection is enough: connections share nothing here but the        *)
(* directory.  Scheduling, streaming and failure of the backend belong to  *)
(* other modules; a phrase is one step.                                    *)
(***************************************************************************)
EXTENDS VoiceLibrary, Sequences

CONSTANTS Generic,      \* the voice "s2-pro" that Describe always lists
          NoVoice,      \* the empty voice: no voice fields are sent
          DefaultVoice, \* S2_DEFAULT_VOICE, or NoVoice
          Streaming,    \* S2_STREAM
          ContextFrames,\* S2_CODEC_CONTEXT_FRAMES after parsing, or NoContext
          NoContext,
          Answers,      \* what the backend declares about its audio
          MaxPhrases    \* bound: backend requests of a session

ASSUME RequestAssumption ==
    /\ Generic \notin Voices /\ NoVoice \notin Voices /\ Generic # NoVoice
    /\ DefaultVoice \in Voices \cup {NoVoice}
    /\ Streaming \in BOOLEAN
    /\ ContextFrames \in Int \cup {NoContext}
    /\ MaxPhrases \in Nat

VARIABLES conn,    \* "open", "streaming" or "dropped"
          voice,   \* _requested_voice
          chunks,  \* _streaming_had_chunks
          compat,  \* whether _streaming_compat_text is set
          sent,    \* the backend requests of this streaming session, in order
          failed   \* whether one of them gave no audio

reqVars == <<conn, voice, chunks, compat, sent, failed>>
vars    == <<libVars, reqVars>>

Init ==
    /\ LibInit
    /\ conn = "open" /\ voice = NoVoice
    /\ chunks = FALSE /\ compat = FALSE
    /\ sent = <<>> /\ failed = FALSE

----------------------------------------------------------------------------
(* The pure parts: voice resolution, the request and the answer's format.  *)

\* _resolve_voice_from_synthesize: a named voice must be in the directory,
\* and so must a configured default when none is named.
Wanted(name) == IF name = NoVoice THEN DefaultVoice ELSE name
Resolves(name) ==
    /\ ~Ambiguous
    /\ Wanted(name) \in Discovered \cup {NoVoice}

\* S2GenerateRequest.from_settings and to_multipart_fields.
Request(v) ==
    [voice   |-> IF v = NoVoice THEN DefaultVoice ELSE v,
     params  |-> IF Streaming THEN {"generation", "stream", "stride"} ELSE {"generation"},
     context |-> ContextFrames]
Encodes == ContextFrames = NoContext \/ ContextFrames >= 0

\* parse_declared_pcm_s16le_format: raw PCM only, declared in the encoding
\* header, its rate and channels given at least once and never twice
\* differently.  0 stands for a value that is absent or not positive.
Agree(a, b) == a = 0 \/ b = 0 \/ a = b
Declared(h) ==
    /\ h.encoding = "pcm_s16le"
    /\ Agree(h.typeRate, h.headerRate) /\ Agree(h.typeChannels, h.headerChannels)
    /\ h.typeRate + h.headerRate > 0 /\ h.typeChannels + h.headerChannels > 0

\* The backend opens the profile when the request names one.
Spoken(r) == r.voice = NoVoice \/ (binary[r.voice] # NoFile /\ Parses(binary[r.voice]))

----------------------------------------------------------------------------
(* Events of the connection.                                               *)

\* A ValueError leaves handle_event and takes the connection with it.
Drops ==
    /\ conn' = "dropped"
    /\ voice' = NoVoice /\ compat' = FALSE /\ chunks' = FALSE
    /\ sent' = <<>> /\ failed' = FALSE

\* build_info_event lists the generic voice and every discovered profile; all
\* that matters here of the scan it makes is that it may raise.
Described ==
    /\ conn # "dropped"
    /\ IF Ambiguous THEN Drops ELSE UNCHANGED reqVars
    /\ UNCHANGED libVars

\* A request to the backend under voice v, after those already sent; it
\* fails when the request cannot be encoded, the profile cannot be opened
\* or the format of the answer is not declared.
Phrase(before, v) ==
    /\ Len(before) < MaxPhrases
    /\ sent' = Append(before, Request(v))
    /\ \E h \in Answers : failed' = ~(Encodes /\ Spoken(Request(v)) /\ Declared(h))

\* synthesize-start.
StreamStarts(name) ==
    /\ conn = "open"
    /\ IF Resolves(name)
         THEN /\ conn' = "streaming"
              /\ voice' = Wanted(name)
              /\ chunks' = FALSE /\ compat' = FALSE
              /\ sent' = <<>> /\ failed' = FALSE
         ELSE Drops
    /\ UNCHANGED libVars

\* synthesize-chunk; the phrases it completes are synthesized while the
\* session goes on, each under the voice requested at that moment, until
\* one of them fails.
Chunk ==
    /\ conn = "streaming" /\ ~chunks
    /\ chunks' = TRUE
    /\ UNCHANGED <<libVars, conn, voice, compat, sent, failed>>

PhraseSpoken ==
    /\ conn = "streaming" /\ chunks /\ ~failed
    /\ Phrase(sent, voice)
    /\ UNCHANGED <<libVars, conn, voice, chunks, compat>>

\* A plausible bug: the consistency check is gone.
CompatibleAlways(name) == TRUE

\* A legacy synthesize event inside a streaming session: its text waits for
\* the stop, its voice must not contradict the session's and becomes the
\* session's when that has none.
Compatible(name) == voice = NoVoice \/ Wanted(name) \in {NoVoice, voice}

CompatArrives(name) ==
    /\ conn = "streaming"
    /\ IF Resolves(name) /\ Compatible(name)
         THEN /\ compat' = TRUE
              /\ voice' = IF Wanted(name) = NoVoice THEN voice ELSE Wanted(name)
              /\ UNCHANGED <<conn, chunks, sent, failed>>
         ELSE Drops
    /\ UNCHANGED libVars

\* synthesize-stop: the deferred text is spoken only when no chunk came.
Stop ==
    /\ conn = "streaming"
    /\ IF ~chunks /\ compat THEN Phrase(sent, voice) ELSE UNCHANGED <<sent, failed>>
    /\ conn' = "open"
    /\ compat' = FALSE /\ chunks' = FALSE
    /\ UNCHANGED <<libVars, voice>>

\* A legacy synthesize event outside a session.
Legacy(name) ==
    /\ conn = "open"
    /\ IF Resolves(name)
         THEN /\ voice' = Wanted(name)
              /\ Phrase(<<>>, Wanted(name))
              /\ UNCHANGED <<conn, chunks, compat>>
         ELSE Drops
    /\ UNCHANGED libVars

Names == Voices \cup {Generic, NoVoice}

ConnStep ==
    \/ Described \/ Chunk \/ PhraseSpoken \/ Stop
    \/ \E name \in Names : StreamStarts(name) \/ CompatArrives(name) \/ Legacy(name)

Next ==
    \/ LibNext /\ UNCHANGED reqVars
    \/ ConnStep

Spec == Init /\ [][Next]_vars

----------------------------------------------------------------------------
(* Properties.                                                             *)

\* Once a phrase of a session has been spoken in a profile's voice every
\* later phrase of it is: neither a compatibility event nor a change of the
\* directory switches the voice (the consistency check of handle_event).
OneVoicePerSession ==
    \A j \in 1..Len(sent) : \A i \in 1..j :
        sent[i].voice # NoVoice => sent[j].voice = sent[i].voice

=============================================================================
