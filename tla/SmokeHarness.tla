---------------------------- MODULE SmokeHarness ----------------------------
(***************************************************************************)
(* scripts/smoke_s2cpp_generate.py: the settings are read, and, when the   *)
(* operator asked for it, run_smoke_harness() of app/smoke_harness.py      *)
(* sends a real s2.cpp server one buffered and one streaming request and   *)
(* reports whether it is "real_backend_verified".                          *)
(***************************************************************************)
EXTENDS Integers, FiniteSets, Configuration

CONSTANTS
    Tried,      \* the environment variables that may be set
    MaxSet,     \* how many of them are, at most
    MaxReads,   \* bound on the reads of a stream
    ReadSizes,  \* how many bytes a read may bring
    Channels    \* the numbers of channels a server may declare

ASSUME TriedAreVariables ==
    /\ Tried \subseteq Checked \cup DOMAIN Unchecked
    /\ "S2_CODEC_CONTEXT_FRAMES" \in Tried
    /\ {MaxSet, MaxReads} \subseteq Nat
    /\ ReadSizes \subseteq Nat \ {0} /\ Channels \subseteq Int

VARIABLES
    env,        \* the environment, a text for each variable
    option,     \* the command line
    stage,      \* where main() is
    asked,      \* the server has been connected to
    named,      \* the variables named by the error that ended the program
    buffered,   \* BufferedMultipartResult: none, failure, invalid or valid
    stream,     \* the streaming request: what the harness counts, and how it ended
    report      \* overall_status and phase_5_5b_status

harnessVars == <<env, option, stage, asked, named, buffered, stream, report>>

Environments ==
    {e \in [Tried -> Texts] : Cardinality({n \in Tried : e[n] # "unset"}) <= MaxSet}

\* --endpoint: a port, a number that is none, or no number.
Options == [real : BOOLEAN, endpoint : {"none", "good", "far", "bad"}, legacy : BOOLEAN]

\* A stream before its headers came; no channels: not stated, or no number.
Unopened == [open |-> FALSE, chunked |-> FALSE, channels |-> 0, complete |-> FALSE,
             reads |-> 0, total |-> 0, ending |-> "none"]

HarnessInit ==
    /\ env \in Environments /\ option \in Options
    /\ stage = "start" /\ asked = FALSE /\ named = {}
    /\ buffered = "none" /\ stream = Unopened
    /\ report = "none"

Ends(what) == stage' = "over" /\ report' = what

\* An exception that nothing catches ends main() without a report.
Escapes == stage' = "crashed" /\ UNCHANGED report

-----------------------------------------------------------------------------
(* Before the server is contacted.                                         *)

\* Settings.from_env() refuses the environment.
SettingsRefused ==
    /\ stage = "start" /\ Reported(env) # {}
    /\ named' = Reported(env)
    /\ Escapes
    /\ UNCHANGED <<env, option, asked, buffered, stream>>

\* Faulty: the probe comes before the gate.
BeginsUnasked ==
    /\ stage = "start" /\ Reported(env) = {}
    /\ IF Raises(env) \/ option.endpoint = "bad" THEN Escapes
       ELSE stage' = "probe" /\ UNCHANGED report
    /\ UNCHANGED <<env, option, asked, named, buffered, stream>>

\* The opt-in gate.  A port that is no number in --endpoint, or in a variable that
\* is not checked, raises before it.
Begins ==
    /\ stage = "start" /\ Reported(env) = {}
    /\ IF Raises(env) \/ option.endpoint = "bad" THEN Escapes
       ELSE IF option.real THEN stage' = "probe" /\ UNCHANGED report
       ELSE Ends("skipped")
    /\ UNCHANGED <<env, option, asked, named, buffered, stream>>

\* The port to connect to is outside 0..65535.
FarPort ==
    IF option.endpoint = "none"
    THEN "S2_PORT" \in Tried /\ Setting(env, "S2_PORT") \in {"below", "above"}
    ELSE option.endpoint = "far"

\* An OSError means unavailable; the OverflowError that such a port may raise
\* (the resolver decides) is not caught.
Probe ==
    /\ stage = "probe"
    /\ \/ asked' = TRUE /\ stage' = "buffered" /\ UNCHANGED report
       \/ asked' = TRUE /\ Ends("unavailable")
       \/ FarPort /\ Escapes /\ UNCHANGED asked
    /\ UNCHANGED <<env, option, named, buffered, stream>>

-----------------------------------------------------------------------------
(* The two requests.  to_multipart_fields() raises on a context below 0.   *)

Encodable == Setting(env, "S2_CODEC_CONTEXT_FRAMES") # "below"

Responses ==
    [media : {"wav", "pcm", "other"}, riff : BOOLEAN, encoding : {"none", "s16", "other"},
     metadata : {"stated", "missing", "conflicting"}, body : {"empty", "ragged", "whole"}]

\* _buffered_audio_validation: a WAV file, or raw audio that the headers describe.
Valid(response) ==
    /\ response.body = "whole"
    /\ \/ response.media = "wav" /\ response.riff
       \/ /\ response.media # "wav"
          /\ response.media = "pcm" \/ response.encoding = "s16"
          /\ response.encoding # "other"
          /\ response.metadata = "stated"

\* The buffered request is answered, refused (a URLError), or ends in an error
\* that is none: no answer in time, a closed or cut connection.
BufferedRequest ==
    /\ stage = "buffered"
    /\ \/ /\ Encodable /\ stage' = "opening"
          /\ \/ buffered' = "failure"
             \/ \E r \in Responses : buffered' = IF Valid(r) THEN "valid" ELSE "invalid"
          /\ UNCHANGED report
       \/ Escapes /\ UNCHANGED buffered
    /\ UNCHANGED <<env, option, asked, named, stream>>

\* The optional request comes after the streaming one.
AfterStream == IF option.legacy THEN "legacy" ELSE "verdict"

\* _parse_audio_headers: whether the channels are a number and which, whether
\* rate and encoding are there; and how the body is framed, which only http.client
\* looks at.
Headers == [stated : BOOLEAN, channels : Channels, others : BOOLEAN, chunked : BOOLEAN]

Opened(h) == [open |-> TRUE, chunked |-> h.chunked,
              channels |-> IF h.stated THEN h.channels ELSE 0,
              complete |-> h.stated /\ h.others,
              reads |-> 0, total |-> 0, ending |-> "none"]

\* __enter__ connects, or fails like the buffered request.
StreamOpens ==
    /\ stage = "opening"
    /\ \/ /\ stage' = "reading"
          /\ \E h \in Headers : stream' = Opened(h)
          /\ UNCHANGED report
       \/ stage' = AfterStream /\ stream' = [stream EXCEPT !.ending = "error"] /\ UNCHANGED report
       \/ Escapes /\ UNCHANGED stream
    /\ UNCHANGED <<env, option, asked, named, buffered>>

StreamReads ==
    /\ stage = "reading" /\ stream.reads < MaxReads
    /\ \E size \in ReadSizes :
          stream' = [stream EXCEPT !.reads = @ + 1, !.total = @ + size]
    /\ UNCHANGED <<env, option, stage, asked, named, buffered, report>>

\* The end of the stream, or an error of a read, whatever it is; both close it.
\* A body with a Content-Length, or one that ends with its connection, reads b""
\* also where it was cut short, which __next__ takes for the end; a chunked body
\* that is cut is an error.
StreamEnds ==
    /\ stage = "reading"
    /\ stage' = AfterStream
    /\ \E ending \in {"whole", "cut", "error"} :
          /\ ending = "cut" => ~stream.chunked
          /\ stream' = [stream EXCEPT !.open = FALSE, !.ending = ending]
    /\ UNCHANGED <<env, option, asked, named, buffered, report>>

\* The optional JSON request; its outcome changes no verdict.
LegacyProbe ==
    /\ stage = "legacy"
    /\ \/ stage' = "verdict" /\ UNCHANGED report
       \/ Escapes
    /\ UNCHANGED <<env, option, asked, named, buffered, stream>>

-----------------------------------------------------------------------------
(* The verdict.                                                            *)

\* _classify_progressive does not ask for the end once there were two reads.
Progressive == stream.reads >= 2

\* _validate_pcm_frame_alignment of the whole stream; no channels, no frame.
Aligned == stream.channels > 0 /\ stream.total % (2 * stream.channels) = 0

\* Faulty: leaves the status of the request out.
StreamingOkUnended == stream.reads > 0 /\ Aligned /\ Progressive /\ stream.complete

StreamingOk ==
    stream.ending # "error" /\ stream.reads > 0 /\ Aligned /\ Progressive /\ stream.complete

Decide ==
    /\ stage = "verdict"
    /\ Ends(IF buffered = "valid" /\ StreamingOk THEN "verified" ELSE "failed")
    /\ UNCHANGED <<env, option, asked, named, buffered, stream>>

HarnessNext ==
    \/ SettingsRefused \/ Begins \/ Probe
    \/ BufferedRequest \/ StreamOpens \/ StreamReads \/ StreamEnds \/ LegacyProbe
    \/ Decide

HarnessSpec == HarnessInit /\ [][HarnessNext]_harnessVars

-----------------------------------------------------------------------------
(* Properties.                                                             *)

\* "real_backend_verified" is only said of a server whose buffered answer was
\* audio and whose stream closed without an error, after several reads that make
\* whole frames of the channels it declared (smoke_harness.py:346-380, 721-734).
\* A chunked stream was then complete; of another one the harness cannot tell,
\* and one cut at the end of a frame is verified like a whole one.
VerdictEarned ==
    report = "verified" =>
       /\ buffered = "valid"
       /\ ~stream.open /\ stream.ending \in {"whole", "cut"}
       /\ stream.chunked => stream.ending = "whole"
       /\ stream.reads >= 2 /\ stream.complete
       /\ stream.channels > 0 /\ stream.total % (2 * stream.channels) = 0

\* A server is contacted only for an operator who asked for it
\* (smoke_harness.py:7-9), and only with an environment in which every switch
\* and every number that is checked could be read (config.py:505-510).
NoContactUnasked ==
    asked =>
       /\ option.real
       /\ \A name \in Tried \cap Checked :
             env[name] = "word" => name \in {"S2_CODEC_CONTEXT_FRAMES", "ADMIN_HTTP_HOST"}
=============================================================================
