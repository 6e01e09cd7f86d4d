--------------------------- MODULE Configuration ---------------------------
(***************************************************************************)
(* Settings.from_env() of app/config.py: what the environment variables    *)
(* become, and which of them stop the program.                             *)
(*                                                                         *)
(* A text is what matters of it to the checks: not set, blank, a value     *)
(* inside the range of its variable, a number below or above that range, a *)
(* word its variable does not know, or "nan".  Inside the range of a       *)
(* switch are its eight words, "yes" among them; the codec context reads   *)
(* "-1" as the word "auto" and not as a number.  Variables that take any   *)
(* text (names, paths, the log level) are left out.                        *)
(***************************************************************************)
Texts == {"unset", "blank", "word", "below", "inside", "above", "nan"}
Whole == {"below", "inside", "above"}       \* what int() reads

(* The texts each variable may have when it is not left to its default.    *)

\* The decode stride has two bounds, the hold-back and the start buffer one.
Streaming ==
    [S2_STREAM_DECODE_STRIDE_FRAMES |-> {"inside"},
     S2_STREAM_HOLDBACK_FRAMES |-> {"inside", "above"},
     S2_STREAM_START_BUFFER_MS |-> {"inside", "above"}]

\* _parse_float_env: inside the bounds, which NaN is not.
Finite == {"inside"}

\* _parse_positive_int_env, always called with a maximum.
Positive == {"inside"}

Sampling ==
    [S2_TEMPERATURE |-> Finite, S2_TOP_P |-> Finite,
     S2_TOP_K |-> Positive, S2_MAX_NEW_TOKENS |-> Positive]

\* _parse_bool: one of its eight words.
Switch == {"inside"}

Switches ==
    [name \in {"S2_CODEC_CPU", "S2_STREAM", "S2_CHUNKED", "S2_SEGMENT_SENTENCES",
               "BARGE_IN_FRIENDLY", "CANCEL_ON_CLIENT_DISCONNECT", "CANCEL_ON_NEW_REQUEST",
               "S2_LOW_LATENCY", "ADMIN_HTTP_ENABLED"} |-> Switch]

\* Deadlines are compared with each bound in turn, and NaN is on neither side.
Deadline == {"inside", "nan"}

Patience ==
    [S2_BACKEND_BUSY_MAX_RETRIES |-> Positive, S2_BACKEND_BUSY_RETRY_DELAY_MS |-> {"inside"},
     S2_QUEUE_WAIT_TIMEOUT_SEC |-> Deadline, S2_SYNTHESIS_TIMEOUT_SEC |-> Deadline,
     SHUTDOWN_GRACE_TIMEOUT_SEC |-> Deadline]

Admin ==
    [ADMIN_HTTP_HOST |-> Texts \ {"blank"}, ADMIN_HTTP_PORT |-> {"inside"},
     ADMIN_HTTP_READ_TIMEOUT_SEC |-> Deadline,
     ADMIN_HTTP_MAX_HEADER_SIZE |-> {"inside"}, ADMIN_HTTP_MAX_BODY_SIZE |-> {"inside"}]

\* _parse_optional_int: what is no number, and -1, means "let the backend choose".
Context == [S2_CODEC_CONTEXT_FRAMES |-> Texts]

\* What is checked, group by group.
Checks == {Streaming, Sampling, Switches, Patience, Admin, Context}

Checked == UNION {DOMAIN rules : rules \in Checks}

\* Converted with int() while the Settings are built, without any check.
Unchecked ==
    [name \in {"S2_PORT", "S2_GPU_INDEX", "S2_GPU_LAYERS", "S2_INITIAL_BUFFER_MS",
               "S2_LONG_FORM_THRESHOLD_CHARS", "S2_LONG_FORM_BUFFER_MS",
               "S2_MAX_INITIAL_BUFFER_MS", "MAX_QUEUE_SIZE", "FAKE_TTS_SAMPLE_RATE",
               "FAKE_TTS_DURATION_MS", "FAKE_TTS_CHUNK_MS"} |-> Whole]

\* os.getenv(name, default) leaves a blank text in the way of the default.
Unset(name) == IF name \in {"ADMIN_HTTP_HOST"} \cup DOMAIN Unchecked
               THEN {"unset"} ELSE {"unset", "blank"}

Wrong(env, rules) ==
    {name \in DOMAIN env \cap DOMAIN rules : env[name] \notin Unset(name) \cup rules[name]}

\* Every error is collected and reported at once; the unchecked variables are
\* converted only after that.
Reported(env) == UNION {Wrong(env, rules) : rules \in Checks}
Raises(env)   == Wrong(env, Unchecked) # {}

\* The attribute of Settings: the default, a number in or out of its range, or None.
Setting(env, name) ==
    CASE env[name] = "unset" -> "default"
      [] name \in DOMAIN Context -> IF env[name] \in Whole THEN env[name] ELSE "none"
      [] env[name] = "blank" -> "default"
      [] OTHER -> env[name]
=============================================================================
