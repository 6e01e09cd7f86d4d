----------------------------- MODULE MCAudioPath -----------------------------
(* An instance of AudioPath for TLC. *)
EXTENDS AudioPath

Streamed(initial, long, max) ==
    [fake |-> FALSE, stream |-> TRUE, initial |-> initial, long |-> long, max |-> max]
Buffered == [Streamed(0, 0, 0) EXCEPT !.stream = FALSE]
Faked == [Buffered EXCEPT !.fake = TRUE]

\* The test tone; the buffered backend; no buffer; disabled by its maximum; a
\* short and a long target within the cap; a target above the cap.
MCPolicies ==
    {Faked, Buffered, Streamed(0, 0, 20), Streamed(10, 10, 0), Streamed(5, 10, 10),
     Streamed(20, 5, 8)}
=============================================================================
