--------------------------- MODULE MCSpeechScheduler --------------------------
(* Instances of SpeechScheduler for TLC.                                   *)
EXTENDS SpeechScheduler, TLC

CONSTANTS r1, r2, r3, r4, c1, c2, c3, c4

\* Four connections with a request each: one more than the capacity of three.
MCConnOf4 == (r1 :> c1 @@ r2 :> c2 @@ r3 :> c3 @@ r4 :> c4)

\* Three connections with a request each.
MCConnOf3 == (r1 :> c1 @@ r2 :> c2 @@ r3 :> c3)
=============================================================================
