------------------------ MODULE ProgressiveSessionProofs ------------------------
(***************************************************************************)
(* Theorems about ProgressiveSession, for every number of phrases and      *)
(* every mode: first the coordinator and the scheduler, then what the      *)
(* client sees.                                                            *)
(***************************************************************************)
EXTENDS ProgressiveSession, TLAPS, SequenceTheorems

\* A cancelled session has stopped its loop, or its task is about to see the
\* cancellation.
CancelReaches == cancelled => loopCancel \/ loop = "finished"

\* cancel() of a session and the end of a cancelled one agree with it.
LEMMA CancelBeginsReaches ==
    ASSUME CancelBegins, loop' = loop
    PROVE  CancelReaches'
BY DEF CancelBegins, CancelReaches

\* disconnect() either cancels the coordinator or leaves the loop alone.
LEMMA DisconnectsReaches ==
    ASSUME CancelReaches, Disconnects, loop' = loop
    PROVE  CancelReaches'
<1>1. CASE coord
  BY <1>1, CancelBeginsReaches DEF Disconnects
<1>2. CASE ~coord
  BY <1>2 DEF Disconnects, CancelReaches
<1> QED BY <1>1, <1>2

\* A turn of a loop that is not cancelled leaves it not cancelled; a cancelled
\* one ends it.
LEMMA NextTurnReaches ==
    ASSUME NextTurn, cancelled' = cancelled
    PROVE  cancelled' => loop' = "finished"
BY DEF NextTurn

\* The same for an exception of scheduler.run.
LEMMA FailReaches ==
    ASSUME Fail, cancelled' = cancelled
    PROVE  cancelled' => loop' = "finished"
BY NextTurnReaches DEF Fail

\* Every step of the session keeps CancelReaches.
LEMMA CancelReachesInductive ==
    ASSUME CancelReaches, [Next]_vars
    PROVE  CancelReaches'
<1>1. CASE HandleStart
  BY <1>1 DEF HandleStart, CancelReaches
<1>2. ASSUME NEW n \in 0..MaxPhrases, HandleChunk(n) PROVE CancelReaches'
  BY <1>2 DEF HandleChunk, CancelReaches, loopVars
<1>3. CASE HandleCompat
  BY <1>3 DEF HandleCompat, CancelReaches, loopVars, coordVars
<1>4. CASE HandleStop
  BY <1>4 DEF HandleStop, CancelReaches, loopVars
<1>5. CASE LoopWakes
  BY <1>5, NextTurnReaches DEF LoopWakes, CancelReaches
<1>6. CASE TurnGranted
  BY <1>6 DEF TurnGranted, CancelReaches, coordVars
<1>7. CASE PhraseSynthesized
  BY <1>7 DEF PhraseSynthesized, CancelReaches
<1>8. CASE PhraseFails
  BY <1>8, FailReaches DEF PhraseFails, CancelReaches
<1>9. CASE LoopPuts
  <2>1. ~cancelled
    BY <1>9 DEF LoopPuts, CancelReaches
  <2>2. cancelled' = cancelled
    BY <1>9 DEF LoopPuts
  <2> QED BY <2>1, <2>2 DEF CancelReaches
<1>10. CASE LoopCancelled
  BY <1>10 DEF LoopCancelled, CancelReaches
<1>11. CASE CancelledFromOutside
  BY <1>11 DEF CancelledFromOutside, CancelReaches
<1>12. CASE ConsumerGets
  BY <1>12 DEF ConsumerGets, CancelReaches, loopVars, coordVars
<1>13. CASE ConsumerWrites
  BY <1>13 DEF ConsumerWrites, CancelReaches, loopVars, coordVars
<1>14. CASE ConsumerWriteFails
  <2>1. CASE UNCHANGED <<loopCancel, pending, ready, cancelled>>
    BY <1>14, <2>1 DEF ConsumerWriteFails, CancelReaches
  <2>2. CASE CancelBegins
    BY <1>14, <2>2, CancelBeginsReaches DEF ConsumerWriteFails
  <2> QED BY <1>14, <2>1, <2>2 DEF ConsumerWriteFails
<1>15. CASE ConsumerGivesUp
  BY <1>15 DEF ConsumerGivesUp, CancelReaches, loopVars
<1>16. CASE ConsumerCancelled
  BY <1>16 DEF ConsumerCancelled, CancelReaches, loopVars, coordVars
<1>17. CASE HandlerAnswers
  BY <1>17 DEF HandlerAnswers, CancelReaches, loopVars, coordVars
<1>18. CASE HandlerCleansUp
  BY <1>18 DEF HandlerCleansUp, CancelReaches, loopVars, coordVars
<1>19. CASE HandlerLeaves
  <2>1. CASE disconnect = "idle"
    BY <1>19, <2>1, DisconnectsReaches DEF HandlerLeaves
  <2>2. CASE disconnect # "idle"
    BY <1>19, <2>2 DEF HandlerLeaves, CancelReaches
  <2> QED BY <2>1, <2>2
<1>20. CASE HandlerCloses
  BY <1>20 DEF HandlerCloses, CancelReaches, loopVars, coordVars
<1>21. CASE ServiceDisconnects
  BY <1>21, DisconnectsReaches DEF ServiceDisconnects
<1>22. CASE DisconnectReaps
  BY <1>22 DEF DisconnectReaps, CancelReaches, loopVars
<1>23. CASE DisconnectEnds
  BY <1>23 DEF DisconnectEnds, CancelReaches, coordVars
<1>24. CASE ClientLeaves
  BY <1>24 DEF ClientLeaves, CancelReaches, loopVars, coordVars
<1>25. CASE UNCHANGED vars
  BY <1>25 DEF vars, taskVars, CancelReaches, loopVars, coordVars
<1>26. CASE TurnTaken
  BY <1>26 DEF TurnTaken, CancelReaches, coordVars
<1>27. CASE HandlerRefuses
  BY <1>27 DEF HandlerRefuses, CancelReaches, loopVars, coordVars
<1> QED
  BY <1>1, <1>2, <1>3, <1>4, <1>5, <1>6, <1>7, <1>8, <1>9, <1>10, <1>11, <1>12,
     <1>13, <1>14, <1>15, <1>16, <1>17, <1>18, <1>19, <1>20, <1>21, <1>22, <1>23,
     <1>24, <1>25, <1>26, <1>27
     DEF Next, Handler, Loop, Consumer, Disconnect

\* A step that starts a phrase starts it in a session that is not cancelled.
LEMMA OnlyTurnsStart ==
    ASSUME CancelReaches, [Next]_vars
    PROVE  cancelled => ~(loop' = "synth" /\ loop # "synth")
<1> SUFFICES ASSUME cancelled, loop' = "synth", loop # "synth"
             PROVE  FALSE
  OBVIOUS
<1>1. ~TurnGranted /\ ~TurnTaken
  BY DEF TurnGranted, TurnTaken, CancelReaches
<1>2. ~LoopWakes /\ ~LoopPuts /\ ~PhraseFails
  BY DEF LoopWakes, LoopPuts, PhraseFails, Fail, NextTurn, CancelReaches
<1>3. ~HandleStart /\ ~PhraseSynthesized /\ ~LoopCancelled
  BY DEF HandleStart, PhraseSynthesized, LoopCancelled
<1>4. loop' = loop \/ TurnGranted \/ TurnTaken \/ LoopWakes \/ LoopPuts \/ PhraseFails \/ HandleStart
        \/ PhraseSynthesized \/ LoopCancelled
  BY DEF Next, Handler, Loop, Consumer, Disconnect, vars, taskVars, loopVars, HandleChunk, HandleCompat, HandlerRefuses,
         HandleStop, CancelledFromOutside, ConsumerGets, ConsumerWrites, ConsumerWriteFails,
         ConsumerGivesUp, ConsumerCancelled, HandlerAnswers, HandlerCleansUp, HandlerLeaves,
         HandlerCloses, ServiceDisconnects, DisconnectReaps, DisconnectEnds, ClientLeaves
<1> QED BY <1>1, <1>2, <1>3, <1>4

\* No phrase starts in a session after it was cancelled
\* (stream_coordinator.py:257-287).
THEOREM NoPhraseAfterCancelHolds == Spec => NoPhraseAfterCancel
<1>1. Init => CancelReaches
  BY DEF Init, CancelReaches
<1>2. CancelReaches /\ [Next]_vars => CancelReaches'
  BY CancelReachesInductive
<1>3. CancelReaches /\ [Next]_vars => [cancelled => ~(loop' = "synth" /\ loop # "synth")]_vars
  BY OnlyTurnsStart
<1> QED
  BY <1>1, <1>2, <1>3, PTL DEF Spec, NoPhraseAfterCancel

-----------------------------------------------------------------------------
(* Types.                                                                  *)

MarkKinds == {"start", "stop", "error", "end"}

LEMMA MarksAreEvents ==
    ASSUME NEW kind \in MarkKinds
    PROVE  Mark(kind) \in AudioEvents /\ Mark(kind).kind = kind
BY DEF AudioEvents, MarkKinds, Mark

LEMMA ChunksAreEvents ==
    ASSUME NEW n \in 1..MaxPhrases
    PROVE  Chunk(n) \in AudioEvents /\ Chunk(n).kind = "chunk"
BY DEF AudioEvents, Chunk

\* Only the sentinel has kind "end", and it comes last.
Final(s) == \A i \in 1..Len(s) : s[i].kind = "end" => i = Len(s)

LEMMA AboveOne ==
    ASSUME NEW n \in Nat, n > 1
    PROVE  n # 1 /\ 1 \in 1..n
OBVIOUS

LEMMA OneEvent ==
    ASSUME NEW a \in AudioEvents, NEW t, t = <<>> \o <<a>>
    PROVE  /\ t \in Seq(AudioEvents) /\ Len(t) <= 3 /\ Final(t)
           /\ a.kind # "end" => \A i \in 1..Len(t) : t[i].kind # "end"
<1>1. t \in Seq(AudioEvents) /\ Len(t) = 1 /\ t[1] = a
  OBVIOUS
<1> QED  BY <1>1 DEF Final

LEMMA TwoEvents ==
    ASSUME NEW a \in AudioEvents, NEW b \in AudioEvents, a.kind # "end",
           NEW t, t = <<a>> \o <<b>> \/ t = <<>> \o <<a, b>>
    PROVE  /\ t \in Seq(AudioEvents) /\ Len(t) <= 3 /\ Final(t)
           /\ b.kind # "end" => \A i \in 1..Len(t) : t[i].kind # "end"
<1>1. t \in Seq(AudioEvents) /\ Len(t) = 2 /\ t[1] = a /\ t[2] = b
  <2>1. CASE t = <<a>> \o <<b>>
    BY <2>1
  <2>2. CASE t = <<>> \o <<a, b>>
    BY <2>2
  <2> QED  BY <2>1, <2>2
<1> QED  BY <1>1 DEF Final

LEMMA ThreeEvents ==
    ASSUME NEW a \in AudioEvents, NEW b \in AudioEvents, NEW c \in AudioEvents,
           a.kind # "end", b.kind # "end", NEW t, t = <<a>> \o <<b, c>>
    PROVE  t \in Seq(AudioEvents) /\ Len(t) <= 3 /\ Final(t)
<1>1. t \in Seq(AudioEvents) /\ Len(t) = 3 /\ t[1] = a /\ t[2] = b /\ t[3] = c
  OBVIOUS
<1> QED  BY <1>1 DEF Final

LEMMA PhraseEventsTyped ==
    ASSUME phraseCount \in 1..MaxPhrases
    PROVE  /\ PhraseEvents \in Seq(AudioEvents) /\ Len(PhraseEvents) <= 3
           /\ \A i \in 1..Len(PhraseEvents) : PhraseEvents[i].kind # "end"
<1>1. /\ Mark("start") \in AudioEvents /\ Mark("start").kind = "start"
      /\ Chunk(phraseCount) \in AudioEvents /\ Chunk(phraseCount).kind = "chunk"
  BY MarksAreEvents, ChunksAreEvents DEF MarkKinds
<1>2. \/ PhraseEvents = <<Mark("start")>> \o <<Chunk(phraseCount)>>
      \/ PhraseEvents = <<>> \o <<Chunk(phraseCount)>>
  BY DEF PhraseEvents
<1>3. CASE PhraseEvents = <<Mark("start")>> \o <<Chunk(phraseCount)>>
  BY <1>1, <1>3, TwoEvents
<1>4. CASE PhraseEvents = <<>> \o <<Chunk(phraseCount)>>
  BY <1>1, <1>4, OneEvent
<1> QED  BY <1>2, <1>3, <1>4

LEMMA EndEventsTyped ==
    /\ FailureEvents \in Seq(AudioEvents) /\ Len(FailureEvents) <= 3 /\ Final(FailureEvents)
    /\ SuccessEvents \in Seq(AudioEvents) /\ Len(SuccessEvents) <= 3 /\ Final(SuccessEvents)
<1>1. /\ Mark("stop") \in AudioEvents /\ Mark("stop").kind = "stop"
      /\ Mark("error") \in AudioEvents /\ Mark("error").kind = "error"
      /\ Mark("end") \in AudioEvents
  BY MarksAreEvents DEF MarkKinds
<1>2. \/ FailureEvents = <<Mark("stop")>> \o <<Mark("error"), Mark("end")>>
      \/ FailureEvents = <<>> \o <<Mark("error"), Mark("end")>>
  BY DEF FailureEvents
<1>3. \/ SuccessEvents = <<Mark("stop")>> \o <<Mark("end")>>
      \/ SuccessEvents = <<>> \o <<Mark("end")>>
  BY DEF SuccessEvents
<1>4. FailureEvents \in Seq(AudioEvents) /\ Len(FailureEvents) <= 3 /\ Final(FailureEvents)
  BY <1>1, <1>2, TwoEvents, ThreeEvents
<1>5. SuccessEvents \in Seq(AudioEvents) /\ Len(SuccessEvents) <= 3 /\ Final(SuccessEvents)
  BY <1>1, <1>3, OneEvent, TwoEvents
<1> QED  BY <1>4, <1>5

\* The phrases taken and those that wait were fed; a phrase in the scheduler
\* was taken.
Counted ==
    /\ pending + phraseCount <= fed
    /\ InScheduler => phraseCount > 0

\* The sentinel is put by a loop that is over, or about to be.
Sentinel ==
    /\ \A i \in 1..Len(output) : output[i].kind = "end" => loop = "finished"
    /\ \A i \in 1..Len(toPut) : toPut[i].kind = "end" => i = Len(toPut) /\ loop \in {"close", "fail"}

\* A consumer that is over has seen the sentinel, or lost its client.
Reaped ==
    /\ consumer = "finished" /\ loop # "finished" => client = "lost"
    /\ consumerCancel => loop = "finished"
    /\ handler = "answered" => consumer = "finished"
    /\ handler \in {"awaiting", "answered", "broken"} => done \/ cancelled

\* A loop that nobody owns any more has its text complete: it does not wait
\* for more, and its end is near.
Settled ==
    /\ consumer = "finished" /\ done /\ ~loopCancel => loop \notin {"created", "ready"}
    /\ ~coord /\ ~loopCancel => loop \notin {"created", "ready"}
    /\ ~coord /\ loop \notin {"none", "finished"} => done \/ cancelled
    /\ disconnect \in {"reaping", "done"} => ~coord

\* After disconnect() only the last events of a loop may still be put, unless
\* the worker was on its way to the loop: that takes a lost client.
Freed ==
    /\ CancelOnDisconnect /\ disconnect = "done" /\ ~loopCancel /\ ~missed =>
           loop \in {"none", "close", "fail", "finished"}
    /\ missed => client = "lost"
    /\ consumer = "none" => loop \in {"none", "finished"}

Owned == CancelReaches /\ Reaped /\ Settled /\ Freed

LEMMA OwnedStep ==
    ASSUME TypeOK, Sentinel, Owned, [Next]_vars
    PROVE  Owned'
<1> USE DEF Owned, CancelReaches, Reaped, Settled, Freed, InScheduler, sessionVars, coordVars, loopVars, consumerVars
<1>1. CASE HandleStart
  BY <1>1 DEF HandleStart, TakesEvents
<1>2. ASSUME NEW n \in 0..MaxPhrases, HandleChunk(n) PROVE Owned'
  BY <1>2 DEF HandleChunk, TakesEvents
<1>3. CASE HandleCompat
  BY <1>3 DEF HandleCompat, TakesEvents
<1>4. CASE HandleStop
  BY <1>4 DEF HandleStop, TakesEvents, Residuals
<1>5. CASE LoopWakes
  BY <1>5 DEF LoopWakes, NextTurn
<1>6. CASE TurnGranted
  BY <1>6 DEF TurnGranted
<1>7. CASE PhraseSynthesized
  BY <1>7 DEF PhraseSynthesized
<1>8. CASE PhraseFails
  BY <1>8 DEF PhraseFails, Fail, NextTurn
<1>9. CASE LoopPuts
  BY <1>9 DEF LoopPuts, SlotFree, Fail, NextTurn
<1>10. CASE LoopCancelled
  BY <1>10 DEF LoopCancelled
<1>11. CASE CancelledFromOutside
  BY <1>11 DEF CancelledFromOutside
<1>12. CASE ConsumerGets
  <2>1. Head(output).kind = "end" => loop = "finished"
    <3>1. output # <<>> /\ output \in Seq(AudioEvents)
      BY <1>12 DEF ConsumerGets, TypeOK
    <3>2. 1 \in 1..Len(output) /\ Head(output) = output[1]
      BY <3>1
    <3> QED  BY <3>2 DEF Sentinel
  <2> QED  BY <1>12, <2>1 DEF ConsumerGets
<1>13. CASE ConsumerWrites
  BY <1>13 DEF ConsumerWrites
<1>14. CASE ConsumerWriteFails
  <2>1. CASE consumer' = "finished"
    BY <1>14, <2>1 DEF ConsumerWriteFails
  <2>2. CASE CancelBegins /\ consumer' = "cancelling"
    <3>1. cancelled' /\ (loop # "finished" => loopCancel')
      BY <2>2 DEF CancelBegins
    <3> QED  BY <1>14, <2>2, <3>1 DEF ConsumerWriteFails
  <2> QED  BY <1>14, <2>1, <2>2 DEF ConsumerWriteFails
<1>15. CASE ConsumerGivesUp
  BY <1>15 DEF ConsumerGivesUp, CancelEnds
<1>16. CASE ConsumerCancelled
  BY <1>16 DEF ConsumerCancelled
<1>17. CASE HandlerAnswers
  BY <1>17 DEF HandlerAnswers
<1>18. CASE HandlerCleansUp
  BY <1>18 DEF HandlerCleansUp
<1>19. CASE HandlerLeaves
  BY <1>19 DEF HandlerLeaves, Disconnects, CancelBegins
<1>20. CASE HandlerCloses
  BY <1>20 DEF HandlerCloses
<1>21. CASE ServiceDisconnects
  BY <1>21 DEF ServiceDisconnects, Disconnects, CancelBegins
<1>22. CASE DisconnectReaps
  BY <1>22 DEF DisconnectReaps, CancelEnds
<1>23. CASE DisconnectEnds
  <2>1. /\ loopCancel => loopCancel'
        /\ ~loopCancel' /\ ~missed' /\ CancelOnDisconnect
               => loop \notin {"queued", "handed", "synth", "put"}
        /\ missed' => loop = "handed"
    BY <1>23 DEF DisconnectEnds
  <2>2. loop \in {"none", "created", "ready", "queued", "handed", "synth", "put", "close", "fail",
                 "finished"}
    BY DEF TypeOK
  <2>3. UNCHANGED <<client, handler, coord, loop, done, cancelled, consumer, consumerCancel>>
    BY <1>23 DEF DisconnectEnds
  <2>4. ~coord /\ consumer \in {"none", "finished"}
    BY <1>23 DEF DisconnectEnds
  <2>5. Freed'
    BY <2>1, <2>2, <2>3, <2>4
  <2>6. CancelReaches' /\ Reaped'
    BY <2>1, <2>3
  <2>7. Settled'
    BY <2>1, <2>3, <2>4
  <2> QED  BY <2>5, <2>6, <2>7
<1>24. CASE ClientLeaves
  BY <1>24 DEF ClientLeaves
<1>25. CASE UNCHANGED vars
  BY <1>25 DEF vars, taskVars
<1>26. CASE TurnTaken
  BY <1>26 DEF TurnTaken
<1>27. CASE HandlerRefuses
  BY <1>27 DEF HandlerRefuses, TakesEvents
<1> QED
  BY <1>1, <1>2, <1>3, <1>4, <1>5, <1>6, <1>7, <1>8, <1>9, <1>10, <1>11, <1>12, <1>13, <1>14, <1>15, <1>16, <1>17, <1>18, <1>19, <1>20, <1>21, <1>22, <1>23, <1>24, <1>25, <1>26, <1>27
     DEF Next, Handler, Loop, Consumer, Disconnect


Loops == {"none", "created", "ready", "queued", "handed", "synth", "put", "close", "fail", "finished"}

\* What the loop's part of a step leaves.
Turned ==
    /\ loop' \in Loops /\ ready' \in BOOLEAN /\ envelope' \in {"silent", "started", "closed"}
    /\ toPut' \in Seq(AudioEvents) /\ Len(toPut') <= 3
    /\ \A i \in 1..Len(toPut') : toPut'[i].kind = "end" => i = Len(toPut') /\ loop' \in {"close", "fail"}
    /\ pending' \in 0..MaxPhrases /\ phraseCount' \in 0..MaxPhrases

LEMMA NextTurnTyped ==
    ASSUME TypeOK, Counted, NextTurn
    PROVE  Turned
<1>0. /\ <<>> \in Seq(AudioEvents) /\ Len(<<>>) = 0
  OBVIOUS
<1>1. ASSUME loop' \in {"finished", "ready"}, toPut' = <<>>, ready' \in BOOLEAN,
             UNCHANGED <<pending, phraseCount, envelope>>
      PROVE  Turned
  BY <1>0, <1>1 DEF Turned, TypeOK, Loops
<1>5. CASE cancelled
  BY <1>1, <1>5 DEF NextTurn, TypeOK
<1>6. CASE ~cancelled /\ pending = 0 /\ ~done
  <2>1. ~(pending > 0)
    BY <1>6
  <2>2. /\ loop' = "ready" /\ ready' = FALSE /\ toPut' = <<>>
        /\ UNCHANGED <<pending, phraseCount, envelope>>
    BY <1>6, <2>1, Zenon DEF NextTurn
  <2> QED  BY <1>1, <2>2
<1>2. CASE ~cancelled /\ pending > 0
  <2>1. /\ loop' = "queued" /\ toPut' = <<>> /\ ready' = ready /\ envelope' = envelope
        /\ pending' = pending - 1 /\ phraseCount' = phraseCount + 1
    BY <1>2 DEF NextTurn
  <2>2. pending' \in 0..MaxPhrases /\ phraseCount' \in 0..MaxPhrases
    BY <1>2, <2>1, MaxPhrasesAssumption DEF TypeOK, Counted
  <2> QED  BY <1>0, <2>1, <2>2 DEF Turned, TypeOK, Loops
<1>3. CASE ~cancelled /\ pending = 0 /\ done
  <2>2. /\ SuccessEvents \in Seq(AudioEvents) /\ Len(SuccessEvents) <= 3
        /\ \A i \in 1..Len(SuccessEvents) : SuccessEvents[i].kind = "end" => i = Len(SuccessEvents)
    BY EndEventsTyped DEF Final
  <2>1. /\ loop' = "close" /\ toPut' = SuccessEvents /\ ready' = ready
        /\ envelope' \in {"closed", envelope} /\ pending' = pending /\ phraseCount' = phraseCount
    BY <1>3 DEF NextTurn
  <2> QED  BY <2>1, <2>2 DEF Turned, TypeOK, Loops
<1>4. cancelled \/ pending = 0 \/ pending > 0
  BY MaxPhrasesAssumption DEF TypeOK
<1> QED  BY <1>2, <1>3, <1>4, <1>5, <1>6 DEF TypeOK

LEMMA FailTyped ==
    ASSUME TypeOK, Counted, Fail
    PROVE  Turned
<1>1. CASE cancelled
  BY <1>1, NextTurnTyped DEF Fail
<1>2. CASE ~cancelled
  <2>2. /\ FailureEvents \in Seq(AudioEvents) /\ Len(FailureEvents) <= 3
        /\ \A i \in 1..Len(FailureEvents) : FailureEvents[i].kind = "end" => i = Len(FailureEvents)
    BY EndEventsTyped DEF Final
  <2>1. /\ loop' = "fail" /\ toPut' = FailureEvents /\ ready' = ready
        /\ envelope' = "closed" /\ pending' = pending /\ phraseCount' = phraseCount
    BY <1>2 DEF Fail
  <2> QED  BY <2>1, <2>2 DEF Turned, TypeOK, Loops
<1> QED  BY <1>1, <1>2

\* The loop puts the head of its events; the sentinel is the last of them.
LEMMA LoopPutsTyped ==
    ASSUME TypeOK, Counted, Sentinel, LoopPuts
    PROVE  /\ Turned /\ output' \in Seq(AudioEvents) /\ Len(output') <= 1
           /\ \A i \in 1..Len(output') : output'[i].kind = "end" => loop' = "finished"
<1>1. /\ loop \in {"put", "close", "fail"} /\ Len(toPut) >= 1 /\ toPut \in Seq(AudioEvents)
      /\ Len(output) = 0 /\ output \in Seq(AudioEvents) /\ output' = Append(output, Head(toPut))
  BY DEF LoopPuts, SlotFree, TypeOK
<1>2. toPut # <<>> /\ Head(toPut) = toPut[1] /\ Head(toPut) \in AudioEvents
  BY <1>1
<1>3. output' \in Seq(AudioEvents) /\ Len(output') = 1 /\ output'[1] = Head(toPut)
  BY <1>1, <1>2
<1>4. CASE Len(toPut) > 1
  <2>1. /\ toPut' = Tail(toPut)
        /\ UNCHANGED <<loop, pending, phraseCount, ready, envelope>>
    <3>1. Len(toPut) # 1
      <4>1. Len(toPut) \in Nat
        BY <1>1
      <4> QED  BY <1>4, <4>1, AboveOne
    <3> QED  BY <3>1, Zenon DEF LoopPuts
  <2>2. /\ toPut' \in Seq(AudioEvents) /\ Len(toPut') = Len(toPut) - 1
        /\ \A i \in 1..Len(toPut') : toPut'[i] = toPut[i + 1]
    BY <1>1, <1>2, <2>1
  <2>3. \A i \in 1..Len(toPut') : toPut'[i].kind = "end" => i = Len(toPut') /\ loop' \in {"close", "fail"}
    <3> TAKE i \in 1..Len(toPut')
    <3>1. i + 1 \in 1..Len(toPut)
      BY <1>1, <2>2
    <3>2. toPut[i + 1].kind = "end" => i + 1 = Len(toPut) /\ loop \in {"close", "fail"}
      BY <3>1 DEF Sentinel
    <3>3. toPut'[i].kind = toPut[i + 1].kind /\ loop' = loop
      BY <2>1, <2>2
    <3>4. i + 1 = Len(toPut) => i = Len(toPut')
      BY <1>1, <2>2
    <3> QED  BY <3>2, <3>3, <3>4
  <2>4. Head(toPut).kind # "end"
    <3>1. 1 \in 1..Len(toPut) /\ 1 # Len(toPut)
      <4>1. Len(toPut) \in Nat
        BY <1>1
      <4> QED  BY <1>4, <4>1, AboveOne
    <3> QED  BY <1>2, <3>1 DEF Sentinel
  <2>5. Len(toPut') <= 3
    BY <2>2 DEF TypeOK
  <2>6. Turned
    BY <2>1, <2>2, <2>3, <2>5 DEF Turned, TypeOK, Loops
  <2> QED  BY <1>3, <2>4, <2>6
<1>5. CASE Len(toPut) = 1 /\ loop = "put"
  <2>1. Turned
    BY <1>5, NextTurnTyped, FailTyped DEF LoopPuts
  <2>2. Head(toPut).kind # "end"
    <3>1. 1 \in 1..Len(toPut)
      BY <1>5
    <3> QED  BY <1>2, <1>5, <3>1 DEF Sentinel
  <2> QED  BY <1>3, <2>1, <2>2
<1>6. CASE Len(toPut) = 1 /\ loop # "put"
  <2>1. /\ loop' = "finished" /\ toPut' = <<>>
        /\ UNCHANGED <<pending, phraseCount, ready, envelope>>
    BY <1>6 DEF LoopPuts
  <2>2. <<>> \in Seq(AudioEvents) /\ Len(<<>>) = 0
    OBVIOUS
  <2> QED  BY <1>3, <2>1, <2>2 DEF Turned, TypeOK, Loops
<1> QED  BY <1>1, <1>4, <1>5, <1>6

LEMMA SentinelStep ==
    ASSUME TypeOK, Counted, Sentinel, [Next]_vars
    PROVE  Sentinel'
<1> USE DEF Sentinel, sessionVars, coordVars, loopVars, consumerVars
<1>1. CASE HandleStart
  BY <1>1 DEF HandleStart, TakesEvents
<1>2. ASSUME NEW n \in 0..MaxPhrases, HandleChunk(n) PROVE Sentinel'
  BY <1>2 DEF HandleChunk, TakesEvents
<1>3. CASE HandleCompat
  BY <1>3 DEF HandleCompat, TakesEvents
<1>4. CASE HandleStop
  BY <1>4 DEF HandleStop, TakesEvents, Residuals
<1>5. CASE LoopWakes
  <2>1. NextTurn /\ output' = output /\ loop \in {"created", "ready"}
    BY <1>5 DEF LoopWakes
  <2>2. Turned
    BY <2>1, NextTurnTyped
  <2>3. \A i \in 1..Len(output) : output[i].kind # "end"
    BY <2>1
  <2> QED  BY <2>1, <2>2, <2>3 DEF Turned
<1>6. CASE TurnGranted
  BY <1>6 DEF TurnGranted
<1>7. CASE PhraseSynthesized
  <2>1. phraseCount \in 1..MaxPhrases
    BY <1>7, MaxPhrasesAssumption DEF PhraseSynthesized, TypeOK, Counted, InScheduler
  <2> QED  BY <1>7, <2>1, PhraseEventsTyped DEF PhraseSynthesized
<1>8. CASE PhraseFails
  <2>1. Fail /\ output' = output /\ loop \in {"queued", "handed", "synth"}
    BY <1>8 DEF PhraseFails
  <2>2. Turned
    BY <2>1, FailTyped
  <2>3. \A i \in 1..Len(output) : output[i].kind # "end"
    BY <2>1
  <2> QED  BY <2>1, <2>2, <2>3 DEF Turned
<1>9. CASE LoopPuts
  BY <1>9, LoopPutsTyped DEF Turned
<1>10. CASE LoopCancelled
  BY <1>10 DEF LoopCancelled
<1>11. CASE CancelledFromOutside
  BY <1>11 DEF CancelledFromOutside
<1>12. CASE ConsumerGets
  BY <1>12 DEF ConsumerGets
<1>13. CASE ConsumerWrites
  BY <1>13 DEF ConsumerWrites
<1>14. CASE ConsumerWriteFails
  BY <1>14 DEF ConsumerWriteFails, CancelBegins
<1>15. CASE ConsumerGivesUp
  BY <1>15 DEF ConsumerGivesUp, CancelEnds
<1>16. CASE ConsumerCancelled
  BY <1>16 DEF ConsumerCancelled
<1>17. CASE HandlerAnswers
  BY <1>17 DEF HandlerAnswers
<1>18. CASE HandlerCleansUp
  BY <1>18 DEF HandlerCleansUp
<1>19. CASE HandlerLeaves
  BY <1>19 DEF HandlerLeaves, Disconnects, CancelBegins
<1>20. CASE HandlerCloses
  BY <1>20 DEF HandlerCloses
<1>21. CASE ServiceDisconnects
  BY <1>21 DEF ServiceDisconnects, Disconnects, CancelBegins
<1>22. CASE DisconnectReaps
  BY <1>22 DEF DisconnectReaps, CancelEnds
<1>23. CASE DisconnectEnds
  BY <1>23 DEF DisconnectEnds
<1>24. CASE ClientLeaves
  BY <1>24 DEF ClientLeaves
<1>25. CASE UNCHANGED vars
  BY <1>25 DEF vars, taskVars
<1>26. CASE TurnTaken
  BY <1>26 DEF TurnTaken
<1>27. CASE HandlerRefuses
  BY <1>27 DEF HandlerRefuses
<1> QED
  BY <1>1, <1>2, <1>3, <1>4, <1>5, <1>6, <1>7, <1>8, <1>9, <1>10, <1>11, <1>12, <1>13, <1>14, <1>15, <1>16, <1>17, <1>18, <1>19, <1>20, <1>21, <1>22, <1>23, <1>24, <1>25, <1>26, <1>27
     DEF Next, Handler, Loop, Consumer, Disconnect


LEMMA CountedStep ==
    ASSUME TypeOK, Counted, [Next]_vars
    PROVE  Counted'
<1> USE DEF Counted, TypeOK, InScheduler, sessionVars, coordVars, loopVars, consumerVars
<1>1. CASE HandleStart
  BY <1>1 DEF HandleStart, TakesEvents
<1>2. ASSUME NEW n \in 0..MaxPhrases, HandleChunk(n) PROVE Counted'
  BY <1>2 DEF HandleChunk, TakesEvents
<1>3. CASE HandleCompat
  BY <1>3 DEF HandleCompat, TakesEvents
<1>4. CASE HandleStop
  BY <1>4 DEF HandleStop, TakesEvents, Residuals
<1>5. CASE LoopWakes
  BY <1>5 DEF LoopWakes, NextTurn
<1>6. CASE TurnGranted
  BY <1>6 DEF TurnGranted
<1>7. CASE PhraseSynthesized
  BY <1>7 DEF PhraseSynthesized
<1>8. CASE PhraseFails
  BY <1>8 DEF PhraseFails, Fail, NextTurn
<1>9. CASE LoopPuts
  BY <1>9 DEF LoopPuts, SlotFree, Fail, NextTurn
<1>10. CASE LoopCancelled
  BY <1>10 DEF LoopCancelled
<1>11. CASE CancelledFromOutside
  BY <1>11 DEF CancelledFromOutside
<1>12. CASE ConsumerGets
  BY <1>12 DEF ConsumerGets
<1>13. CASE ConsumerWrites
  BY <1>13 DEF ConsumerWrites
<1>14. CASE ConsumerWriteFails
  BY <1>14 DEF ConsumerWriteFails, CancelBegins
<1>15. CASE ConsumerGivesUp
  BY <1>15 DEF ConsumerGivesUp, CancelEnds
<1>16. CASE ConsumerCancelled
  BY <1>16 DEF ConsumerCancelled
<1>17. CASE HandlerAnswers
  BY <1>17 DEF HandlerAnswers
<1>18. CASE HandlerCleansUp
  BY <1>18 DEF HandlerCleansUp
<1>19. CASE HandlerLeaves
  BY <1>19 DEF HandlerLeaves, Disconnects, CancelBegins
<1>20. CASE HandlerCloses
  BY <1>20 DEF HandlerCloses
<1>21. CASE ServiceDisconnects
  BY <1>21 DEF ServiceDisconnects, Disconnects, CancelBegins
<1>22. CASE DisconnectReaps
  BY <1>22 DEF DisconnectReaps, CancelEnds
<1>23. CASE DisconnectEnds
  BY <1>23 DEF DisconnectEnds
<1>24. CASE ClientLeaves
  BY <1>24 DEF ClientLeaves
<1>25. CASE UNCHANGED vars
  BY <1>25 DEF vars, taskVars
<1>26. CASE TurnTaken
  BY <1>26 DEF TurnTaken
<1>27. CASE HandlerRefuses
  BY <1>27 DEF HandlerRefuses
<1> QED
  BY <1>1, <1>2, <1>3, <1>4, <1>5, <1>6, <1>7, <1>8, <1>9, <1>10, <1>11, <1>12, <1>13, <1>14, <1>15, <1>16, <1>17, <1>18, <1>19, <1>20, <1>21, <1>22, <1>23, <1>24, <1>25, <1>26, <1>27
     DEF Next, Handler, Loop, Consumer, Disconnect

\* TypeOK by kinds of variables.
NamesOK ==
    /\ client \in {"connected", "gone", "lost"}
    /\ handler \in {"reading", "awaiting", "answered", "broken", "leaving", "closed"}
    /\ session \in {"none", "good", "failed", "gone"}
    /\ disconnect \in {"idle", "cancelling", "reaping", "done"}
    /\ loop \in Loops
    /\ envelope \in {"silent", "started", "closed"}
    /\ consumer \in {"none", "get", "drain", "cancelling", "finished"}

FlagsOK ==
    /\ coord \in BOOLEAN /\ consumerError \in BOOLEAN /\ hadChunks \in BOOLEAN
    /\ compat \in BOOLEAN /\ loopCancel \in BOOLEAN /\ ready \in BOOLEAN
    /\ done \in BOOLEAN /\ cancelled \in BOOLEAN /\ consumerCancel \in BOOLEAN
    /\ missed \in BOOLEAN

CountsOK == pending \in 0..MaxPhrases /\ phraseCount \in 0..MaxPhrases /\ fed \in 0..MaxPhrases

EventsOK ==
    /\ wire \in Seq(AudioEvents \cup Answers) /\ refusals \subseteq Nat
    /\ toPut \in Seq(AudioEvents) /\ Len(toPut) <= 3
    /\ output \in Seq(AudioEvents) /\ Len(output) <= 1

LEMMA TypeParts == TypeOK <=> NamesOK /\ FlagsOK /\ CountsOK /\ EventsOK
BY DEF TypeOK, NamesOK, FlagsOK, CountsOK, EventsOK, Loops

LEMMA TypedStep ==
    ASSUME TypeOK, Counted, Sentinel, [Next]_vars
    PROVE  TypeOK'
<1> USE DEF TypeOK, sessionVars, coordVars, loopVars, consumerVars
<1>1. CASE HandleStart
  <2>1. NamesOK'
    BY <1>1 DEF NamesOK, Loops, HandleStart, TakesEvents
  <2>2. FlagsOK'
    BY <1>1 DEF FlagsOK, HandleStart, TakesEvents
  <2>3. CountsOK'
    BY <1>1, MaxPhrasesAssumption DEF Counted, CountsOK, HandleStart, TakesEvents
  <2>4. EventsOK'
    BY <1>1 DEF EventsOK, HandleStart, TakesEvents
  <2> QED  BY <2>1, <2>2, <2>3, <2>4 DEF NamesOK, Loops, FlagsOK, CountsOK, EventsOK, Loops
<1>2. ASSUME NEW n \in 0..MaxPhrases, HandleChunk(n) PROVE TypeOK'
  <2>1. NamesOK'
    BY <1>2 DEF NamesOK, Loops, HandleChunk, TakesEvents
  <2>2. FlagsOK'
    BY <1>2 DEF FlagsOK, HandleChunk, TakesEvents
  <2>3. CountsOK'
    BY <1>2, MaxPhrasesAssumption DEF Counted, CountsOK, HandleChunk, TakesEvents
  <2>4. EventsOK'
    BY <1>2 DEF EventsOK, HandleChunk, TakesEvents
  <2> QED  BY <2>1, <2>2, <2>3, <2>4 DEF NamesOK, Loops, FlagsOK, CountsOK, EventsOK, Loops
<1>3. CASE HandleCompat
  BY <1>3 DEF HandleCompat, TakesEvents
<1>4. CASE HandleStop
  <2>1. NamesOK'
    BY <1>4 DEF NamesOK, Loops, HandleStop, TakesEvents, Residuals
  <2>2. FlagsOK'
    BY <1>4 DEF FlagsOK, HandleStop, TakesEvents, Residuals
  <2>3. CountsOK'
    BY <1>4, MaxPhrasesAssumption DEF Counted, CountsOK, HandleStop, TakesEvents, Residuals
  <2>4. EventsOK'
    BY <1>4 DEF EventsOK, HandleStop, TakesEvents, Residuals
  <2> QED  BY <2>1, <2>2, <2>3, <2>4 DEF NamesOK, Loops, FlagsOK, CountsOK, EventsOK, Loops
<1>5. CASE LoopWakes
  <2>1. Turned
    BY <1>5, NextTurnTyped DEF LoopWakes
  <2> QED  BY <1>5, <2>1 DEF LoopWakes, Turned, Loops
<1>6. CASE TurnGranted
  BY <1>6 DEF TurnGranted
<1>7. CASE PhraseSynthesized
  <2>1. phraseCount \in 1..MaxPhrases
    BY <1>7, MaxPhrasesAssumption DEF PhraseSynthesized, Counted, InScheduler
  <2>2. toPut' \in Seq(AudioEvents) /\ Len(toPut') <= 3
    BY <1>7, <2>1, PhraseEventsTyped DEF PhraseSynthesized
  <2> QED  BY <1>7, <2>2 DEF PhraseSynthesized
<1>8. CASE PhraseFails
  <2>1. Turned
    BY <1>8, FailTyped DEF PhraseFails
  <2> QED  BY <1>8, <2>1 DEF PhraseFails, Turned, Loops
<1>9. CASE LoopPuts
  <2>1. Turned /\ output' \in Seq(AudioEvents) /\ Len(output') <= 1
    BY <1>9, LoopPutsTyped
  <2>2. UNCHANGED <<client, wire, refusals, handler, sessionVars, disconnect, missed, loopCancel,
                    fed, done, cancelled, consumerVars>>
    BY <1>9 DEF LoopPuts
  <2> QED  BY <2>1, <2>2 DEF Turned, Loops
<1>10. CASE LoopCancelled
  <2>1. NamesOK'
    BY <1>10 DEF NamesOK, Loops, LoopCancelled
  <2>2. FlagsOK'
    BY <1>10 DEF FlagsOK, LoopCancelled
  <2>3. CountsOK'
    BY <1>10, MaxPhrasesAssumption DEF Counted, CountsOK, LoopCancelled
  <2>4. EventsOK'
    <3>1. <<>> \in Seq(AudioEvents) /\ Len(<<>>) = 0
      OBVIOUS
    <3>2. toPut' = <<>> /\ UNCHANGED <<wire, refusals, output>>
      BY <1>10 DEF LoopCancelled
    <3> QED  BY <3>1, <3>2 DEF EventsOK
  <2> QED  BY <2>1, <2>2, <2>3, <2>4 DEF NamesOK, Loops, FlagsOK, CountsOK, EventsOK, Loops
<1>11. CASE CancelledFromOutside
  BY <1>11 DEF CancelledFromOutside
<1>12. CASE ConsumerGets
  <2>1. NamesOK'
    BY <1>12 DEF NamesOK, Loops, ConsumerGets
  <2>2. FlagsOK'
    BY <1>12 DEF FlagsOK, ConsumerGets
  <2>3. CountsOK'
    BY <1>12, MaxPhrasesAssumption DEF Counted, CountsOK, ConsumerGets
  <2>4. EventsOK'
    <3>1. /\ output # <<>> /\ output' = Tail(output)
          /\ wire' \in {wire, Append(wire, Head(output))} /\ UNCHANGED <<toPut, refusals>>
      BY <1>12 DEF ConsumerGets
    <3>2. Head(output) \in AudioEvents /\ Tail(output) \in Seq(AudioEvents) /\ Len(Tail(output)) <= 1
      BY <3>1
    <3>3. Append(wire, Head(output)) \in Seq(AudioEvents \cup Answers)
      BY <3>2
    <3> QED  BY <3>1, <3>2, <3>3 DEF EventsOK
  <2> QED  BY <2>1, <2>2, <2>3, <2>4 DEF NamesOK, Loops, FlagsOK, CountsOK, EventsOK, Loops
<1>13. CASE ConsumerWrites
  BY <1>13 DEF ConsumerWrites
<1>14. CASE ConsumerWriteFails
  <2>1. NamesOK'
    BY <1>14 DEF NamesOK, Loops, ConsumerWriteFails, CancelBegins
  <2>2. FlagsOK'
    BY <1>14 DEF FlagsOK, ConsumerWriteFails, CancelBegins
  <2>3. CountsOK'
    BY <1>14, MaxPhrasesAssumption DEF Counted, CountsOK, ConsumerWriteFails, CancelBegins
  <2>4. EventsOK'
    BY <1>14 DEF EventsOK, ConsumerWriteFails, CancelBegins
  <2> QED  BY <2>1, <2>2, <2>3, <2>4 DEF NamesOK, Loops, FlagsOK, CountsOK, EventsOK, Loops
<1>15. CASE ConsumerGivesUp
  <2>1. NamesOK'
    BY <1>15 DEF NamesOK, Loops, ConsumerGivesUp, CancelEnds
  <2>2. FlagsOK'
    BY <1>15 DEF FlagsOK, ConsumerGivesUp, CancelEnds
  <2>3. CountsOK'
    BY <1>15, MaxPhrasesAssumption DEF Counted, CountsOK, ConsumerGivesUp, CancelEnds
  <2>4. EventsOK'
    <3>1. Mark("end") \in AudioEvents
      BY MarksAreEvents DEF MarkKinds
    <3>2. <<Mark("end")>> \in Seq(AudioEvents) /\ Len(<<Mark("end")>>) = 1
      BY <3>1
    <3> QED  BY <1>15, <3>2 DEF EventsOK, ConsumerGivesUp, CancelEnds
  <2> QED  BY <2>1, <2>2, <2>3, <2>4 DEF NamesOK, FlagsOK, CountsOK, EventsOK, Loops
<1>16. CASE ConsumerCancelled
  <2>1. NamesOK'
    BY <1>16 DEF NamesOK, Loops, ConsumerCancelled
  <2>2. FlagsOK'
    BY <1>16 DEF FlagsOK, ConsumerCancelled
  <2>3. CountsOK'
    BY <1>16, MaxPhrasesAssumption DEF Counted, CountsOK, ConsumerCancelled
  <2>4. EventsOK'
    BY <1>16 DEF EventsOK, ConsumerCancelled
  <2> QED  BY <2>1, <2>2, <2>3, <2>4 DEF NamesOK, FlagsOK, CountsOK, EventsOK, Loops
<1>17. CASE HandlerAnswers
  <2>1. NamesOK'
    BY <1>17 DEF NamesOK, Loops, HandlerAnswers
  <2>2. FlagsOK'
    BY <1>17 DEF FlagsOK, HandlerAnswers
  <2>3. CountsOK'
    BY <1>17, MaxPhrasesAssumption DEF Counted, CountsOK, HandlerAnswers
  <2>4. EventsOK'
    <3>1. Answer \in Seq(AudioEvents \cup Answers)
      <4> DEFINE yes == Mark("stopped")
                 no == Mark("failed")
      <4>1. yes \in AudioEvents \cup Answers /\ no \in AudioEvents \cup Answers
        BY DEF Answers
      <4>2. Answer = <<no>> \/ Answer = <<yes>> \/ Answer = <<>>
        BY DEF Answer
      <4> HIDE DEF yes, no
      <4>3. /\ <<no>> \in Seq(AudioEvents \cup Answers) /\ <<yes>> \in Seq(AudioEvents \cup Answers)
            /\ <<>> \in Seq(AudioEvents \cup Answers)
        BY <4>1
      <4>4. Answer \in {<<no>>, <<yes>>, <<>>}
        BY <4>2
      <4> QED  BY <4>3, <4>4, Zenon
    <3>2. wire \o Answer \in Seq(AudioEvents \cup Answers)
      BY <3>1
    <3>3. wire' \in {wire, wire \o Answer} /\ UNCHANGED <<toPut, output, refusals>>
      BY <1>17 DEF HandlerAnswers
    <3> QED  BY <3>2, <3>3 DEF EventsOK
  <2> QED  BY <2>1, <2>2, <2>3, <2>4 DEF NamesOK, FlagsOK, CountsOK, EventsOK, Loops
<1>18. CASE HandlerCleansUp
  <2>1. NamesOK'
    BY <1>18 DEF NamesOK, Loops, HandlerCleansUp
  <2>2. FlagsOK'
    BY <1>18 DEF FlagsOK, HandlerCleansUp
  <2>3. CountsOK'
    BY <1>18, MaxPhrasesAssumption DEF Counted, CountsOK, HandlerCleansUp
  <2>4. EventsOK'
    BY <1>18 DEF EventsOK, HandlerCleansUp
  <2> QED  BY <2>1, <2>2, <2>3, <2>4 DEF NamesOK, Loops, FlagsOK, CountsOK, EventsOK, Loops
<1>19. CASE HandlerLeaves
  <2>1. NamesOK'
    BY <1>19 DEF NamesOK, Loops, HandlerLeaves, Disconnects, CancelBegins
  <2>2. FlagsOK'
    BY <1>19, ZenonT(40) DEF FlagsOK, HandlerLeaves, Disconnects, CancelBegins
  <2>3. CountsOK'
    BY <1>19, MaxPhrasesAssumption DEF Counted, CountsOK, HandlerLeaves, Disconnects, CancelBegins
  <2>4. EventsOK'
    BY <1>19 DEF EventsOK, HandlerLeaves, Disconnects, CancelBegins
  <2> QED  BY <2>1, <2>2, <2>3, <2>4 DEF NamesOK, Loops, FlagsOK, CountsOK, EventsOK, Loops
<1>20. CASE HandlerCloses
  BY <1>20 DEF HandlerCloses
<1>21. CASE ServiceDisconnects
  <2>1. NamesOK'
    BY <1>21 DEF NamesOK, Loops, ServiceDisconnects, Disconnects, CancelBegins
  <2>2. FlagsOK'
    BY <1>21 DEF FlagsOK, ServiceDisconnects, Disconnects, CancelBegins
  <2>3. CountsOK'
    BY <1>21, MaxPhrasesAssumption DEF Counted, CountsOK, ServiceDisconnects, Disconnects, CancelBegins
  <2>4. EventsOK'
    BY <1>21 DEF EventsOK, ServiceDisconnects, Disconnects, CancelBegins
  <2> QED  BY <2>1, <2>2, <2>3, <2>4 DEF NamesOK, Loops, FlagsOK, CountsOK, EventsOK, Loops
<1>22. CASE DisconnectReaps
  <2>1. NamesOK'
    BY <1>22 DEF NamesOK, Loops, DisconnectReaps, CancelEnds
  <2>2. FlagsOK'
    BY <1>22 DEF FlagsOK, DisconnectReaps, CancelEnds
  <2>3. CountsOK'
    BY <1>22, MaxPhrasesAssumption DEF Counted, CountsOK, DisconnectReaps, CancelEnds
  <2>4. EventsOK'
    <3>0. Mark("end") \in AudioEvents
      BY MarksAreEvents DEF MarkKinds
    <3>1. <<Mark("end")>> \in Seq(AudioEvents) /\ Len(<<Mark("end")>>) = 1
      BY <3>0
    <3>2. CASE coord
      <4>1. CancelEnds /\ UNCHANGED <<wire, refusals, loopVars>>
        BY <1>22, <3>2 DEF DisconnectReaps
      <4> QED  BY <3>1, <4>1 DEF EventsOK, CancelEnds
    <3>3. CASE ~coord
      BY <1>22, <3>3 DEF EventsOK, DisconnectReaps
    <3> QED  BY <3>2, <3>3
  <2> QED  BY <2>1, <2>2, <2>3, <2>4 DEF NamesOK, FlagsOK, CountsOK, EventsOK, Loops
<1>23. CASE DisconnectEnds
  <2>1. NamesOK'
    BY <1>23 DEF NamesOK, Loops, DisconnectEnds
  <2>2. FlagsOK'
    BY <1>23 DEF FlagsOK, DisconnectEnds
  <2>3. CountsOK'
    BY <1>23, MaxPhrasesAssumption DEF Counted, CountsOK, DisconnectEnds
  <2>4. EventsOK'
    BY <1>23 DEF EventsOK, DisconnectEnds
  <2> QED  BY <2>1, <2>2, <2>3, <2>4 DEF NamesOK, Loops, FlagsOK, CountsOK, EventsOK, Loops
<1>24. CASE ClientLeaves
  BY <1>24 DEF ClientLeaves
<1>25. CASE UNCHANGED vars
  BY <1>25 DEF vars, taskVars
<1>26. CASE TurnTaken
  BY <1>26 DEF TurnTaken
<1>27. CASE HandlerRefuses
  <2>1. Len(wire) \in Nat
    OBVIOUS
  <2>2. refusals' \subseteq Nat
    BY <1>27, <2>1 DEF HandlerRefuses
  <2> QED  BY <1>27, <2>2 DEF HandlerRefuses
<1> QED
  BY <1>1, <1>2, <1>3, <1>4, <1>5, <1>6, <1>7, <1>8, <1>9, <1>10, <1>11, <1>12, <1>13, <1>14, <1>15, <1>16, <1>17, <1>18, <1>19, <1>20, <1>21, <1>22, <1>23, <1>24, <1>25, <1>26, <1>27
     DEF Next, Handler, Loop, Consumer, Disconnect


LEMMA InitOwned == Init => TypeOK /\ Counted /\ Sentinel /\ Owned
<1> SUFFICES ASSUME Init PROVE TypeOK /\ Counted /\ Sentinel /\ Owned
  OBVIOUS
<1>1. TypeOK
  <2>1. <<>> \in Seq(AudioEvents) /\ <<>> \in Seq(AudioEvents \cup Answers) /\ Len(<<>>) = 0
    OBVIOUS
  <2>2. EventsOK
    BY <2>1 DEF Init, EventsOK
  <2>3. NamesOK /\ FlagsOK
    BY DEF Init, NamesOK, FlagsOK, Loops
  <2>4. CountsOK
    BY MaxPhrasesAssumption DEF Init, CountsOK
  <2> QED  BY <2>2, <2>3, <2>4, TypeParts
<1>2. Counted
  BY DEF Init, Counted, InScheduler
<1>3. Sentinel
  BY DEF Init, Sentinel
<1>4. Owned
  BY DEF Init, Owned, CancelReaches, Reaped, Settled, Freed
<1> QED  BY <1>1, <1>2, <1>3, <1>4

LEMMA OwnedInvariant == Spec => [](TypeOK /\ Counted /\ Sentinel /\ Owned)
<1>1. TypeOK /\ Counted /\ Sentinel /\ Owned /\ [Next]_vars => (TypeOK /\ Counted /\ Sentinel /\ Owned)'
  BY TypedStep, CountedStep, SentinelStep, OwnedStep
<1> QED  BY <1>1, InitOwned, PTL DEF Spec

\* Every variable keeps its type, for any number of phrases.
THEOREM TypeCorrect == Spec => []TypeOK
BY OwnedInvariant, PTL

\* When disconnect() is over, the loop is out of the scheduler or being
\* cancelled there, also a loop whose session the handler had given up
\* (wyoming_server.py:1685-1703), unless the worker was just being handed to it
\* (scheduler.py:266-271), which takes a client whose transport was lost.
THEOREM WorkerReleasedHolds == Spec => []WorkerReleased
<1>1. Owned => WorkerReleased
  BY DEF Owned, Freed, WorkerReleased, InScheduler
<1> QED  BY <1>1, OwnedInvariant, PTL

-----------------------------------------------------------------------------
(***************************************************************************)
(* The second part: one envelope, and no success that is not one.          *)
(***************************************************************************)

(* Sequences of events.                                                    *)

Event == AudioEvents \cup Answers

LastOf(s) == IF s = <<>> THEN Mark("none") ELSE s[Len(s)]

LEMMA MarkFacts ==
    /\ \A a : Mark(a).kind = a /\ Mark(a).phrase = 0
    /\ \A n : Chunk(n).kind = "chunk" /\ Chunk(n).phrase = n
BY DEF Mark, Chunk

LEMMA AppendFacts ==
    ASSUME NEW s \in Seq(Event), NEW x \in Event
    PROVE  /\ Append(s, x) \in Seq(Event) /\ Append(s, x) # <<>>
           /\ Len(s) \in Nat /\ Len(Append(s, x)) = Len(s) + 1
           /\ \A i \in 1..Len(s) : Append(s, x)[i] = s[i]
           /\ Append(s, x)[Len(s) + 1] = x
           /\ LastOf(Append(s, x)) = x
<1>1. /\ Append(s, x) \in Seq(Event)
      /\ Len(s) \in Nat /\ Len(Append(s, x)) = Len(s) + 1
      /\ \A i \in 1..Len(s) : Append(s, x)[i] = s[i]
      /\ Append(s, x)[Len(s) + 1] = x
  BY AppendProperties, LenProperties
<1>2. Append(s, x) # <<>>
  BY <1>1, EmptySeq
<1> QED  BY <1>1, <1>2 DEF LastOf

\* The audio of k phrases, as the client hears it: no start without a phrase.
Spoken(k) == IF k = 0 THEN <<>> ELSE Audio(k)

LEMMA AudioFacts ==
    ASSUME NEW k \in 1..MaxPhrases
    PROVE  /\ Audio(k) \in Seq(Event) /\ Len(Audio(k)) = k + 1 /\ Audio(k) # <<>>
           /\ Audio(k)[1] = Mark("start")
           /\ \A i \in 2..(k + 1) : Audio(k)[i] = Chunk(i - 1)
           /\ LastOf(Audio(k)) = Chunk(k)
<1>0. k \in Nat /\ k + 1 \in Nat
  BY MaxPhrasesAssumption
<1>1. \A i \in 1..(k + 1) : Audio(k)[i] = IF i = 1 THEN Mark("start") ELSE Chunk(i - 1)
  BY <1>0 DEF Audio
<1>2. \A i \in 1..(k + 1) : Audio(k)[i] \in Event
  <2>1. Mark("start") \in Event
    BY MarksAreEvents DEF MarkKinds, Event
  <2>2. \A i \in 2..(k + 1) : Chunk(i - 1) \in Event
    <3> SUFFICES ASSUME NEW i \in 2..(k + 1) PROVE Chunk(i - 1) \in Event
      OBVIOUS
    <3>1. i - 1 \in 1..MaxPhrases
      BY <1>0, MaxPhrasesAssumption
    <3> QED  BY <3>1, ChunksAreEvents DEF Event
  <2> QED  BY <1>0, <1>1, <2>1, <2>2
<1>3. Audio(k) = [i \in 1..(k + 1) |-> Audio(k)[i]]
  BY <1>0 DEF Audio
<1>4. Audio(k) \in Seq(Event) /\ Len(Audio(k)) = k + 1
  <2> DEFINE f == Audio(k)
  <2>1. f \in [1..(k + 1) -> Event]
    BY <1>2, <1>3
  <2> HIDE DEF f
  <2>2. f \in Seq(Event) /\ Len(f) = k + 1
    BY <1>0, <2>1
  <2> QED  BY <2>2 DEF f
<1>5. Audio(k) # <<>>
  BY <1>0, <1>4, EmptySeq
<1>6. 1 \in 1..(k + 1) /\ k + 1 \in 1..(k + 1) /\ k + 1 # 1
  BY <1>0
<1> QED  BY <1>0, <1>1, <1>4, <1>5, <1>6 DEF LastOf

LEMMA StartFacts ==
    /\ <<Mark("start")>> \in Seq(Event) /\ Len(<<Mark("start")>>) = 1
    /\ <<Mark("start")>> # <<>> /\ <<Mark("start")>>[1] = Mark("start")
    /\ LastOf(<<Mark("start")>>) = Mark("start")
    /\ Append(<<>>, Mark("start")) = <<Mark("start")>>
<1>1. Mark("start") \in Event
  BY MarksAreEvents DEF MarkKinds, Event
<1> QED  BY <1>1 DEF LastOf

\* The next phrase makes the audio one longer.
LEMMA AudioGrows ==
    /\ MaxPhrases > 0 => Append(<<Mark("start")>>, Chunk(1)) = Audio(1)
    /\ \A k \in 1..MaxPhrases :
          k + 1 \in 1..MaxPhrases => Append(Audio(k), Chunk(k + 1)) = Audio(k + 1)
<1>1. ASSUME MaxPhrases > 0 PROVE Append(<<Mark("start")>>, Chunk(1)) = Audio(1)
  <2> DEFINE s == <<Mark("start")>>
             t == Append(s, Chunk(1))
  <2>1. 1 \in 1..MaxPhrases
    BY <1>1, MaxPhrasesAssumption
  <2>2. Chunk(1) \in Event
    BY <2>1, ChunksAreEvents DEF Event
  <2>3. s \in Seq(Event) /\ Len(s) = 1 /\ s[1] = Mark("start")
    BY StartFacts
  <2> HIDE DEF s
  <2>4. t \in Seq(Event) /\ Len(t) = 2 /\ t[1] = Mark("start") /\ t[2] = Chunk(1)
    <3>1. /\ t \in Seq(Event) /\ Len(t) = Len(s) + 1
          /\ \A i \in 1..Len(s) : t[i] = s[i]
          /\ t[Len(s) + 1] = Chunk(1)
      BY <2>2, <2>3, AppendFacts
    <3> HIDE DEF t
    <3> QED  BY <2>3, <3>1
  <2>5. /\ Audio(1) \in Seq(Event) /\ Len(Audio(1)) = 2
        /\ Audio(1)[1] = Mark("start") /\ Audio(1)[2] = Chunk(1)
    <3>1. /\ Audio(1) \in Seq(Event) /\ Len(Audio(1)) = 1 + 1
          /\ Audio(1)[1] = Mark("start")
          /\ \A i \in 2..(1 + 1) : Audio(1)[i] = Chunk(i - 1)
      BY <2>1, AudioFacts
    <3>2. 2 \in 2..(1 + 1) /\ 2 - 1 = 1 /\ 1 + 1 = 2
      OBVIOUS
    <3> QED  BY <3>1, <3>2
  <2> HIDE DEF t
  <2>6. t = Audio(1)
    BY <2>4, <2>5, SeqEqual
  <2> QED  BY <2>6 DEF t, s
<1>2. ASSUME NEW k \in 1..MaxPhrases, k + 1 \in 1..MaxPhrases
      PROVE  Append(Audio(k), Chunk(k + 1)) = Audio(k + 1)
  <2> DEFINE s == Audio(k)
             t == Append(s, Chunk(k + 1))
             u == Audio(k + 1)
  <2>1. Chunk(k + 1) \in Event /\ k \in Nat
    BY <1>2, ChunksAreEvents DEF Event
  <2>2. /\ s \in Seq(Event) /\ Len(s) = k + 1 /\ s[1] = Mark("start")
        /\ \A i \in 2..(k + 1) : s[i] = Chunk(i - 1)
    BY AudioFacts
  <2>3. /\ u \in Seq(Event) /\ Len(u) = k + 2 /\ u[1] = Mark("start")
        /\ \A i \in 2..(k + 2) : u[i] = Chunk(i - 1)
    <3>1. (k + 1) + 1 = k + 2
      BY <2>1
    <3> QED  BY <1>2, <3>1, AudioFacts
  <2> HIDE DEF s, u
  <2>4. /\ t \in Seq(Event) /\ Len(t) = k + 2
        /\ \A i \in 1..(k + 1) : t[i] = s[i]
        /\ t[k + 2] = Chunk(k + 1)
    BY <2>1, <2>2, AppendFacts
  <2> HIDE DEF t
  <2>5. \A i \in 1..(k + 2) : t[i] = u[i]
    <3> SUFFICES ASSUME NEW i \in 1..(k + 2) PROVE t[i] = u[i]
      OBVIOUS
    <3>1. CASE i = 1
      BY <2>1, <2>2, <2>3, <2>4, <3>1
    <3>2. CASE i \in 2..(k + 1)
      BY <2>1, <2>2, <2>3, <2>4, <3>2
    <3>3. CASE i = k + 2
      BY <2>1, <2>3, <2>4, <3>3
    <3> QED  BY <2>1, <3>1, <3>2, <3>3
  <2>6. t = u
    BY <2>3, <2>4, <2>5, SeqEqual
  <2> QED  BY <2>6 DEF t, s, u
<1> QED  BY <1>1, <1>2

LEMMA ConcatOne ==
    ASSUME NEW s \in Seq(Event), NEW a \in Event
    PROVE  s \o <<a>> = Append(s, a)
<1>1. <<a>> \in Seq(Event) /\ Len(<<a>>) = 1 /\ <<a>>[1] = a /\ Len(s) \in Nat
  BY LenProperties
<1> DEFINE u == s \o <<a>>
           t == Append(s, a)
<1>2. /\ u \in Seq(Event) /\ Len(u) = Len(s) + 1
      /\ \A i \in 1..(Len(s) + 1) : u[i] = IF i <= Len(s) THEN s[i] ELSE <<a>>[i - Len(s)]
  BY <1>1, ConcatProperties
<1>3. /\ t \in Seq(Event) /\ Len(t) = Len(s) + 1
      /\ \A i \in 1..Len(s) : t[i] = s[i]
      /\ t[Len(s) + 1] = a
  BY AppendFacts
<1> HIDE DEF u, t
<1>4. \A i \in 1..(Len(s) + 1) : u[i] = t[i]
  BY <1>1, <1>2, <1>3
<1> QED  BY <1>2, <1>3, <1>4, SeqEqual DEF u, t

LEMMA TupleAppend ==
    ASSUME NEW a \in Event, NEW b \in Event, NEW c \in Event
    PROVE  /\ <<a, b>> \in Seq(Event) /\ Append(<<a>>, b) = <<a, b>>
           /\ <<a, b, c>> \in Seq(Event) /\ Append(<<a, b>>, c) = <<a, b, c>>
<1>1. <<a>> \in Seq(Event) /\ Len(<<a>>) = 1 /\ <<a>>[1] = a
  OBVIOUS
<1> DEFINE p == Append(<<a>>, b)
           q == <<a, b>>
<1>2. p \in Seq(Event) /\ Len(p) = 1 + 1 /\ (\A i \in 1..1 : p[i] = <<a>>[i]) /\ p[1 + 1] = b
  BY <1>1, AppendFacts
<1>3. q \in Seq(Event) /\ Len(q) = 2 /\ q[1] = a /\ q[2] = b
  OBVIOUS
<1> HIDE DEF p, q
<1>4. p = q
  <2>1. \A i \in 1..2 : p[i] = q[i]
    BY <1>1, <1>2, <1>3
  <2> QED  BY <1>2, <1>3, <2>1, SeqEqual
<1> DEFINE t == Append(q, c)
           u == <<a, b, c>>
<1>5. t \in Seq(Event) /\ Len(t) = 2 + 1 /\ (\A i \in 1..2 : t[i] = q[i]) /\ t[2 + 1] = c
  <2>1. q \in Seq(Event) /\ c \in Event /\ Len(q) = 2
    BY <1>3
  <2>2. /\ t \in Seq(Event) /\ Len(t) = Len(q) + 1
        /\ \A i \in 1..Len(q) : t[i] = q[i]
        /\ t[Len(q) + 1] = c
    BY <2>1, AppendFacts
  <2> HIDE DEF t
  <2> QED  BY <2>1, <2>2
<1>6. u \in Seq(Event) /\ Len(u) = 3 /\ u[1] = a /\ u[2] = b /\ u[3] = c
  OBVIOUS
<1> HIDE DEF t, u
<1>7. t = u
  <2>1. \A i \in 1..3 : t[i] = u[i]
    BY <1>3, <1>5, <1>6
  <2> QED  BY <1>5, <1>6, <2>1, SeqEqual
<1> QED  BY <1>3, <1>4, <1>6, <1>7 DEF p, q, t, u

LEMMA ConcatMore ==
    ASSUME NEW s \in Seq(Event), NEW a \in Event, NEW b \in Event, NEW c \in Event
    PROVE  /\ s \o <<a, b>> = Append(Append(s, a), b)
           /\ s \o <<a, b, c>> = Append(Append(Append(s, a), b), c)
<1>1. <<a>> \in Seq(Event) /\ <<b>> \in Seq(Event) /\ <<c>> \in Seq(Event)
  OBVIOUS
<1>2. <<a, b>> = <<a>> \o <<b>> /\ <<a, b>> \in Seq(Event)
  <2>1. Append(<<a>>, b) = <<a, b>>
    BY TupleAppend
  <2>2. Append(<<a>>, b) \in Seq(Event)
    BY <1>1, AppendFacts
  <2> QED  BY <1>1, <2>1, <2>2, ConcatOne
<1>3. <<a, b, c>> = <<a, b>> \o <<c>>
  <2>1. Append(<<a, b>>, c) = <<a, b, c>>
    BY TupleAppend
  <2> QED  BY <1>2, <2>1, ConcatOne
<1>6. /\ s \o <<a, b>> = (s \o <<a>>) \o <<b>>
      /\ s \o <<a, b, c>> = (s \o <<a, b>>) \o <<c>>
  <2> DEFINE ab == <<a, b>>
             abc == <<a, b, c>>
  <2>1. ab = <<a>> \o <<b>> /\ ab \in Seq(Event) /\ abc = ab \o <<c>>
    BY <1>2, <1>3
  <2> HIDE DEF ab, abc
  <2>2. /\ s \o ab = (s \o <<a>>) \o <<b>>
        /\ s \o abc = (s \o ab) \o <<c>>
    BY <1>1, <2>1, ConcatAssociative
  <2> QED  BY <2>2 DEF ab, abc
<1>4. Append(s, a) \in Seq(Event)
  BY AppendFacts
<1>5. Append(Append(s, a), b) \in Seq(Event)
  BY <1>4, AppendFacts
<1> QED  BY <1>4, <1>5, <1>6, ConcatOne

LEMMA ConcatTwo ==
    ASSUME NEW s \in Seq(Event), NEW a \in Event, NEW b \in Event
    PROVE  s \o <<a, b>> = Append(Append(s, a), b)
BY ConcatMore

-----------------------------------------------------------------------------
(* The stages of what the client has been sent.                            *)

Talk(w)   == w = <<Mark("start")>> \/ \E k \in 0..MaxPhrases : w = Spoken(k)
Closed(w) == \E k \in 1..MaxPhrases : w = Append(Audio(k), Mark("stop"))
Erred(w)  == \E v : (v = <<>> \/ Closed(v)) /\ w = Append(v, Mark("error"))

Unanswered(w) == Talk(w) \/ Closed(w) \/ Erred(w)

\* All of the text was spoken and the audio closed.
Good(w) == IF fed = 0 THEN w = <<>> ELSE w = Append(Audio(fed), Mark("stop"))

Answered(w) ==
    \E v : \/ Unanswered(v) /\ w = Append(v, Mark("failed"))
           \/ Good(v) /\ w = Append(v, Mark("stopped"))

\* The event y may be sent right after x.
Follows(x, y) ==
    \/ y = Mark("start") /\ x = Mark("none")
    \/ y = Mark("error") /\ x \in {Mark("none"), Mark("stop")}
    \/ y = Mark("stop") /\ x.kind = "chunk"
    \/ \E n \in Nat : y = Chunk(n + 1) /\ x = IF n = 0 THEN Mark("start") ELSE Chunk(n)

LEMMA MarksInEvent ==
    /\ Mark("start") \in Event /\ Mark("stop") \in Event /\ Mark("error") \in Event
    /\ Mark("stopped") \in Event /\ Mark("failed") \in Event
BY MarksAreEvents DEF MarkKinds, Event, Answers

LEMMA ClosedFacts ==
    ASSUME NEW w, Closed(w)
    PROVE  w \in Seq(Event) /\ LastOf(w) = Mark("stop")
BY AudioFacts, AppendFacts, MarksInEvent DEF Closed

LEMMA ErredFacts ==
    ASSUME NEW w, Erred(w)
    PROVE  w \in Seq(Event) /\ LastOf(w) = Mark("error")
<1>1. PICK v : (v = <<>> \/ Closed(v)) /\ w = Append(v, Mark("error"))
  BY DEF Erred
<1>2. v \in Seq(Event)
  BY <1>1, ClosedFacts, EmptySeq
<1> QED  BY <1>1, <1>2, AppendFacts, MarksInEvent

\* The last event tells the stage.
LEMMA Stages ==
    ASSUME NEW w, Unanswered(w)
    PROVE  /\ w \in Seq(Event)
           /\ \/ w = <<>> /\ LastOf(w) = Mark("none")
              \/ w = <<Mark("start")>> /\ LastOf(w) = Mark("start")
              \/ \E k \in 1..MaxPhrases : w = Audio(k) /\ LastOf(w) = Chunk(k)
              \/ Closed(w) /\ LastOf(w) = Mark("stop")
              \/ Erred(w) /\ LastOf(w) = Mark("error")
<1>1. CASE w = <<Mark("start")>>
  BY <1>1, StartFacts
<1>2. ASSUME NEW k \in 0..MaxPhrases, w = Spoken(k) PROVE
           /\ w \in Seq(Event)
           /\ \/ w = <<>> /\ LastOf(w) = Mark("none")
              \/ \E j \in 1..MaxPhrases : w = Audio(j) /\ LastOf(w) = Chunk(j)
  <2>1. CASE k = 0
    BY <1>2, <2>1, EmptySeq DEF Spoken, LastOf
  <2>2. CASE k # 0
    <3>1. k \in 1..MaxPhrases /\ w = Audio(k)
      BY <1>2, <2>2, MaxPhrasesAssumption DEF Spoken
    <3> QED  BY <3>1, AudioFacts
  <2> QED  BY <2>1, <2>2
<1>3. CASE Closed(w)
  BY <1>3, ClosedFacts
<1>4. CASE Erred(w)
  BY <1>4, ErredFacts
<1> QED  BY <1>1, <1>2, <1>3, <1>4 DEF Unanswered, Talk

\* One more event in its turn.
LEMMA Grows ==
    ASSUME NEW w, Unanswered(w), NEW x \in AudioEvents, Follows(LastOf(w), x)
    PROVE  Unanswered(Append(w, x))
<1> DEFINE y == LastOf(w)
<1>0. /\ \/ w = <<>> /\ y = Mark("none")
         \/ w = <<Mark("start")>> /\ y = Mark("start")
         \/ \E k \in 1..MaxPhrases : w = Audio(k) /\ y = Chunk(k)
         \/ Closed(w) /\ y = Mark("stop")
         \/ Erred(w) /\ y = Mark("error")
      /\ Follows(y, x)
  BY Stages
<1> HIDE DEF y
<1> USE MarkFacts
<1>1. CASE x = Mark("start") /\ y = Mark("none")
  <2>1. w = <<>>
    BY <1>0, <1>1
  <2> QED  BY <1>1, <2>1, StartFacts DEF Unanswered, Talk
<1>2. CASE x = Mark("error") /\ y \in {Mark("none"), Mark("stop")}
  <2>1. w = <<>> \/ Closed(w)
    BY <1>0, <1>2
  <2> QED  BY <1>2, <2>1 DEF Unanswered, Erred
<1>3. CASE x = Mark("stop") /\ y.kind = "chunk"
  <2>1. PICK k \in 1..MaxPhrases : w = Audio(k)
    BY <1>0, <1>3
  <2> QED  BY <1>3, <2>1 DEF Unanswered, Closed
<1>4. ASSUME NEW n \in Nat, x = Chunk(n + 1), y = IF n = 0 THEN Mark("start") ELSE Chunk(n)
      PROVE  Unanswered(Append(w, x))
  <2>1. n + 1 \in 1..MaxPhrases
    <3>1. x.kind = "chunk" /\ x.phrase = n + 1
      BY <1>4
    <3>2. PICK m \in 1..MaxPhrases : x = Chunk(m)
      BY <3>1 DEF AudioEvents
    <3>3. m = n + 1
      BY <3>1, <3>2
    <3> QED  BY <3>3
  <2>2. CASE n = 0
    <3>1. w = <<Mark("start")>> /\ MaxPhrases > 0
      BY <1>0, <1>4, <2>1, <2>2, MaxPhrasesAssumption
    <3>2. Append(w, x) = Spoken(1) /\ 1 \in 0..MaxPhrases
      BY <1>4, <2>2, <3>1, AudioGrows, MaxPhrasesAssumption DEF Spoken
    <3> QED  BY <3>2 DEF Unanswered, Talk
  <2>3. CASE n # 0
    <3>1. y.kind = "chunk" /\ y.phrase = n
      BY <1>4, <2>3
    <3>2. PICK k \in 1..MaxPhrases : w = Audio(k) /\ y = Chunk(k)
      BY <1>0, <3>1
    <3>3. k = n
      BY <3>1, <3>2
    <3>4. Append(w, x) = Audio(n + 1)
      BY <1>4, <2>1, <3>2, <3>3, AudioGrows
    <3>5. Append(w, x) = Spoken(n + 1) /\ n + 1 \in 0..MaxPhrases
      BY <2>1, <3>4, MaxPhrasesAssumption DEF Spoken
    <3> QED  BY <3>5 DEF Unanswered, Talk
  <2> QED  BY <2>2, <2>3
<1> QED  BY <1>0, <1>1, <1>2, <1>3, <1>4 DEF Follows

\* No answer is among the events before it.
LEMMA NoneAnswers ==
    ASSUME NEW w, Unanswered(w), NEW i \in 1..Len(w)
    PROVE  w[i] # Mark("stopped") /\ w[i] # Mark("failed")
<1> USE MarkFacts
<1>1. ASSUME NEW k \in 1..MaxPhrases, NEW j \in 1..Len(Audio(k))
      PROVE  Audio(k)[j].kind \in {"start", "chunk"}
  <2>1. /\ k \in Nat /\ j \in 1..(k + 1) /\ Audio(k)[1] = Mark("start")
        /\ \A m \in 2..(k + 1) : Audio(k)[m] = Chunk(m - 1)
    BY AudioFacts
  <2>2. CASE j = 1
    BY <2>1, <2>2
  <2>3. CASE j # 1
    <3>1. j \in 2..(k + 1)
      BY <2>1, <2>3
    <3> QED  BY <2>1, <3>1
  <2> QED  BY <2>2, <2>3
<1>2. ASSUME NEW v, Closed(v), NEW j \in 1..Len(v)
      PROVE  v[j].kind \in {"start", "chunk", "stop"}
  <2>1. PICK k \in 1..MaxPhrases : v = Append(Audio(k), Mark("stop"))
    BY <1>2 DEF Closed
  <2>2. /\ Len(Audio(k)) \in Nat /\ Len(v) = Len(Audio(k)) + 1
        /\ \A m \in 1..Len(Audio(k)) : v[m] = Audio(k)[m]
        /\ v[Len(Audio(k)) + 1] = Mark("stop")
    BY <2>1, AudioFacts, AppendFacts, MarksInEvent
  <2> QED  BY <1>1, <2>2
<1>3. CASE w = <<Mark("start")>>
  BY <1>3
<1>4. ASSUME NEW k \in 0..MaxPhrases, w = Spoken(k) PROVE w[i].kind \in {"start", "chunk"}
  <2>1. k # 0
    BY <1>4 DEF Spoken
  <2>2. k \in 1..MaxPhrases /\ w = Audio(k)
    BY <1>4, <2>1, MaxPhrasesAssumption DEF Spoken
  <2> QED  BY <1>1, <2>2
<1>5. CASE Closed(w)
  BY <1>2, <1>5
<1>6. CASE Erred(w)
  <2>1. PICK v : (v = <<>> \/ Closed(v)) /\ w = Append(v, Mark("error"))
    BY <1>6 DEF Erred
  <2>2. v \in Seq(Event)
    BY <2>1, ClosedFacts, EmptySeq
  <2>3. /\ Len(v) \in Nat /\ Len(w) = Len(v) + 1
        /\ \A m \in 1..Len(v) : w[m] = v[m]
        /\ w[Len(v) + 1] = Mark("error")
    BY <2>1, <2>2, AppendFacts, MarksInEvent
  <2>4. CASE i = Len(v) + 1
    BY <2>3, <2>4
  <2>5. CASE i # Len(v) + 1
    <3>1. i \in 1..Len(v)
      BY <2>3, <2>5
    <3>2. Closed(v)
      BY <2>1, <3>1
    <3>3. v[i].kind \in {"start", "chunk", "stop"}
      BY <1>2, <3>1, <3>2
    <3> QED  BY <2>3, <3>1, <3>3
  <2> QED  BY <2>4, <2>5
<1> QED  BY <1>3, <1>4, <1>5, <1>6 DEF Unanswered, Talk

LEMMA SpokenFacts ==
    ASSUME NEW k \in 0..MaxPhrases
    PROVE  /\ Spoken(k) \in Seq(Event)
           /\ Spoken(k) = IF k = 0 THEN <<>> ELSE Audio(k)
           /\ k # 0 => k \in 1..MaxPhrases
BY AudioFacts, EmptySeq, MaxPhrasesAssumption DEF Spoken

LEMMA EndingsFacts ==
    /\ \A k \in 0..MaxPhrases : <<>> \in Endings(k) /\ <<Mark("failed")>> \in Endings(k)
    /\ {<<Mark("stopped")>>, <<Mark("error")>>, <<Mark("error"), Mark("failed")>>} \subseteq Endings(0)
    /\ \A k \in 1..MaxPhrases :
          {<<Mark("stop")>>, <<Mark("stop"), Mark("stopped")>>, <<Mark("stop"), Mark("failed")>>,
           <<Mark("stop"), Mark("error")>>, <<Mark("stop"), Mark("error"), Mark("failed")>>}
              \subseteq Endings(k)
<1>1. \A k \in 0..MaxPhrases : <<>> \in Endings(k) /\ <<Mark("failed")>> \in Endings(k)
  BY DEF Endings
<1>2. {<<Mark("stopped")>>, <<Mark("error")>>, <<Mark("error"), Mark("failed")>>} \subseteq Endings(0)
  BY DEF Endings
<1>3. ASSUME NEW k \in 1..MaxPhrases
      PROVE  {<<Mark("stop")>>, <<Mark("stop"), Mark("stopped")>>, <<Mark("stop"), Mark("failed")>>,
              <<Mark("stop"), Mark("error")>>, <<Mark("stop"), Mark("error"), Mark("failed")>>}
                  \subseteq Endings(k)
  <2> DEFINE st == <<Mark("stop")>>
  <2>1. st \in Seq(Event)
    BY MarksInEvent
  <2>2. /\ st = st \o <<>>
        /\ <<Mark("stop"), Mark("stopped")>> = st \o <<Mark("stopped")>>
        /\ <<Mark("stop"), Mark("failed")>> = st \o <<Mark("failed")>>
        /\ <<Mark("stop"), Mark("error")>> = st \o <<Mark("error")>>
    BY <2>1, ConcatEmptySeq, ConcatOne, TupleAppend, MarksInEvent
  <2>3. <<Mark("stop"), Mark("error"), Mark("failed")>> = st \o <<Mark("error"), Mark("failed")>>
    <3>1. st \o <<Mark("error"), Mark("failed")>> = Append(Append(st, Mark("error")), Mark("failed"))
      BY <2>1, ConcatMore, MarksInEvent
    <3> QED  BY <3>1, TupleAppend, MarksInEvent
  <2>4. k # 0
    OBVIOUS
  <2>5. {st \o e : e \in {<<>>, <<Mark("stopped")>>, <<Mark("failed")>>, <<Mark("error")>>,
                          <<Mark("error"), Mark("failed")>>}} \subseteq Endings(k)
    BY <2>4 DEF Endings
  <2> HIDE DEF st
  <2>6. {st, <<Mark("stop"), Mark("stopped")>>, <<Mark("stop"), Mark("failed")>>,
         <<Mark("stop"), Mark("error")>>, <<Mark("stop"), Mark("error"), Mark("failed")>>}
            \subseteq Endings(k)
    BY <2>2, <2>3, <2>5
  <2> QED  BY <2>6 DEF st
<1> QED  BY <1>1, <1>2, <1>3

\* w is one envelope, perhaps cut short, perhaps answered.
Whole(w) ==
    \E k \in 0..MaxPhrases : \E e \in Endings(k) :
        w = Spoken(k) \o e \/ w = <<Mark("start")>> \o e

LEMMA TalkWhole ==
    ASSUME NEW w, Talk(w)
    PROVE  Whole(w) /\ Whole(Append(w, Mark("failed")))
<1>1. CASE w = <<Mark("start")>>
  <2>1. w \in Seq(Event)
    BY <1>1, StartFacts
  <2>2. w = w \o <<>> /\ Append(w, Mark("failed")) = w \o <<Mark("failed")>>
    BY <2>1, ConcatEmptySeq, ConcatOne, MarksInEvent
  <2>3. 0 \in 0..MaxPhrases /\ <<>> \in Endings(0) /\ <<Mark("failed")>> \in Endings(0)
    BY EndingsFacts, MaxPhrasesAssumption
  <2> QED  BY <1>1, <2>2, <2>3 DEF Whole
<1>2. ASSUME NEW k \in 0..MaxPhrases, w = Spoken(k)
      PROVE  Whole(w) /\ Whole(Append(w, Mark("failed")))
  <2>1. w \in Seq(Event)
    BY <1>2, SpokenFacts
  <2>2. w = w \o <<>> /\ Append(w, Mark("failed")) = w \o <<Mark("failed")>>
    BY <2>1, ConcatEmptySeq, ConcatOne, MarksInEvent
  <2> QED  BY <1>2, <2>2, EndingsFacts DEF Whole
<1> QED  BY <1>1, <1>2 DEF Talk

\* The closed audio of k phrases, alone or with what may follow it.
LEMMA ClosedWhole ==
    ASSUME NEW k \in 1..MaxPhrases
    PROVE  LET v == Append(Audio(k), Mark("stop"))
           IN  /\ Whole(v)
               /\ Whole(Append(v, Mark("stopped"))) /\ Whole(Append(v, Mark("failed")))
               /\ Whole(Append(v, Mark("error")))
               /\ Whole(Append(Append(v, Mark("error")), Mark("failed")))
<1> DEFINE a == Audio(k)
           v == Append(a, Mark("stop"))
<1>1. a \in Seq(Event) /\ k \in 0..MaxPhrases /\ a = Spoken(k)
  BY AudioFacts, MaxPhrasesAssumption DEF Spoken
<1> HIDE DEF a
<1>2. /\ v = a \o <<Mark("stop")>>
      /\ Append(v, Mark("stopped")) = a \o <<Mark("stop"), Mark("stopped")>>
      /\ Append(v, Mark("failed")) = a \o <<Mark("stop"), Mark("failed")>>
      /\ Append(v, Mark("error")) = a \o <<Mark("stop"), Mark("error")>>
      /\ Append(Append(v, Mark("error")), Mark("failed"))
            = a \o <<Mark("stop"), Mark("error"), Mark("failed")>>
  <2>1. v = a \o <<Mark("stop")>>
    BY <1>1, ConcatOne, MarksInEvent
  <2>2. /\ Append(v, Mark("stopped")) = a \o <<Mark("stop"), Mark("stopped")>>
        /\ Append(v, Mark("failed")) = a \o <<Mark("stop"), Mark("failed")>>
    BY <1>1, ConcatTwo, MarksInEvent
  <2>3. /\ Append(v, Mark("error")) = a \o <<Mark("stop"), Mark("error")>>
        /\ Append(Append(v, Mark("error")), Mark("failed"))
              = a \o <<Mark("stop"), Mark("error"), Mark("failed")>>
    BY <1>1, ConcatMore, MarksInEvent
  <2> QED  BY <2>1, <2>2, <2>3
<1> HIDE DEF v
<1>3. /\ Whole(v)
      /\ Whole(Append(v, Mark("stopped"))) /\ Whole(Append(v, Mark("failed")))
      /\ Whole(Append(v, Mark("error")))
      /\ Whole(Append(Append(v, Mark("error")), Mark("failed")))
  BY <1>1, <1>2, EndingsFacts DEF Whole
<1> QED  BY <1>3 DEF v, a

\* The same without audio.
LEMMA SilentWhole ==
    /\ Whole(Append(<<>>, Mark("stopped"))) /\ Whole(Append(<<>>, Mark("error")))
    /\ Whole(Append(Append(<<>>, Mark("error")), Mark("failed")))
<1>1. <<>> \in Seq(Event) /\ Spoken(0) = <<>> /\ 0 \in 0..MaxPhrases
  BY EmptySeq, MaxPhrasesAssumption DEF Spoken
<1>2. /\ Append(<<>>, Mark("stopped")) = <<>> \o <<Mark("stopped")>>
      /\ Append(<<>>, Mark("error")) = <<>> \o <<Mark("error")>>
      /\ Append(Append(<<>>, Mark("error")), Mark("failed")) = <<>> \o <<Mark("error"), Mark("failed")>>
  <2> DEFINE s == <<>>
  <2>1. s \in Seq(Event)
    BY <1>1
  <2> HIDE DEF s
  <2>2. /\ Append(s, Mark("stopped")) = s \o <<Mark("stopped")>>
        /\ Append(s, Mark("error")) = s \o <<Mark("error")>>
        /\ Append(Append(s, Mark("error")), Mark("failed")) = s \o <<Mark("error"), Mark("failed")>>
    BY <2>1, ConcatOne, ConcatMore, MarksInEvent
  <2> QED  BY <2>2 DEF s
<1> QED  BY <1>1, <1>2, EndingsFacts DEF Whole

LEMMA StagesWhole ==
    ASSUME fed \in 0..MaxPhrases, NEW w, Unanswered(w) \/ Answered(w)
    PROVE  Whole(w)
<1>1. ASSUME NEW v, Erred(v) PROVE Whole(v) /\ Whole(Append(v, Mark("failed")))
  <2>1. PICK u : (u = <<>> \/ Closed(u)) /\ v = Append(u, Mark("error"))
    BY <1>1 DEF Erred
  <2>2. CASE u = <<>>
    BY <2>1, <2>2, SilentWhole
  <2>3. CASE Closed(u)
    BY <2>1, <2>3, ClosedWhole DEF Closed
  <2> QED  BY <2>1, <2>2, <2>3
<1>2. ASSUME NEW v, Unanswered(v) PROVE Whole(v) /\ Whole(Append(v, Mark("failed")))
  BY <1>1, <1>2, TalkWhole, ClosedWhole DEF Unanswered, Closed
<1>3. ASSUME NEW v, Good(v) PROVE Whole(Append(v, Mark("stopped")))
  <2>1. CASE fed = 0
    BY <1>3, <2>1, SilentWhole DEF Good
  <2>2. CASE fed # 0
    <3>1. fed \in 1..MaxPhrases
      BY <2>2, SpokenFacts
    <3> QED  BY <1>3, <2>2, <3>1, ClosedWhole DEF Good
  <2> QED  BY <2>1, <2>2
<1> QED  BY <1>2, <1>3 DEF Answered

LEMMA StagesTrue ==
    ASSUME fed \in 0..MaxPhrases, Unanswered(wire) \/ Answered(wire)
    PROVE  NoFalseSuccess
<1> SUFFICES ASSUME NEW i \in DOMAIN wire, wire[i] = Mark("stopped")
             PROVE  wire = (IF fed = 0 THEN <<>> ELSE Audio(fed) \o <<Mark("stop")>>)
                           \o <<Mark("stopped")>>
  BY DEF NoFalseSuccess
<1>0. ASSUME NEW v, Unanswered(v), v \in Seq(Event), wire = Append(v, Mark("failed"))
      PROVE  FALSE
  <2>1. /\ Len(v) \in Nat /\ Len(wire) = Len(v) + 1 /\ wire \in Seq(Event)
        /\ \A m \in 1..Len(v) : wire[m] = v[m]
        /\ wire[Len(v) + 1] = Mark("failed")
    BY <1>0, AppendFacts, MarksInEvent
  <2>2. i \in 1..(Len(v) + 1)
    BY <2>1, LenProperties
  <2>3. CASE i = Len(v) + 1
    BY <2>1, <2>3, MarkFacts
  <2>4. CASE i # Len(v) + 1
    <3>1. i \in 1..Len(v)
      BY <2>1, <2>2, <2>4
    <3> QED  BY <1>0, <2>1, <3>1, NoneAnswers
  <2> QED  BY <2>3, <2>4
<1>1. ASSUME Unanswered(wire) PROVE FALSE
  <2>1. i \in 1..Len(wire)
    BY <1>1, Stages, LenProperties
  <2> QED  BY <1>1, <2>1, NoneAnswers
<1>2. PICK v : Good(v) /\ wire = Append(v, Mark("stopped"))
  BY <1>0, <1>1, Stages DEF Answered
<1>3. v = (IF fed = 0 THEN <<>> ELSE Audio(fed) \o <<Mark("stop")>>) /\ v \in Seq(Event)
  <2>1. CASE fed = 0
    BY <1>2, <2>1, EmptySeq DEF Good
  <2>2. CASE fed # 0
    <3>1. Audio(fed) \in Seq(Event)
      BY <2>2, SpokenFacts, AudioFacts
    <3>2. Audio(fed) \o <<Mark("stop")>> = Append(Audio(fed), Mark("stop"))
      BY <3>1, ConcatOne, MarksInEvent
    <3>3. v = Append(Audio(fed), Mark("stop"))
      BY <1>2, <2>2 DEF Good
    <3> QED  BY <2>2, <3>1, <3>2, <3>3, AppendFacts, MarksInEvent
  <2> QED  BY <2>1, <2>2
<1>4. wire = v \o <<Mark("stopped")>>
  BY <1>2, <1>3, ConcatOne, MarksInEvent
<1> QED  BY <1>3, <1>4

-----------------------------------------------------------------------------
(* Who may still write to the client, and whether the session is intact.   *)

Reading == consumer \notin {"none", "finished"}

Ended(s) == s # <<>> /\ s[1].kind = "end"

Standing ==
    /\ loopCancel => loop # "finished"
    /\ coord => ~consumerCancel /\ consumer # "none"
    /\ handler \in {"reading", "awaiting", "answered", "broken"} /\ client # "lost"
          => disconnect = "idle"
    /\ handler = "awaiting" /\ client # "lost" => coord
    /\ consumer = "cancelling" => client = "lost"
    /\ coord /\ ~consumerError /\ loop # "finished" => Reading
    /\ cancelled /\ coord /\ client # "lost" /\ handler \in {"reading", "awaiting"}
          => loop = "finished" /\ consumer \in {"get", "drain"} /\ ~Ended(output)

LEMMA EndedSeen ==
    ASSUME TypeOK, Sentinel
    PROVE  /\ Ended(output) => loop = "finished"
           /\ output # <<>> => Head(output) = output[1] /\ Tail(output) = <<>> /\ Len(output) = 1
<1>1. output \in Seq(AudioEvents) /\ Len(output) <= 1
  BY DEF TypeOK
<1>2. ASSUME output # <<>> PROVE Len(output) = 1 /\ Head(output) = output[1] /\ Tail(output) = <<>>
  <2>2. Len(output) = 1
    <3> DEFINE n == Len(output)
    <3>1. n \in Nat /\ n # 0 /\ n <= 1
      BY <1>1, <1>2
    <3> HIDE DEF n
    <3>2. n = 1
      BY <3>1
    <3> QED  BY <3>2 DEF n
  <2>3. Tail(output) \in Seq(AudioEvents) /\ Len(Tail(output)) = 0
    BY <1>1, <1>2, <2>2
  <2>4. Tail(output) = <<>>
    BY <2>3, EmptySeq
  <2>5. Head(output) = output[1]
    BY <1>1, <1>2
  <2> QED  BY <2>2, <2>4, <2>5
<1>3. Ended(output) => loop = "finished"
  BY <1>2 DEF Ended, Sentinel
<1> QED  BY <1>2, <1>3

LEMMA StandingStep ==
    ASSUME TypeOK, Sentinel, Owned, Standing, [Next]_vars
    PROVE  Standing'
<1> USE EndedSeen DEF Standing, Reading, sessionVars, coordVars, loopVars, consumerVars
<1>1. CASE HandleStart
  BY <1>1 DEF HandleStart, TakesEvents
<1>2. ASSUME NEW n \in 0..MaxPhrases, HandleChunk(n) PROVE Standing'
  BY <1>2 DEF HandleChunk, TakesEvents
<1>3. CASE HandleCompat
  BY <1>3 DEF HandleCompat, TakesEvents
<1>4. CASE HandleStop
  BY <1>4 DEF HandleStop, TakesEvents
<1>5. CASE LoopWakes
  BY <1>5 DEF LoopWakes, NextTurn
<1>6. CASE TurnGranted
  BY <1>6 DEF TurnGranted
<1>7. CASE PhraseSynthesized
  BY <1>7 DEF PhraseSynthesized
<1>8. CASE PhraseFails
  BY <1>8 DEF PhraseFails, Fail, NextTurn
<1>9. CASE LoopPuts
  <2>1. /\ loop \in {"put", "close", "fail"} /\ ~loopCancel
        /\ UNCHANGED <<client, handler, coord, consumerError, disconnect, loopCancel, cancelled,
                       consumer, consumerCancel>>
    BY <1>9 DEF LoopPuts
  <2>2. ~cancelled
    BY <2>1 DEF Owned, CancelReaches
  <2> QED  BY <2>1, <2>2
<1>10. CASE LoopCancelled
  BY <1>10 DEF LoopCancelled, Owned, Reaped, TypeOK
<1>11. CASE CancelledFromOutside
  BY <1>11 DEF CancelledFromOutside, InScheduler
<1>12. CASE ConsumerGets
  <2>1. CASE Head(output).kind = "end"
    <3>1. loop = "finished" /\ Ended(output)
      BY <1>12, <2>1 DEF ConsumerGets, Ended
    <3> QED  BY <1>12, <2>1, <3>1 DEF ConsumerGets
  <2>2. CASE Head(output).kind # "end"
    <3>1. /\ output' = <<>> /\ consumer = "get" /\ consumer' = "drain"
          /\ UNCHANGED <<client, handler, coord, consumerError, disconnect, loop, loopCancel,
                         cancelled, consumerCancel>>
      BY <1>12, <2>2 DEF ConsumerGets
    <3> QED  BY <3>1 DEF Ended
  <2> QED  BY <2>1, <2>2
<1>13. CASE ConsumerWrites
  BY <1>13 DEF ConsumerWrites
<1>14. CASE ConsumerWriteFails
  BY <1>14 DEF ConsumerWriteFails, CancelBegins
<1>15. CASE ConsumerGivesUp
  BY <1>15 DEF ConsumerGivesUp, CancelEnds
<1>16. CASE ConsumerCancelled
  BY <1>16 DEF ConsumerCancelled
<1>17. CASE HandlerAnswers
  BY <1>17 DEF HandlerAnswers
<1>18. CASE HandlerCleansUp
  BY <1>18 DEF HandlerCleansUp
<1>19. CASE HandlerLeaves
  BY <1>19 DEF HandlerLeaves, Disconnects, CancelBegins
<1>20. CASE HandlerCloses
  BY <1>20 DEF HandlerCloses
<1>21. CASE ServiceDisconnects
  BY <1>21 DEF ServiceDisconnects, Disconnects, CancelBegins
<1>22. CASE DisconnectReaps
  BY <1>22 DEF DisconnectReaps, CancelEnds
<1>23. CASE DisconnectEnds
  BY <1>23 DEF DisconnectEnds, InScheduler, Owned, Settled
<1>24. CASE ClientLeaves
  BY <1>24 DEF ClientLeaves
<1>25. CASE UNCHANGED vars
  BY <1>25 DEF vars, taskVars
<1>26. CASE TurnTaken
  BY <1>26 DEF TurnTaken
<1>27. CASE HandlerRefuses
  BY <1>27 DEF HandlerRefuses
<1> QED
  BY <1>1, <1>2, <1>3, <1>4, <1>5, <1>6, <1>7, <1>8, <1>9, <1>10, <1>11, <1>12, <1>13, <1>14, <1>15, <1>16, <1>17, <1>18, <1>19, <1>20, <1>21, <1>22, <1>23, <1>24, <1>25, <1>26, <1>27
     DEF Next, Handler, Loop, Consumer, Disconnect


-----------------------------------------------------------------------------
(* What waits to be written continues what was written.                    *)

LEMMA Tuples ==
    ASSUME NEW a, NEW b, NEW c
    PROVE  /\ <<a>> # <<>> /\ Len(<<a>>) = 1 /\ Head(<<a>>) = a /\ Tail(<<a>>) = <<>>
           /\ <<a, b>> # <<>> /\ Len(<<a, b>>) = 2 /\ Head(<<a, b>>) = a /\ Tail(<<a, b>>) = <<b>>
           /\ <<a, b, c>> # <<>> /\ Len(<<a, b, c>>) = 3 /\ Head(<<a, b, c>>) = a
           /\ Tail(<<a, b, c>>) = <<b, c>>
           /\ <<a>>[1] = a /\ <<a, b>>[1] = a /\ <<a, b, c>>[1] = a
           /\ Append(<<>>, a) = <<a>>
<1>1. /\ <<a>> # <<>> /\ Len(<<a>>) = 1 /\ Head(<<a>>) = a /\ Tail(<<a>>) = <<>>
      /\ <<a>>[1] = a /\ Append(<<>>, a) = <<a>>
  OBVIOUS
<1>2. /\ <<a, b>> # <<>> /\ Len(<<a, b>>) = 2 /\ Head(<<a, b>>) = a /\ Tail(<<a, b>>) = <<b>>
      /\ <<a, b>>[1] = a
  OBVIOUS
<1>3. /\ <<a, b, c>> # <<>> /\ Len(<<a, b, c>>) = 3 /\ Head(<<a, b, c>>) = a
      /\ Tail(<<a, b, c>>) = <<b, c>> /\ <<a, b, c>>[1] = a
  OBVIOUS
<1> QED  BY <1>1, <1>2, <1>3

LEMMA Joins ==
    ASSUME NEW a, NEW b, NEW c
    PROVE  /\ <<a>> \o <<b>> = <<a, b>> /\ <<a>> \o <<b, c>> = <<a, b, c>>
           /\ <<>> \o <<a>> = <<a>> /\ <<>> \o <<a, b>> = <<a, b>>
<1>1. <<a>> \o <<b>> = <<a, b>>
  <2> DEFINE u == <<a>> \o <<b>>
             v == <<a, b>>
  <2>1. /\ u \in Seq({a, b}) /\ Len(u) = 2 /\ u[1] = a /\ u[2] = b
        /\ v \in Seq({a, b}) /\ Len(v) = 2 /\ v[1] = a /\ v[2] = b
    OBVIOUS
  <2> HIDE DEF u, v
  <2>2. \A i \in 1..2 : u[i] = v[i]
    BY <2>1
  <2>3. u = v
    BY <2>1, <2>2, SeqEqual
  <2> QED  BY <2>3 DEF u, v
<1>2. <<a>> \o <<b, c>> = <<a, b, c>>
  <2> DEFINE u == <<a>> \o <<b, c>>
             v == <<a, b, c>>
  <2>1. /\ u \in Seq({a, b, c}) /\ Len(u) = 3 /\ u[1] = a /\ u[2] = b /\ u[3] = c
        /\ v \in Seq({a, b, c}) /\ Len(v) = 3 /\ v[1] = a /\ v[2] = b /\ v[3] = c
    OBVIOUS
  <2> HIDE DEF u, v
  <2>2. \A i \in 1..3 : u[i] = v[i]
    BY <2>1
  <2>3. u = v
    BY <2>1, <2>2, SeqEqual
  <2> QED  BY <2>3 DEF u, v
<1>3. <<>> \o <<a>> = <<a>>
  OBVIOUS
<1>4. <<>> \o <<a, b>> = <<a, b>>
  OBVIOUS
<1> QED  BY <1>1, <1>2, <1>3, <1>4

\* The last event that the client has been sent, when k phrases were.
TailMark(k) == IF k = 0 THEN Mark("none") ELSE Chunk(k)

\* The envelope after k phrases.
Opened(k) == IF k = 0 THEN "silent" ELSE "started"

\* The events of the loop are the rest of one phrase, or of one end.
Lined ==
    /\ loop = "put" => /\ phraseCount > 0 /\ envelope = "started"
                       /\ \/ toPut = <<Chunk(phraseCount)>>
                          \/ phraseCount = 1 /\ toPut = <<Mark("start"), Chunk(1)>>
    /\ loop = "close" => \/ toPut = <<Mark("stop"), Mark("end")>>
                         \/ toPut = <<Mark("end")>>
    /\ loop = "fail" => \/ toPut = <<Mark("stop"), Mark("error"), Mark("end")>>
                        \/ toPut = <<Mark("error"), Mark("end")>>
                        \/ toPut = <<Mark("end")>>
    /\ loop \notin {"put", "close", "fail"} => toPut = <<>>
    /\ loop \in {"created", "ready"} => envelope = Opened(phraseCount)
    /\ loop \in {"queued", "handed", "synth"} => envelope = Opened(phraseCount - 1)

Comes(x, y) == y.kind = "end" \/ Follows(x, y)

\* What the loop still has to put, or will put next, continues e.
Continues(e) ==
    /\ toPut # <<>> => Comes(e, toPut[1])
    /\ loop \in {"created", "ready"} => e = TailMark(phraseCount)
    /\ loop \in {"queued", "handed", "synth"} => e = TailMark(phraseCount - 1)

\* The last event under way to the client.
Edge == IF output = <<>> \/ output[1].kind = "end" THEN LastOf(wire) ELSE output[1]

Linked ==
    Reading => /\ output # <<>> => Comes(LastOf(wire), output[1])
               /\ Continues(Edge)

Chained == Lined /\ Linked

LEMMA EventsAre ==
    /\ PhraseEvents = IF envelope = "silent" THEN <<Mark("start"), Chunk(phraseCount)>>
                                             ELSE <<Chunk(phraseCount)>>
    /\ FailureEvents = IF envelope = "started" THEN <<Mark("stop"), Mark("error"), Mark("end")>>
                                               ELSE <<Mark("error"), Mark("end")>>
    /\ SuccessEvents = IF phraseCount > 0 THEN <<Mark("stop"), Mark("end")>> ELSE <<Mark("end")>>
<1> DEFINE st == Mark("start")
           sp == Mark("stop")
           er == Mark("error")
           en == Mark("end")
           ch == Chunk(phraseCount)
<1> HIDE DEF st, sp, er, en, ch
<1>1. /\ <<st>> \o <<ch>> = <<st, ch>> /\ <<>> \o <<ch>> = <<ch>>
      /\ <<sp>> \o <<er, en>> = <<sp, er, en>> /\ <<>> \o <<er, en>> = <<er, en>>
      /\ <<sp>> \o <<en>> = <<sp, en>> /\ <<>> \o <<en>> = <<en>>
  BY Joins
<1> QED  BY <1>1 DEF PhraseEvents, FailureEvents, SuccessEvents, st, sp, er, en, ch

\* One turn of the loop, after the audio of all the phrases so far.
LEMMA NextTurnLined ==
    ASSUME NextTurn, phraseCount \in Nat, envelope = Opened(phraseCount)
    PROVE  Lined' /\ \A e : e = TailMark(phraseCount) => Continues(e)'
<1> USE MarkFacts, Tuples, EventsAre DEF Lined, Continues, Opened, TailMark, Comes, Follows
<1>1. CASE cancelled /\ loop' = "finished" /\ toPut' = <<>>
  BY <1>1
<1>2. CASE /\ phraseCount' = phraseCount + 1 /\ loop' = "queued" /\ toPut' = <<>>
           /\ UNCHANGED envelope
  BY <1>2
<1>3. CASE /\ loop' = "close" /\ toPut' = SuccessEvents /\ UNCHANGED phraseCount
  BY <1>3
<1>4. CASE loop' = "ready" /\ toPut' = <<>> /\ UNCHANGED <<phraseCount, envelope>>
  BY <1>4
<1> QED  BY <1>1, <1>2, <1>3, <1>4 DEF NextTurn

\* The same when the scheduler raises, after the audio of k phrases.
LEMMA FailLined ==
    ASSUME Fail, NEW k \in Nat, envelope = Opened(k)
    PROVE  Lined' /\ \A e : e = TailMark(k) => Continues(e)'
<1> USE MarkFacts, Tuples, EventsAre DEF Lined, Continues, Opened, TailMark, Comes, Follows
<1>1. CASE cancelled
  <2>1. loop' = "finished" /\ toPut' = <<>>
    BY <1>1 DEF Fail, NextTurn
  <2> QED  BY <2>1
<1>2. CASE ~cancelled
  <2>1. loop' = "fail" /\ toPut' = FailureEvents
    BY <1>2 DEF Fail
  <2> QED  BY <2>1
<1> QED  BY <1>1, <1>2

LEMMA ChainedFrame ==
    ASSUME Chained, UNCHANGED <<wire, output, loop, toPut, phraseCount, envelope>>,
           Reading' => Reading
    PROVE  Chained'
<1>1. Edge' = Edge /\ LastOf(wire)' = LastOf(wire)
  BY DEF Edge, LastOf
<1>2. Lined'
  BY DEF Chained, Lined
<1>3. Linked'
  BY <1>1 DEF Chained, Linked, Continues
<1> QED  BY <1>2, <1>3 DEF Chained

\* The loop puts the first of its events, and keeps the rest.
LEMMA PutsOne ==
    ASSUME TypeOK, Chained, LoopPuts
    PROVE  /\ output = <<>> /\ output' = <<toPut[1]>> /\ toPut # <<>>
           /\ output'[1] = toPut[1] /\ output' # <<>>
           /\ UNCHANGED <<wire, consumer>> /\ loop \in {"put", "close", "fail"}
           /\ Edge = LastOf(wire) /\ LastOf(wire)' = LastOf(wire)
           /\ toPut[1].kind # "end" => Edge' = toPut[1]
           /\ Len(toPut) > 1 =>
                 LET rest == Tail(toPut)
                     x    == toPut[1]
                 IN  \/ loop = "put" /\ phraseCount = 1 /\ x = Mark("start") /\ rest = <<Chunk(1)>>
                     \/ loop = "close" /\ x = Mark("stop") /\ rest = <<Mark("end")>>
                     \/ loop = "fail" /\ x = Mark("stop") /\ rest = <<Mark("error"), Mark("end")>>
                     \/ loop = "fail" /\ x = Mark("error") /\ rest = <<Mark("end")>>
<1> DEFINE x == toPut[1]
           rest == Tail(toPut)
<1>1. output \in Seq(AudioEvents) /\ Len(output) = 0 /\ toPut \in Seq(AudioEvents)
  <2>1. output \in Seq(AudioEvents) /\ Len(output) \in Nat /\ Len(output) < 1
    BY LenProperties DEF TypeOK, LoopPuts, SlotFree
  <2> QED  BY <2>1 DEF TypeOK
<1>2. output = <<>>
  BY <1>1, EmptySeq
<1>3. loop \in {"put", "close", "fail"} /\ UNCHANGED <<wire, consumer>>
  BY DEF LoopPuts, consumerVars
<1>4. toPut # <<>> /\ Head(toPut) = x
  BY <1>3, Tuples DEF Chained, Lined
<1>5. output' = <<x>> /\ output'[1] = x /\ output' # <<>>
  <2>1. output' = Append(output, Head(toPut))
    BY DEF LoopPuts
  <2> QED  BY <1>2, <1>4, <2>1, Tuples
<1>6. LastOf(wire)' = LastOf(wire) /\ Edge = LastOf(wire)
  BY <1>2, <1>3 DEF LastOf, Edge
<1>7. x.kind # "end" => Edge' = x
  BY <1>5 DEF Edge
<1>8. ASSUME Len(toPut) > 1
      PROVE  \/ loop = "put" /\ phraseCount = 1 /\ x = Mark("start") /\ rest = <<Chunk(1)>>
             \/ loop = "close" /\ x = Mark("stop") /\ rest = <<Mark("end")>>
             \/ loop = "fail" /\ x = Mark("stop") /\ rest = <<Mark("error"), Mark("end")>>
             \/ loop = "fail" /\ x = Mark("error") /\ rest = <<Mark("end")>>
  <2> DEFINE st == Mark("start")
             sp == Mark("stop")
             er == Mark("error")
             en == Mark("end")
             c1 == Chunk(1)
             cp == Chunk(phraseCount)
  <2>1. /\ loop = "put" => toPut = <<cp>> \/ (phraseCount = 1 /\ toPut = <<st, c1>>)
        /\ loop = "close" => toPut = <<sp, en>> \/ toPut = <<en>>
        /\ loop = "fail" => toPut = <<sp, er, en>> \/ toPut = <<er, en>> \/ toPut = <<en>>
    BY DEF Chained, Lined
  <2> HIDE DEF st, sp, er, en, c1, cp
  <2>2. toPut # <<cp>> /\ toPut # <<en>>
    <3>1. Len(<<cp>>) = 1 /\ Len(<<en>>) = 1
      BY Tuples
    <3>2. toPut = <<cp>> \/ toPut = <<en>> => Len(toPut) = 1
      BY <3>1
    <3>3. Len(toPut) # 1
      <4>1. Len(toPut) \in Nat
        BY <1>1, LenProperties
      <4> QED  BY <1>8, <4>1, AboveOne
    <3> QED  BY <3>2, <3>3
  <2>3. rest = Tail(toPut) /\ Head(toPut) = x
    BY <1>4
  <2> HIDE DEF x, rest
  <2>4. toPut = <<st, c1>> => x = st /\ rest = <<c1>>
    BY <2>3, Tuples
  <2>5. toPut = <<sp, en>> => x = sp /\ rest = <<en>>
    BY <2>3, Tuples
  <2>6. toPut = <<sp, er, en>> => x = sp /\ rest = <<er, en>>
    BY <2>3, Tuples
  <2>7. toPut = <<er, en>> => x = er /\ rest = <<en>>
    BY <2>3, Tuples
  <2>8. \/ loop = "put" /\ phraseCount = 1 /\ x = st /\ rest = <<c1>>
        \/ loop = "close" /\ x = sp /\ rest = <<en>>
        \/ loop = "fail" /\ x = sp /\ rest = <<er, en>>
        \/ loop = "fail" /\ x = er /\ rest = <<en>>
    BY <1>3, <2>1, <2>2, <2>4, <2>5, <2>6, <2>7
  <2> QED  BY <2>8 DEF st, sp, er, en, c1
<1> QED  BY <1>2, <1>3, <1>4, <1>5, <1>6, <1>7, <1>8

\* The rest still follows.
LEMMA LoopPutsChained ==
    ASSUME TypeOK, Chained, LoopPuts
    PROVE  Chained'
<1> DEFINE x == toPut[1]
<1>0. /\ output = <<>> /\ output' = <<x>> /\ output'[1] = x /\ output' # <<>>
      /\ UNCHANGED <<wire, consumer>> /\ loop \in {"put", "close", "fail"}
      /\ toPut # <<>>
  BY PutsOne
<1>1. LastOf(wire)' = LastOf(wire) /\ Reading' = Reading
  BY <1>0, PutsOne DEF Reading
<1>2. Edge = LastOf(wire)
  BY PutsOne
<1>3. x.kind # "end" => Edge' = x
  BY PutsOne
<1>4. Reading => Comes(LastOf(wire), x)
  BY <1>0, <1>2 DEF Chained, Linked, Continues
<1>5. Lined' /\ Continues(Edge)'
  <2>1. CASE Len(toPut) > 1 /\ toPut' = Tail(toPut) /\ UNCHANGED <<loop, phraseCount, envelope>>
    <3>1. /\ \/ loop = "put" /\ phraseCount = 1 /\ x = Mark("start") /\ toPut' = <<Chunk(1)>>
             \/ loop = "close" /\ x = Mark("stop") /\ toPut' = <<Mark("end")>>
             \/ loop = "fail" /\ x = Mark("stop") /\ toPut' = <<Mark("error"), Mark("end")>>
             \/ loop = "fail" /\ x = Mark("error") /\ toPut' = <<Mark("end")>>
      BY <2>1, PutsOne
    <3>2. Edge' = x
      BY <1>3, <3>1, MarkFacts
    <3>3. Lined'
      BY <2>1, <3>1 DEF Chained, Lined
    <3>4. Comes(x, toPut'[1])
      <4>1. CASE toPut' = <<Chunk(1)>> /\ x = Mark("start")
        <5>1. toPut'[1] = Chunk(0 + 1)
          BY <4>1, Tuples
        <5> QED  BY <4>1, <5>1 DEF Comes, Follows
      <4>2. CASE toPut' = <<Mark("end")>>
        BY <4>2, Tuples, MarkFacts DEF Comes
      <4>3. CASE x = Mark("stop") /\ toPut' = <<Mark("error"), Mark("end")>>
        BY <4>3, Tuples DEF Comes, Follows
      <4> QED  BY <3>1, <4>1, <4>2, <4>3
    <3>5. loop' \notin {"created", "ready", "queued", "handed", "synth"}
      BY <2>1, <1>0
    <3> QED  BY <3>2, <3>3, <3>4, <3>5 DEF Continues
  <2>2. CASE Len(toPut) = 1 /\ loop = "put" /\ (NextTurn \/ Fail)
    <3>1. /\ x = Chunk(phraseCount) /\ phraseCount > 0 /\ envelope = "started" /\ phraseCount \in Nat
      BY <2>2, Tuples DEF Chained, Lined, TypeOK
    <3>2. Edge' = TailMark(phraseCount) /\ envelope = Opened(phraseCount)
      BY <1>3, <3>1, MarkFacts DEF TailMark, Opened
    <3> QED  BY <2>2, <3>1, <3>2, NextTurnLined, FailLined
  <2>3. CASE loop' = "finished" /\ toPut' = <<>>
    BY <2>3 DEF Lined, Continues
  <2> QED  BY <2>1, <2>2, <2>3 DEF LoopPuts
<1> QED  BY <1>0, <1>1, <1>4, <1>5 DEF Chained, Linked

LEMMA ChainedStep ==
    ASSUME TypeOK, Counted, Sentinel, Owned, Standing, Chained, [Next]_vars
    PROVE  Chained'
<1>0. UNCHANGED <<wire, output>> => Edge' = Edge /\ LastOf(wire)' = LastOf(wire)
  BY DEF Edge, LastOf
<1>1. CASE HandleStart
  <2>1. /\ loop \in {"none", "finished"} /\ toPut' = toPut /\ loop' = "created" /\ envelope' = "silent"
        /\ phraseCount' = 0 /\ wire' = <<>> /\ output' = <<>>
    BY <1>1 DEF HandleStart
  <2>2. toPut' = <<>>
    BY <2>1 DEF Chained, Lined
  <2>3. Lined'
    BY <2>1, <2>2 DEF Lined, Opened
  <2>4. Edge' = TailMark(0)
    BY <2>1 DEF Edge, LastOf, TailMark
  <2> QED  BY <2>1, <2>2, <2>3, <2>4 DEF Chained, Linked, Continues
<1>2. ASSUME NEW n \in 0..MaxPhrases, HandleChunk(n) PROVE Chained'
  BY <1>2, ChainedFrame DEF HandleChunk, Reading, loopVars, consumerVars
<1>3. CASE HandleCompat
  BY <1>3, ChainedFrame DEF HandleCompat, Reading, loopVars, coordVars, consumerVars
<1>4. CASE HandleStop
  BY <1>4, ChainedFrame DEF HandleStop, Reading, loopVars, consumerVars
<1>5. CASE LoopWakes
  <2>1. /\ NextTurn /\ UNCHANGED <<wire, output, consumer>> /\ loop \in {"created", "ready"}
    BY <1>5 DEF LoopWakes, consumerVars
  <2>2. phraseCount \in Nat /\ envelope = Opened(phraseCount)
    BY <2>1 DEF TypeOK, Chained, Lined
  <2>3. Lined' /\ \A e : e = TailMark(phraseCount) => Continues(e)'
    BY <2>1, <2>2, NextTurnLined
  <2>4. ASSUME Reading' PROVE Continues(Edge)' /\ (output' # <<>> => Comes(LastOf(wire), output[1])')
    <3>1. Reading
      BY <2>1, <2>4 DEF Reading
    <3>2. Edge' = TailMark(phraseCount)
      BY <1>0, <2>1, <3>1 DEF Chained, Linked, Continues
    <3>3. Continues(Edge)'
      BY <2>3, <3>2
    <3> QED  BY <1>0, <2>1, <3>1, <3>3 DEF Chained, Linked
  <2> QED  BY <2>3, <2>4 DEF Chained, Linked
<1>6. CASE TurnGranted
  <2>1. /\ loop = "queued" /\ loop' \in {"synth", "handed"}
        /\ UNCHANGED <<wire, output, consumer, toPut, phraseCount, envelope>>
    BY <1>6 DEF TurnGranted, coordVars, consumerVars
  <2>2. Lined'
    BY <2>1 DEF Chained, Lined
  <2>3. Reading' => Reading
    BY <2>1 DEF Reading
  <2> QED  BY <1>0, <2>1, <2>2, <2>3 DEF Chained, Linked, Continues
<1>7. CASE PhraseSynthesized
  <2>1. /\ loop = "synth" /\ loop' = "put" /\ toPut' = PhraseEvents /\ envelope' = "started"
        /\ UNCHANGED <<wire, output, consumer, phraseCount>>
    BY <1>7 DEF PhraseSynthesized, consumerVars
  <2>2. phraseCount \in Nat /\ phraseCount > 0 /\ envelope = Opened(phraseCount - 1)
    BY <2>1 DEF TypeOK, Counted, InScheduler, Chained, Lined
  <2>3. \/ phraseCount = 1 /\ toPut' = <<Mark("start"), Chunk(1)>>
        \/ phraseCount # 1 /\ toPut' = <<Chunk(phraseCount)>>
    BY <2>1, <2>2, EventsAre DEF Opened
  <2>4. Lined'
    BY <2>1, <2>2, <2>3 DEF Lined
  <2>5. Reading' => Continues(Edge)'
    <3> SUFFICES ASSUME Reading' PROVE Comes(Edge', toPut'[1])
      BY <2>1 DEF Continues
    <3>1. Edge' = TailMark(phraseCount - 1)
      BY <1>0, <2>1 DEF Chained, Linked, Continues, Reading
    <3>2. CASE phraseCount = 1
      BY <2>3, <3>1, <3>2, Tuples DEF TailMark, Comes, Follows
    <3>3. CASE phraseCount # 1
      <4> DEFINE n == phraseCount - 1
      <4>1. n \in Nat /\ n # 0 /\ phraseCount = n + 1
        BY <2>2, <3>3
      <4> HIDE DEF n
      <4>2. toPut'[1] = Chunk(n + 1) /\ Edge' = Chunk(n)
        <5>1. toPut'[1] = Chunk(phraseCount)
          BY <2>3, <3>3, Tuples
        <5>2. Edge' = TailMark(n)
          BY <3>1 DEF n
        <5> QED  BY <4>1, <5>1, <5>2 DEF TailMark
      <4> QED  BY <4>1, <4>2 DEF Comes, Follows
    <3> QED  BY <3>2, <3>3
  <2>6. Reading' => (output # <<>> => Comes(LastOf(wire), output[1]))'
    BY <1>0, <2>1 DEF Chained, Linked, Reading
  <2> QED  BY <2>4, <2>5, <2>6 DEF Chained, Linked
<1>8. CASE PhraseFails
  <2>1. /\ loop \in {"queued", "handed", "synth"} /\ Fail /\ UNCHANGED <<wire, output, consumer>>
    BY <1>8 DEF PhraseFails, consumerVars
  <2> DEFINE k == phraseCount - 1
  <2>2. k \in Nat /\ envelope = Opened(k)
    BY <2>1 DEF TypeOK, Counted, InScheduler, Chained, Lined
  <2>3. Reading => Edge = TailMark(k)
    BY <2>1 DEF Chained, Linked, Continues
  <2> HIDE DEF k
  <2>4. Lined' /\ \A e : e = TailMark(k) => Continues(e)'
    BY <2>1, <2>2, FailLined
  <2>5. Reading' => Continues(Edge)' /\ (output # <<>> => Comes(LastOf(wire), output[1]))'
    <3> SUFFICES ASSUME Reading'
                 PROVE  Continues(Edge)' /\ (output # <<>> => Comes(LastOf(wire), output[1]))'
      OBVIOUS
    <3>1. Reading
      BY <2>1 DEF Reading
    <3>2. Edge' = TailMark(k)
      BY <1>0, <2>1, <2>3, <3>1
    <3>3. Continues(Edge)'
      BY <2>4, <3>2
    <3> QED  BY <1>0, <2>1, <3>1, <3>3 DEF Chained, Linked
  <2> QED  BY <2>4, <2>5 DEF Chained, Linked
<1>9. CASE LoopPuts
  BY <1>9, LoopPutsChained
<1>10. CASE LoopCancelled
  <2>1. loop' = "finished" /\ toPut' = <<>> /\ UNCHANGED <<wire, output, consumer>>
    BY <1>10 DEF LoopCancelled, consumerVars
  <2>2. Lined' /\ (Reading' => Reading)
    BY <2>1 DEF Lined, Reading
  <2> QED  BY <1>0, <2>1, <2>2 DEF Chained, Linked, Continues
<1>11. CASE CancelledFromOutside
  BY <1>11, ChainedFrame DEF CancelledFromOutside, Reading, coordVars, consumerVars
<1>12. CASE ConsumerGets
  <2> DEFINE x == output[1]
  <2>1. /\ output # <<>> /\ consumer = "get" /\ Head(output) = x /\ output' = <<>>
        /\ UNCHANGED <<loop, toPut, phraseCount, envelope>>
    BY <1>12, EndedSeen DEF ConsumerGets, loopVars, coordVars
  <2>2. Lined'
    BY <2>1 DEF Chained, Lined
  <2>3. Reading' => x.kind # "end" /\ wire' = Append(wire, x)
    BY <1>12, <2>1 DEF ConsumerGets, Reading
  <2>4. Reading' => Continues(Edge)'
    <3> SUFFICES ASSUME Reading' PROVE Continues(Edge)'
      OBVIOUS
    <3>1. Edge' = LastOf(wire') /\ Edge = x /\ Continues(Edge)
      BY <2>1, <2>3 DEF Edge, Chained, Linked, Reading, LastOf
    <3>2. LastOf(wire') = x
      <4>1. wire \in Seq(Event) /\ Head(output) \in AudioEvents
        BY <2>1 DEF TypeOK, Event
      <4>2. x \in Event
        BY <2>1, <4>1 DEF Event
      <4> HIDE DEF x
      <4>3. wire' = Append(wire, x)
        BY <2>3
      <4> QED  BY <4>1, <4>2, <4>3, AppendFacts
    <3> QED  BY <2>1, <3>1, <3>2 DEF Continues
  <2> QED  BY <2>1, <2>2, <2>4 DEF Chained, Linked
<1>13. CASE ConsumerWrites
  BY <1>13, ChainedFrame DEF ConsumerWrites, Reading, loopVars, coordVars
<1>14. CASE ConsumerWriteFails
  BY <1>14, ChainedFrame DEF ConsumerWriteFails, Reading
<1>15. CASE ConsumerGivesUp
  <2>1. loop = "finished" /\ consumer' = "finished" /\ UNCHANGED <<loop, toPut>>
    BY <1>15 DEF ConsumerGivesUp, loopVars
  <2> QED  BY <2>1 DEF Chained, Lined, Linked, Reading
<1>16. CASE ConsumerCancelled
  BY <1>16, ChainedFrame DEF ConsumerCancelled, Reading, loopVars, coordVars
<1>17. CASE HandlerAnswers
  <2>1. consumer' = "finished" /\ UNCHANGED <<loop, toPut, phraseCount, envelope>>
    BY <1>17 DEF HandlerAnswers, loopVars, coordVars, consumerVars
  <2> QED  BY <2>1 DEF Chained, Lined, Linked, Reading
<1>18. CASE HandlerCleansUp
  BY <1>18, ChainedFrame DEF HandlerCleansUp, Reading, loopVars, coordVars, consumerVars
<1>19. CASE HandlerLeaves
  BY <1>19, ChainedFrame DEF HandlerLeaves, Reading, consumerVars
<1>20. CASE HandlerCloses
  BY <1>20, ChainedFrame DEF HandlerCloses, Reading, loopVars, coordVars, consumerVars
<1>21. CASE ServiceDisconnects
  BY <1>21, ChainedFrame DEF ServiceDisconnects, Reading, consumerVars
<1>22. CASE DisconnectReaps
  <2>1. CASE coord
    <3>1. /\ loop = "finished" /\ output' = <<Mark("end")>>
          /\ UNCHANGED <<wire, loop, toPut, phraseCount>>
      BY <1>22, <2>1 DEF DisconnectReaps, CancelEnds, loopVars
    <3>2. Lined' /\ toPut' = <<>>
      BY <3>1 DEF Chained, Lined
    <3>3. Comes(LastOf(wire), output[1])'
      BY <3>1, Tuples, MarkFacts DEF Comes
    <3> QED  BY <3>1, <3>2, <3>3 DEF Chained, Linked, Continues
  <2>2. CASE ~coord
    BY <1>22, <2>2, ChainedFrame DEF DisconnectReaps, Reading, loopVars
  <2> QED  BY <2>1, <2>2
<1>23. CASE DisconnectEnds
  BY <1>23, ChainedFrame DEF DisconnectEnds, Reading, coordVars, consumerVars
<1>24. CASE ClientLeaves
  BY <1>24, ChainedFrame DEF ClientLeaves, Reading, loopVars, coordVars, consumerVars
<1>25. CASE UNCHANGED vars
  BY <1>25, ChainedFrame DEF vars, taskVars, Reading, loopVars, coordVars, consumerVars
<1>26. CASE TurnTaken
  <2>1. /\ loop = "handed" /\ loop' = "synth"
        /\ UNCHANGED <<wire, output, consumer, toPut, phraseCount, envelope>>
    BY <1>26 DEF TurnTaken, coordVars, consumerVars
  <2>2. Lined'
    BY <2>1 DEF Chained, Lined
  <2>3. Reading' => Reading
    BY <2>1 DEF Reading
  <2> QED  BY <1>0, <2>1, <2>2, <2>3 DEF Chained, Linked, Continues
<1>27. CASE HandlerRefuses
  BY <1>27, ChainedFrame DEF HandlerRefuses, Reading, loopVars, coordVars, consumerVars
<1> QED
  BY <1>1, <1>2, <1>3, <1>4, <1>5, <1>6, <1>7, <1>8, <1>9, <1>10, <1>11, <1>12, <1>13, <1>14, <1>15, <1>16, <1>17, <1>18, <1>19, <1>20, <1>21, <1>22, <1>23, <1>24, <1>25, <1>26, <1>27
     DEF Next, Handler, Loop, Consumer, Disconnect

-----------------------------------------------------------------------------
(* A session that is intact has its text spoken.                           *)

Live == ~cancelled /\ coord /\ ~consumerError /\ handler \in {"reading", "awaiting"}

Writable == Reading \/ handler = "awaiting" \/ (handler = "reading" /\ coord)

Shape ==
    /\ Unanswered(wire) \/ Answered(wire)
    /\ Writable => Unanswered(wire)

\* The loop has ended the audio, and the AudioStop is on its way.
Closing ==
    \/ toPut = <<Mark("stop"), Mark("end")>> /\ fed > 0 /\ Edge = Chunk(fed)
    \/ toPut = <<Mark("end")>> /\ output = <<Mark("stop")>> /\ fed > 0 /\ LastOf(wire) = Chunk(fed)
    \/ toPut = <<Mark("end")>> /\ output = <<>> /\ Good(wire)

Complete ==
    /\ ~cancelled => pending + phraseCount = fed
    /\ Live /\ loop = "close" => done /\ fed = phraseCount /\ Closing
    /\ Live /\ loop = "fail" /\ session = "good" => Len(toPut) > 1 \/ output = <<Mark("error")>>
    /\ Live /\ loop = "finished" /\ session = "good" =>
          done /\ Good(wire) /\ (output = <<>> \/ output = <<Mark("end")>>)

LEMMA CompleteFrame ==
    ASSUME Complete, Live' => Live,
           UNCHANGED <<wire, output, loop, toPut, pending, phraseCount, fed, done, session, cancelled>>
    PROVE  Complete'
<1>1. Edge' = Edge /\ LastOf(wire)' = LastOf(wire) /\ Good(wire)' = Good(wire)
  BY DEF Edge, LastOf, Good
<1>2. Closing' = Closing
  BY <1>1 DEF Closing
<1> QED  BY <1>1, <1>2 DEF Complete

\* A session that is no longer intact.
LEMMA CompleteLost ==
    ASSUME Complete, ~Live', cancelled' \/ UNCHANGED <<pending, phraseCount, fed, cancelled>>
    PROVE  Complete'
BY DEF Complete

\* Nothing was written yet, or everything up to the last phrase.
LEMMA EdgeIsNone ==
    ASSUME TypeOK, Sentinel, Shape, Reading, Edge = Mark("none"), loop # "finished"
    PROVE  output = <<>> /\ wire = <<>>
<1>1. output = <<>>
  <2> SUFFICES ASSUME output # <<>> PROVE FALSE
    OBVIOUS
  <2>1. ~Ended(output) /\ Head(output) = output[1]
    BY EndedSeen
  <2>2. Edge = Head(output) /\ Head(output) \in AudioEvents
    BY <2>1 DEF Edge, Ended, TypeOK
  <2>3. Mark("none") \notin AudioEvents
    <3>1. Mark("none").kind = "none"
      BY MarkFacts
    <3>2. \A x \in AudioEvents : x.kind \in {"start", "stop", "error", "end", "chunk"}
      BY MarkFacts DEF AudioEvents
    <3> QED  BY <3>1, <3>2
  <2> QED  BY <2>2, <2>3
<1>2. LastOf(wire) = Mark("none") /\ Unanswered(wire)
  BY <1>1 DEF Edge, Shape, Writable
<1>3. wire = <<>>
  BY <1>2, Stages, MarkFacts
<1> QED  BY <1>1, <1>3

\* AudioStop after the last phrase makes the whole.
LEMMA StopCompletes ==
    ASSUME TypeOK, Unanswered(wire), fed > 0, LastOf(wire) = Chunk(fed),
           wire' = Append(wire, Mark("stop")), fed' = fed
    PROVE  Good(wire)'
<1>1. PICK k \in 1..MaxPhrases : wire = Audio(k) /\ LastOf(wire) = Chunk(k)
  BY Stages, MarkFacts
<1>2. k = fed
  <2>1. Chunk(k) = Chunk(fed)
    BY <1>1
  <2> QED  BY <2>1 DEF Chunk
<1> QED  BY <1>1, <1>2 DEF Good

LEMMA GetsOne ==
    ASSUME TypeOK, Sentinel, ConsumerGets, output[1].kind # "end"
    PROVE  /\ output = <<output[1]>> /\ output[1] \in AudioEvents /\ output' = <<>>
           /\ wire' = Append(wire, output[1]) /\ Edge' = Edge /\ LastOf(wire') = output[1]
<1>1. /\ output # <<>> /\ Head(output) = output[1] /\ Tail(output) = <<>> /\ Len(output) = 1
      /\ output' = <<>> /\ wire' = Append(wire, output[1])
  BY EndedSeen DEF ConsumerGets
<1>2. wire \in Seq(Event) /\ Head(output) \in AudioEvents
  BY <1>1 DEF TypeOK, Event
<1> DEFINE x == output[1]
<1>3. x \in AudioEvents /\ x \in Event
  BY <1>1, <1>2 DEF Event
<1>4. output = <<x>>
  <2>1. output \in Seq(AudioEvents) /\ Len(output) = 1 /\ output[1] = x
    BY <1>1 DEF TypeOK
  <2>2. <<x>> \in Seq(AudioEvents) /\ Len(<<x>>) = 1 /\ <<x>>[1] = x
    BY <1>3
  <2> HIDE DEF x
  <2>3. \A i \in 1..1 : output[i] = <<x>>[i]
    BY <2>1, <2>2
  <2> QED  BY <2>1, <2>2, <2>3, SeqEqual
<1>5. LastOf(wire') = x
  <2> HIDE DEF x
  <2>1. wire' = Append(wire, x)
    BY <1>1 DEF x
  <2> QED  BY <1>2, <1>3, <2>1, AppendFacts
<1>6. Edge' = LastOf(wire') /\ Edge = x
  BY <1>1 DEF Edge, LastOf
<1> QED  BY <1>1, <1>3, <1>4, <1>5, <1>6

\* The loop finds its text spoken, after e.
LEMMA TurnCompletes ==
    ASSUME TypeOK, NextTurn, ~cancelled, pending + phraseCount = fed, fed' = fed, done' = done,
           Edge' = TailMark(phraseCount),
           phraseCount = 0 => output' = <<>> /\ wire' = <<>>
    PROVE  /\ pending' + phraseCount' = fed'
           /\ loop' \notin {"fail", "finished"}
           /\ loop' = "close" => done' /\ fed' = phraseCount' /\ Closing'
<1>0. pending \in Nat /\ phraseCount \in Nat /\ fed \in Nat
  BY DEF TypeOK
<1>1. CASE /\ pending > 0 /\ pending' = pending - 1 /\ phraseCount' = phraseCount + 1
           /\ loop' = "queued"
  BY <1>0, <1>1
<1>2. CASE /\ pending = 0 /\ done /\ loop' = "close" /\ toPut' = SuccessEvents
           /\ UNCHANGED <<pending, phraseCount>>
  <2>1. fed = phraseCount
    BY <1>0, <1>2
  <2>2. Closing'
    <3>1. CASE phraseCount = 0
      <4>1. toPut' = <<Mark("end")>>
        BY <1>2, <3>1, EventsAre
      <4>2. Good(wire)'
        BY <2>1, <3>1 DEF Good
      <4> QED  BY <3>1, <4>1, <4>2 DEF Closing
    <3>2. CASE phraseCount # 0
      <4>1. toPut' = <<Mark("stop"), Mark("end")>>
        BY <1>0, <1>2, <3>2, EventsAre
      <4>2. Edge' = Chunk(fed)
        BY <2>1, <3>2 DEF TailMark
      <4> QED  BY <1>0, <2>1, <3>2, <4>1, <4>2 DEF Closing
    <3> QED  BY <3>1, <3>2
  <2> QED  BY <1>2, <2>1, <2>2
<1>3. CASE loop' = "ready" /\ UNCHANGED <<pending, phraseCount>>
  BY <1>3
<1> QED  BY <1>1, <1>2, <1>3 DEF NextTurn

LEMMA CountsKept ==
    ASSUME TypeOK, NextTurn \/ Fail, ~cancelled, pending + phraseCount = fed, fed' = fed
    PROVE  pending' + phraseCount' = fed'
<1>0. pending \in Nat /\ phraseCount \in Nat /\ fed \in Nat
  BY DEF TypeOK
<1>1. CASE pending' = pending - 1 /\ phraseCount' = phraseCount + 1
  BY <1>0, <1>1
<1>2. CASE UNCHANGED <<pending, phraseCount>>
  BY <1>2
<1> QED  BY <1>1, <1>2 DEF NextTurn, Fail

LEMMA WakesCompletes ==
    ASSUME TypeOK, Sentinel, Standing, Chained, Shape, Complete, LoopWakes
    PROVE  Complete'
<1>0. /\ NextTurn /\ loop \in {"created", "ready"}
      /\ UNCHANGED <<client, wire, handler, coord, consumerError, session, fed, done,
                     cancelled, output, consumer>>
  BY DEF LoopWakes, sessionVars, consumerVars
<1>1. CASE cancelled
  BY <1>0, <1>1 DEF Complete, Live
<1>2. CASE ~cancelled
  <2>0. pending + phraseCount = fed /\ (cancelled' <=> FALSE)
    BY <1>0, <1>2 DEF Complete
  <2>1. pending' + phraseCount' = fed'
    BY <1>0, <1>2, <2>0, CountsKept
  <2>2. CASE Live'
    <3>1. Reading
      BY <1>0, <2>2 DEF Live, Standing
    <3>2. Edge = TailMark(phraseCount) /\ Edge' = Edge
      BY <1>0, <3>1 DEF Chained, Linked, Continues, Edge, LastOf
    <3>3. phraseCount = 0 => output = <<>> /\ wire = <<>>
      BY <1>0, <3>1, <3>2, EdgeIsNone DEF TailMark
    <3>4. /\ loop' \notin {"fail", "finished"}
          /\ loop' = "close" => done' /\ fed' = phraseCount' /\ Closing'
      BY <1>0, <1>2, <2>0, <3>2, <3>3, TurnCompletes
    <3> QED  BY <2>1, <3>4 DEF Complete
  <2> QED  BY <2>1, <2>2 DEF Complete
<1> QED  BY <1>1, <1>2

LEMMA FailCompletes ==
    ASSUME TypeOK, Fail, Complete, UNCHANGED <<fed, cancelled>>
    PROVE  Complete'
<1>1. CASE cancelled
  BY <1>1 DEF Complete, Live
<1>2. CASE ~cancelled
  <2>1. pending' + phraseCount' = fed'
    BY <1>2, CountsKept DEF Complete
  <2>2. loop' = "fail" /\ toPut' = FailureEvents
    BY <1>2 DEF Fail
  <2>3. Len(toPut') > 1
    <3>1. \/ toPut' = <<Mark("stop"), Mark("error"), Mark("end")>>
          \/ toPut' = <<Mark("error"), Mark("end")>>
      BY <2>2, EventsAre
    <3>2. Len(toPut') = 2 \/ Len(toPut') = 3
      BY <3>1, Tuples
    <3> QED  BY <3>2
  <2> QED  BY <2>1, <2>2, <2>3 DEF Complete
<1> QED  BY <1>1, <1>2

LEMMA PutsCompletes ==
    ASSUME TypeOK, Standing, Chained, Complete, LoopPuts
    PROVE  Complete'
<1> DEFINE x == toPut[1]
<1>0. /\ output = <<>> /\ output' = <<x>> /\ LastOf(wire)' = LastOf(wire) /\ Edge = LastOf(wire)
      /\ wire' = wire /\ loop \in {"put", "close", "fail"}
  BY PutsOne
<1>1. UNCHANGED <<handler, coord, consumerError, session, fed, done, cancelled>>
  BY DEF LoopPuts, sessionVars
<1>2. (Live' <=> Live) /\ Good(wire)' = Good(wire)
  BY <1>0, <1>1 DEF Live, Good
<1>3. CASE Len(toPut) > 1 /\ toPut' = Tail(toPut) /\ UNCHANGED <<loop, pending, phraseCount>>
  <2>1. \/ loop = "put"
        \/ loop = "close" /\ x = Mark("stop") /\ toPut' = <<Mark("end")>>
        \/ loop = "fail" /\ x = Mark("stop") /\ toPut' = <<Mark("error"), Mark("end")>>
        \/ loop = "fail" /\ x = Mark("error") /\ toPut' = <<Mark("end")>>
    BY <1>3, PutsOne
  <2>2. ASSUME loop = "close", Live PROVE done /\ fed = phraseCount /\ Closing'
    <3>1. done /\ fed = phraseCount /\ Closing /\ x = Mark("stop") /\ toPut' = <<Mark("end")>>
      BY <2>1, <2>2 DEF Complete
    <3>2. toPut # <<Mark("end")>>
      BY <1>3, Tuples
    <3>3. fed > 0 /\ Edge = Chunk(fed)
      BY <3>1, <3>2 DEF Closing
    <3>4. LastOf(wire)' = Chunk(fed') /\ output' = <<Mark("stop")>> /\ fed' > 0
      BY <1>0, <1>1, <3>1, <3>3
    <3> QED  BY <3>1, <3>4 DEF Closing
  <2>3. ASSUME loop = "fail" PROVE Len(toPut') > 1 \/ output' = <<Mark("error")>>
    <3>1. CASE x = Mark("stop") /\ toPut' = <<Mark("error"), Mark("end")>>
      BY <3>1, Tuples
    <3>2. CASE x = Mark("error")
      BY <1>0, <3>2
    <3> QED  BY <2>1, <2>3, <3>1, <3>2
  <2>4. loop' # "finished" /\ loop' = loop /\ (~cancelled' => pending' + phraseCount' = fed')
    BY <1>0, <1>1, <1>3 DEF Complete
  <2> QED  BY <1>1, <1>2, <1>3, <2>2, <2>3, <2>4 DEF Complete
<1>4. CASE Len(toPut) = 1 /\ loop = "put" /\ NextTurn
  <2>1. phraseCount > 0 /\ phraseCount \in Nat /\ x = Chunk(phraseCount)
    <3>1. \/ toPut = <<Chunk(phraseCount)>>
          \/ toPut = <<Mark("start"), Chunk(1)>>
      BY <1>4 DEF Chained, Lined
    <3>2. toPut # <<Mark("start"), Chunk(1)>>
      BY <1>4, Tuples
    <3>3. x = Chunk(phraseCount)
      BY <3>1, <3>2, Tuples
    <3> QED  BY <1>4, <3>3 DEF Chained, Lined, TypeOK
  <2>2. Edge' = TailMark(phraseCount) /\ phraseCount # 0
    BY <2>1, PutsOne, MarkFacts DEF TailMark
  <2>3. CASE cancelled
    BY <1>1, <2>3 DEF Complete, Live
  <2>4. CASE ~cancelled
    <3>1. /\ pending' + phraseCount' = fed'
          /\ loop' \notin {"fail", "finished"}
          /\ loop' = "close" => done' /\ fed' = phraseCount' /\ Closing'
      BY <1>1, <1>4, <2>2, <2>4, TurnCompletes DEF Complete
    <3> QED  BY <3>1 DEF Complete
  <2> QED  BY <2>3, <2>4
<1>5. CASE Fail
  BY <1>1, <1>5, FailCompletes
<1>6. CASE /\ Len(toPut) = 1 /\ loop # "put" /\ loop' = "finished"
           /\ UNCHANGED <<pending, phraseCount>>
  <2>1. ASSUME Live, session = "good" PROVE done /\ Good(wire) /\ output' = <<Mark("end")>>
    <3>1. loop = "close"
      <4>1. output # <<Mark("error")>>
        BY <1>0, Tuples
      <4>2. loop # "fail"
        BY <1>6, <2>1, <4>1 DEF Complete
      <4> QED  BY <1>0, <1>6, <4>2
    <3>2. done /\ Closing
      BY <2>1, <3>1 DEF Complete
    <3>3. toPut # <<Mark("stop"), Mark("end")>> /\ output # <<Mark("stop")>>
      BY <1>0, <1>6, Tuples
    <3>4. toPut = <<Mark("end")>> /\ Good(wire)
      BY <3>2, <3>3 DEF Closing
    <3>5. x = Mark("end")
      BY <3>4, Tuples
    <3> QED  BY <1>0, <3>2, <3>4, <3>5
  <2> QED  BY <1>1, <1>2, <1>6, <2>1 DEF Complete
<1> QED  BY <1>3, <1>4, <1>5, <1>6 DEF LoopPuts

LEMMA GetsCompletes ==
    ASSUME TypeOK, Sentinel, Chained, Shape, Complete, ConsumerGets
    PROVE  Complete'
<1>0. /\ output # <<>> /\ Head(output) = output[1] /\ Tail(output) = <<>>
      /\ consumer = "get" /\ Unanswered(wire)
      /\ UNCHANGED <<handler, coord, consumerError, loop, toPut, pending, phraseCount, fed, done,
                     cancelled>>
  BY EndedSeen DEF ConsumerGets, Shape, Writable, Reading, loopVars, coordVars
<1>1. Live' <=> Live
  BY <1>0 DEF Live
<1>2. CASE output[1].kind = "end"
  <2>1. loop = "finished"
    BY <1>0, <1>2, EndedSeen DEF Ended
  <2>2. UNCHANGED <<wire, session>> /\ output' = <<>>
    BY <1>0, <1>2 DEF ConsumerGets
  <2>3. Good(wire)' = Good(wire)
    BY <1>0, <2>2 DEF Good
  <2> QED  BY <1>0, <1>1, <2>1, <2>2, <2>3 DEF Complete
<1>3. CASE output[1].kind # "end"
  <2> DEFINE x == output[1]
  <2>1. /\ output = <<x>> /\ output' = <<>> /\ wire' = Append(wire, x) /\ Edge' = Edge
        /\ session' = IF x.kind = "error" /\ session = "good" THEN "failed" ELSE session
    BY <1>0, <1>3, GetsOne DEF ConsumerGets
  <2>2. ASSUME loop = "close", Live PROVE done /\ fed = phraseCount /\ Closing'
    <3>1. done /\ fed = phraseCount /\ Closing
      BY <2>2 DEF Complete
    <3>2. CASE toPut = <<Mark("stop"), Mark("end")>> /\ fed > 0 /\ Edge = Chunk(fed)
      <4>1. toPut' = <<Mark("stop"), Mark("end")>> /\ fed' > 0 /\ Edge' = Chunk(fed')
        BY <1>0, <2>1, <3>2
      <4> QED  BY <3>1, <4>1 DEF Closing
    <3>3. CASE toPut = <<Mark("end")>> /\ output = <<Mark("stop")>> /\ fed > 0 /\ LastOf(wire) = Chunk(fed)
      <4>1. x = Mark("stop")
        BY <3>3, Tuples
      <4>2. Good(wire)'
        BY <1>0, <2>1, <3>3, <4>1, StopCompletes
      <4>3. toPut' = <<Mark("end")>> /\ output' = <<>>
        BY <1>0, <2>1, <3>3
      <4> QED  BY <3>1, <4>2, <4>3 DEF Closing
    <3> QED  BY <1>0, <3>1, <3>2, <3>3 DEF Closing
  <2>3. ASSUME loop = "fail", Live, session' = "good" PROVE Len(toPut') > 1
    <3>1. session = "good" /\ x.kind # "error"
      BY <2>1, <2>3
    <3>2. output # <<Mark("error")>>
      BY <3>1, Tuples, MarkFacts
    <3> QED  BY <1>0, <2>3, <3>1, <3>2 DEF Complete
  <2>4. ASSUME loop = "finished", Live, session' = "good" PROVE FALSE
    <3>1. session = "good"
      BY <2>1, <2>4
    <3>2. output = <<Mark("end")>>
      BY <1>0, <2>4, <3>1 DEF Complete
    <3> QED  BY <1>3, <3>2, Tuples, MarkFacts
  <2> QED  BY <1>0, <1>1, <2>2, <2>3, <2>4 DEF Complete
<1> QED  BY <1>2, <1>3

LEMMA CompleteStep ==
    ASSUME TypeOK, Sentinel, Owned, Standing, Chained, Shape, Complete, [Next]_vars
    PROVE  Complete'
<1> USE DEF sessionVars, coordVars, loopVars, consumerVars
<1>1. CASE HandleStart
  <2>1. loop' = "created" /\ pending' = 0 /\ phraseCount' = 0 /\ fed' = 0
    BY <1>1 DEF HandleStart
  <2> QED  BY <2>1 DEF Complete
<1>2. ASSUME NEW n \in 0..MaxPhrases, HandleChunk(n) PROVE Complete'
  <2>1. CASE done \/ cancelled
    BY <1>2, <2>1, CompleteFrame DEF HandleChunk, Live
  <2>2. CASE ~(done \/ cancelled)
    <3>1. /\ pending' = pending + n /\ fed' = fed + n
          /\ UNCHANGED <<handler, coord, consumerError, session, loop, toPut, output, phraseCount,
                         cancelled>>
      BY <1>2, <2>2 DEF HandleChunk
    <3>2. pending' + phraseCount' = fed'
      BY <2>2, <3>1 DEF Complete, TypeOK
    <3>3. Live' <=> Live
      BY <3>1 DEF Live
    <3> QED  BY <2>2, <3>1, <3>2, <3>3 DEF Complete
  <2> QED  BY <2>1, <2>2
<1>3. CASE HandleCompat
  BY <1>3, CompleteFrame DEF HandleCompat, Live
<1>4. CASE HandleStop
  <2>0. handler = "reading" /\ UNCHANGED <<coord, consumerError, cancelled>>
    BY <1>4 DEF HandleStop, TakesEvents
  <2>1. Live' => Live
    BY <2>0 DEF Live
  <2>2. CASE done \/ cancelled
    BY <1>4, <2>1, <2>2, CompleteFrame DEF HandleStop
  <2>3. CASE ~(done \/ cancelled)
    <3>1. PICK n \in Residuals : pending' = pending + n /\ fed' = fed + n
      BY <1>4, <2>3 DEF HandleStop
    <3>2. n \in Nat
      BY <3>1, MaxPhrasesAssumption DEF Residuals
    <3>3. UNCHANGED <<session, loop, toPut, output, phraseCount>>
      BY <1>4 DEF HandleStop
    <3>4. pending' + phraseCount' = fed'
      BY <2>3, <3>1, <3>2, <3>3 DEF Complete, TypeOK
    <3> QED  BY <2>1, <2>3, <3>3, <3>4 DEF Complete
  <2> QED  BY <2>2, <2>3
<1>5. CASE LoopWakes
  BY <1>5, WakesCompletes
<1>6. CASE TurnGranted
  BY <1>6 DEF TurnGranted, Complete
<1>7. CASE PhraseSynthesized
  BY <1>7 DEF PhraseSynthesized, Complete
<1>8. CASE PhraseFails
  BY <1>8, FailCompletes DEF PhraseFails
<1>9. CASE LoopPuts
  BY <1>9, PutsCompletes
<1>10. CASE LoopCancelled
  BY <1>10, CompleteLost DEF LoopCancelled, Live
<1>11. CASE CancelledFromOutside
  BY <1>11, CompleteFrame DEF CancelledFromOutside, Live
<1>12. CASE ConsumerGets
  BY <1>12, GetsCompletes
<1>13. CASE ConsumerWrites
  BY <1>13, CompleteFrame DEF ConsumerWrites, Live
<1>14. CASE ConsumerWriteFails
  BY <1>14, CompleteLost DEF ConsumerWriteFails, CancelBegins, Live
<1>15. CASE ConsumerGivesUp
  BY <1>15, CompleteLost DEF ConsumerGivesUp, Live
<1>16. CASE ConsumerCancelled
  BY <1>16, CompleteLost DEF ConsumerCancelled, Live
<1>17. CASE HandlerAnswers
  BY <1>17, CompleteLost DEF HandlerAnswers, Live
<1>18. CASE HandlerCleansUp
  BY <1>18, CompleteLost DEF HandlerCleansUp, Live
<1>19. CASE HandlerLeaves
  BY <1>19, CompleteLost DEF HandlerLeaves, Disconnects, CancelBegins, Live
<1>20. CASE HandlerCloses
  BY <1>20, CompleteLost DEF HandlerCloses, Live
<1>21. CASE ServiceDisconnects
  BY <1>21, CompleteLost DEF ServiceDisconnects, Disconnects, CancelBegins, Live
<1>22. CASE DisconnectReaps
  BY <1>22, CompleteLost DEF DisconnectReaps, Live
<1>23. CASE DisconnectEnds
  BY <1>23, CompleteLost DEF DisconnectEnds, Live, Owned, Settled
<1>24. CASE ClientLeaves
  BY <1>24, CompleteFrame DEF ClientLeaves, Live
<1>25. CASE UNCHANGED vars
  BY <1>25, CompleteFrame DEF vars, taskVars, Live
<1>26. CASE TurnTaken
  BY <1>26 DEF TurnTaken, Complete
<1>27. CASE HandlerRefuses
  BY <1>27, CompleteFrame DEF HandlerRefuses, Live
<1> QED
  BY <1>1, <1>2, <1>3, <1>4, <1>5, <1>6, <1>7, <1>8, <1>9, <1>10, <1>11, <1>12, <1>13, <1>14, <1>15, <1>16, <1>17, <1>18, <1>19, <1>20, <1>21, <1>22, <1>23, <1>24, <1>25, <1>26, <1>27
     DEF Next, Handler, Loop, Consumer, Disconnect

-----------------------------------------------------------------------------
(* What was sent is one of the stages.                                     *)

LEMMA ShapeFrame ==
    ASSUME Shape, UNCHANGED <<wire, fed>>, Writable' => Writable
    PROVE  Shape'
<1>1. (Unanswered(wire)' <=> Unanswered(wire)) /\ (Answered(wire)' <=> Answered(wire))
  BY DEF Unanswered, Answered, Talk, Closed, Erred, Good
<1> QED  BY <1>1 DEF Shape

\* More text may come only while nothing was answered.
LEMMA ShapeFed ==
    ASSUME Shape, wire' = wire, handler = "reading", coord
    PROVE  Shape'
<1>1. Unanswered(wire)
  BY DEF Shape, Writable
<1>2. Unanswered(wire)'
  BY <1>1 DEF Unanswered, Talk, Closed, Erred
<1> QED  BY <1>2 DEF Shape

LEMMA AnswersShape ==
    ASSUME TypeOK, Owned, Standing, Shape, Complete, HandlerAnswers
    PROVE  Shape'
<1>0. /\ handler = "awaiting" /\ consumer = "finished" /\ UNCHANGED <<fed, consumer>>
      /\ handler' \in {"answered", "broken"}
  BY DEF HandlerAnswers, coordVars, consumerVars
<1>1. ~Writable'
  BY <1>0 DEF Writable, Reading
<1>2. Unanswered(wire)
  BY <1>0 DEF Shape, Writable
<1>3. CASE wire' = wire
  BY <1>0, <1>1, <1>3, ShapeFrame
<1>4. CASE wire' = wire \o Answer /\ (client # "lost" \/ Answer = <<>>)
  <2>1. wire \in Seq(Event)
    BY <1>2, Stages
  <2>2. CASE Answer = <<>>
    <3>1. wire' = wire
      BY <1>4, <2>1, <2>2, ConcatEmptySeq
    <3> QED  BY <1>3, <3>1
  <2>3. CASE Answer = <<Mark("failed")>>
    <3>1. wire' = Append(wire, Mark("failed"))
      BY <1>4, <2>1, <2>3, ConcatOne, MarksInEvent
    <3>2. Answered(wire')
      BY <1>2, <3>1 DEF Answered
    <3>3. Answered(wire)'
      BY <1>0, <3>2 DEF Answered, Good, Unanswered, Talk, Closed, Erred
    <3> QED  BY <1>1, <3>3 DEF Shape
  <2>4. CASE Answer = <<Mark("stopped")>> /\ ~consumerError /\ session = "good"
    <3>1. client # "lost"
      BY <1>4, <2>4, Tuples
    <3>2. coord /\ loop = "finished"
      BY <1>0, <3>1 DEF Standing, Owned, Reaped
    <3>3. ~cancelled
      BY <1>0, <3>1, <3>2 DEF Standing
    <3>4. Good(wire)
      BY <1>0, <2>4, <3>2, <3>3 DEF Complete, Live
    <3>5. wire' = Append(wire, Mark("stopped"))
      BY <1>4, <2>1, <2>4, ConcatOne, MarksInEvent
    <3>6. Answered(wire)'
      <4>1. \E v : Good(v)' /\ wire' = Append(v, Mark("stopped"))
        BY <1>0, <3>4, <3>5 DEF Good
      <4> QED  BY <4>1 DEF Answered
    <3> QED  BY <1>1, <3>6 DEF Shape
  <2>5. \/ Answer = <<Mark("failed")>> \/ Answer = <<>>
        \/ Answer = <<Mark("stopped")>> /\ ~consumerError /\ session = "good"
    BY DEF Answer
  <2> QED  BY <2>2, <2>3, <2>4, <2>5
<1> QED  BY <1>3, <1>4 DEF HandlerAnswers

LEMMA GetsShape ==
    ASSUME TypeOK, Sentinel, Chained, Shape, ConsumerGets
    PROVE  Shape'
<1>0. /\ output # <<>> /\ Head(output) = output[1] /\ consumer = "get"
      /\ UNCHANGED <<handler, coord, fed>>
  BY EndedSeen DEF ConsumerGets, coordVars
<1>1. Reading
  BY <1>0 DEF Reading
<1>2. CASE output[1].kind = "end"
  <2>1. wire' = wire
    BY <1>0, <1>2 DEF ConsumerGets
  <2> QED  BY <1>0, <1>1, <2>1, ShapeFrame DEF Writable
<1>3. CASE output[1].kind # "end"
  <2> DEFINE x == output[1]
  <2>1. x \in AudioEvents /\ wire' = Append(wire, x)
    BY <1>3, GetsOne
  <2>2. Unanswered(wire) /\ Follows(LastOf(wire), x)
    BY <1>0, <1>1, <1>3 DEF Chained, Linked, Comes, Shape, Writable
  <2> HIDE DEF x
  <2>3. Unanswered(wire')
    BY <2>1, <2>2, Grows
  <2>4. Unanswered(wire)'
    BY <2>3 DEF Unanswered, Talk, Closed, Erred
  <2> QED  BY <2>4 DEF Shape
<1> QED  BY <1>2, <1>3

LEMMA ShapeStep ==
    ASSUME TypeOK, Sentinel, Owned, Standing, Chained, Shape, Complete, [Next]_vars
    PROVE  Shape'
<1> USE DEF sessionVars, coordVars, loopVars, consumerVars
<1>1. CASE HandleStart
  <2>1. wire' = <<>>
    BY <1>1 DEF HandleStart
  <2>2. 0 \in 0..MaxPhrases /\ wire' = Spoken(0)
    BY <2>1, MaxPhrasesAssumption DEF Spoken
  <2>3. Unanswered(wire)'
    BY <2>2 DEF Unanswered, Talk, Spoken
  <2> QED  BY <2>3 DEF Shape
<1>2. ASSUME NEW n \in 0..MaxPhrases, HandleChunk(n) PROVE Shape'
  BY <1>2, ShapeFed DEF HandleChunk, TakesEvents
<1>3. CASE HandleCompat
  BY <1>3, ShapeFed DEF HandleCompat, TakesEvents
<1>4. CASE HandleStop
  BY <1>4, ShapeFed DEF HandleStop, TakesEvents
<1>5. CASE LoopWakes
  BY <1>5, ShapeFrame DEF LoopWakes, Writable, Reading
<1>6. CASE TurnGranted
  BY <1>6, ShapeFrame DEF TurnGranted, Writable, Reading
<1>7. CASE PhraseSynthesized
  BY <1>7, ShapeFrame DEF PhraseSynthesized, Writable, Reading
<1>8. CASE PhraseFails
  BY <1>8, ShapeFrame DEF PhraseFails, Writable, Reading
<1>9. CASE LoopPuts
  BY <1>9, ShapeFrame DEF LoopPuts, Writable, Reading
<1>10. CASE LoopCancelled
  BY <1>10, ShapeFrame DEF LoopCancelled, Writable, Reading
<1>11. CASE CancelledFromOutside
  BY <1>11, ShapeFrame DEF CancelledFromOutside, Writable, Reading
<1>12. CASE ConsumerGets
  BY <1>12, GetsShape
<1>13. CASE ConsumerWrites
  BY <1>13, ShapeFrame DEF ConsumerWrites, Writable, Reading
<1>14. CASE ConsumerWriteFails
  BY <1>14, ShapeFrame DEF ConsumerWriteFails, Writable, Reading
<1>15. CASE ConsumerGivesUp
  BY <1>15, ShapeFrame DEF ConsumerGivesUp, Writable, Reading
<1>16. CASE ConsumerCancelled
  BY <1>16, ShapeFrame DEF ConsumerCancelled, Writable, Reading
<1>17. CASE HandlerAnswers
  BY <1>17, AnswersShape
<1>18. CASE HandlerCleansUp
  BY <1>18, ShapeFrame DEF HandlerCleansUp, Writable, Reading
<1>19. CASE HandlerLeaves
  BY <1>19, ShapeFrame DEF HandlerLeaves, Writable, Reading
<1>20. CASE HandlerCloses
  BY <1>20, ShapeFrame DEF HandlerCloses, Writable, Reading
<1>21. CASE ServiceDisconnects
  BY <1>21, ShapeFrame DEF ServiceDisconnects, Writable, Reading
<1>22. CASE DisconnectReaps
  BY <1>22, ShapeFrame DEF DisconnectReaps, Writable, Reading
<1>23. CASE DisconnectEnds
  BY <1>23, ShapeFrame DEF DisconnectEnds, Writable, Reading
<1>24. CASE ClientLeaves
  BY <1>24, ShapeFrame DEF ClientLeaves, Writable, Reading
<1>25. CASE UNCHANGED vars
  BY <1>25, ShapeFrame DEF vars, taskVars, Writable, Reading
<1>26. CASE TurnTaken
  BY <1>26, ShapeFrame DEF TurnTaken, Writable, Reading
<1>27. CASE HandlerRefuses
  BY <1>27, ShapeFrame DEF HandlerRefuses, Writable, Reading
<1> QED
  BY <1>1, <1>2, <1>3, <1>4, <1>5, <1>6, <1>7, <1>8, <1>9, <1>10, <1>11, <1>12, <1>13, <1>14, <1>15, <1>16, <1>17, <1>18, <1>19, <1>20, <1>21, <1>22, <1>23, <1>24, <1>25, <1>26, <1>27
     DEF Next, Handler, Loop, Consumer, Disconnect

-----------------------------------------------------------------------------
(* Refusals stand anywhere in the session, but not behind its answer.      *)

Placed ==
    /\ \A i \in refusals : i <= Len(wire)
    /\ AnswerSent => \A i \in refusals : i < Len(wire)

LEMMA PlacedFrame ==
    ASSUME Placed, UNCHANGED <<wire, refusals>>
    PROVE  Placed'
BY DEF Placed, AnswerSent

\* What is sent next comes after every refusal so far.
LEMMA PlacedGrows ==
    ASSUME TypeOK, Placed, refusals' = refusals, NEW x \in Event, wire' = Append(wire, x)
    PROVE  Placed'
<1> DEFINE n == Len(wire)
<1>1. n \in Nat /\ Len(wire') = n + 1 /\ refusals \subseteq Nat
  <2>1. wire \in Seq(Event)
    BY DEF TypeOK, Event
  <2> QED  BY <2>1 DEF TypeOK
<1>2. \A i \in refusals : i <= n
  BY DEF Placed
<1> HIDE DEF n
<1>3. \A i \in refusals : i < n + 1 /\ i <= n + 1
  BY <1>1, <1>2
<1>4. \A i \in refusals' : i < Len(wire') /\ i <= Len(wire')
  BY <1>1, <1>3
<1> QED  BY <1>4 DEF Placed

\* A session in which an event is refused was not answered.
LEMMA RefusesPlaced ==
    ASSUME TypeOK, Shape, Placed, HandlerRefuses
    PROVE  Placed'
<1>1. wire' = wire /\ refusals' = refusals \cup {Len(wire)} /\ handler = "reading" /\ coord
  BY DEF HandlerRefuses, TakesEvents
<1>2. Unanswered(wire)
  BY <1>1 DEF Shape, Writable
<1>3. Len(wire) \in Nat
  BY DEF TypeOK
<1>4. ~AnswerSent
  <2> SUFFICES ASSUME AnswerSent PROVE FALSE
    OBVIOUS
  <2>1. Len(wire) \in 1..Len(wire)
    <3>1. wire \in Seq(Event) /\ wire # <<>>
      BY DEF TypeOK, Event, AnswerSent
    <3>2. Len(wire) # 0
      BY <3>1, EmptySeq
    <3> QED  BY <1>3, <3>2
  <2>2. wire[Len(wire)] # Mark("stopped") /\ wire[Len(wire)] # Mark("failed")
    BY <1>2, <2>1, NoneAnswers
  <2> QED  BY <2>2 DEF AnswerSent, Answers
<1>5. ~AnswerSent'
  BY <1>1, <1>4 DEF AnswerSent
<1>6. \A i \in refusals' : i <= Len(wire)
  BY <1>1, <1>3 DEF Placed
<1> QED  BY <1>1, <1>5, <1>6 DEF Placed

LEMMA PlacedStep ==
    ASSUME TypeOK, Sentinel, Shape, Placed, [Next]_vars
    PROVE  Placed'
<1>1. CASE HandleStart
  BY <1>1 DEF HandleStart, Placed
<1>2. CASE HandlerRefuses
  BY <1>2, RefusesPlaced
<1>3. CASE ConsumerGets
  <2>1. refusals' = refusals
    BY <1>3 DEF ConsumerGets
  <2>2. CASE wire' = wire
    BY <2>1, <2>2, PlacedFrame
  <2>3. CASE wire' # wire
    <3>1. output[1].kind # "end"
      BY <1>3, <2>3, EndedSeen DEF ConsumerGets
    <3>2. output[1] \in Event /\ wire' = Append(wire, output[1])
      BY <1>3, <3>1, GetsOne DEF Event
    <3> QED  BY <2>1, <3>2, PlacedGrows
  <2> QED  BY <2>2, <2>3
<1>4. CASE HandlerAnswers
  <2>1. refusals' = refusals /\ (wire' = wire \/ wire' = wire \o Answer)
    BY <1>4 DEF HandlerAnswers
  <2>2. CASE wire' = wire
    BY <2>1, <2>2, PlacedFrame
  <2>3. CASE wire' # wire
    <3>1. wire \in Seq(Event)
      BY DEF TypeOK, Event
    <3>2. Answer # <<>>
      BY <2>1, <2>3, <3>1, ConcatEmptySeq
    <3>3. PICK x \in {Mark("failed"), Mark("stopped")} : Answer = <<x>>
      BY <3>2 DEF Answer
    <3>4. x \in Event
      BY <3>3, MarksInEvent
    <3>5. wire' = Append(wire, x)
      BY <2>1, <2>3, <3>1, <3>3, <3>4, ConcatOne
    <3> QED  BY <2>1, <3>4, <3>5, PlacedGrows
  <2> QED  BY <2>2, <2>3
<1>5. ASSUME ~HandleStart, ~HandlerRefuses, ~ConsumerGets, ~HandlerAnswers
      PROVE  UNCHANGED <<wire, refusals>>
  BY <1>5 DEF Next, Handler, Loop, Consumer, Disconnect, vars, taskVars, HandleChunk, HandleCompat,
         HandleStop, LoopWakes, TurnGranted, TurnTaken, PhraseSynthesized, PhraseFails, LoopPuts,
         LoopCancelled, CancelledFromOutside, ConsumerWrites, ConsumerWriteFails, ConsumerGivesUp,
         ConsumerCancelled, HandlerCleansUp, HandlerLeaves, HandlerCloses, ServiceDisconnects,
         DisconnectReaps, DisconnectEnds, ClientLeaves
<1> QED  BY <1>1, <1>2, <1>3, <1>4, <1>5, PlacedFrame

-----------------------------------------------------------------------------
Sent == Standing /\ Chained /\ Shape /\ Complete /\ Placed

LEMMA InitSent == Init => Sent
<1> SUFFICES ASSUME Init PROVE Sent
  OBVIOUS
<1>1. Standing
  BY DEF Init, Standing, Reading
<1>2. Chained
  BY DEF Init, Chained, Lined, Linked, Reading
<1>3. Shape
  <2>1. 0 \in 0..MaxPhrases /\ wire = Spoken(0)
    BY MaxPhrasesAssumption DEF Init, Spoken
  <2> QED  BY <2>1 DEF Shape, Unanswered, Talk
<1>4. Complete
  BY DEF Init, Complete, Live
<1>5. Placed
  BY DEF Init, Placed, AnswerSent
<1> QED  BY <1>1, <1>2, <1>3, <1>4, <1>5 DEF Sent

LEMMA SentInvariant == Spec => [](TypeOK /\ Sent)
<1> DEFINE Held == TypeOK /\ Counted /\ Sentinel /\ Owned
<1>1. Held /\ Sent /\ [Next]_vars => Sent'
  BY StandingStep, ChainedStep, CompleteStep, ShapeStep, PlacedStep DEF Sent
<1>2. Spec => []Held
  BY OwnedInvariant
<1>3. Held => TypeOK
  OBVIOUS
<1> HIDE DEF Held
<1> QED  BY <1>1, <1>2, <1>3, InitSent, PTL DEF Spec

\* Whatever is cut short, the client sees one well-formed envelope, into which
\* only the refusals of its own events may be put, and nothing behind the answer
\* (envelope.py, stream_coordinator.py:342-374, wyoming_server.py:1376-1382 and
\* 1453-1507).
THEOREM OneEnvelopeHolds == Spec => []OneEnvelope
<1>1. TypeOK /\ Sent => OneEnvelope
  <2> SUFFICES ASSUME TypeOK, Sent PROVE OneEnvelope
    OBVIOUS
  <2>1. Whole(wire)
    <3>1. fed \in 0..MaxPhrases
      BY DEF TypeOK
    <3>2. Unanswered(wire) \/ Answered(wire)
      BY DEF Sent, Shape
    <3> QED  BY <3>1, <3>2, StagesWhole
  <2>2. \A k : Spoken(k) = IF k = 0 THEN <<>> ELSE Audio(k)
    BY DEF Spoken
  <2>3. AnswerSent => \A i \in refusals : i < Len(wire)
    BY DEF Sent, Placed
  <2> QED  BY <2>1, <2>2, <2>3 DEF OneEnvelope, Whole
<1> QED  BY <1>1, SentInvariant, PTL

\* synthesize-stopped is sent only when every phrase of the text was sent and
\* the audio closed (wyoming_server.py:1479-1484).
THEOREM NoFalseSuccessHolds == Spec => []NoFalseSuccess
<1>1. TypeOK /\ Sent => NoFalseSuccess
  BY StagesTrue DEF TypeOK, Sent, Shape
<1> QED  BY <1>1, SentInvariant, PTL
=============================================================================
