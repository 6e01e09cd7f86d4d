-------------------------- MODULE PhraseAccumulator --------------------------
(***************************************************************************)
(* PhraseAccumulator of app/speech/phrases.py: streamed text, cut wherever *)
(* the client pleases, is turned into phrases for synthesis.               *)
(*                                                                         *)
(* A character is a member of a small alphabet that has one or two members *)
(* of each class the code tells apart.                                     *)
(***************************************************************************)
EXTENDS Naturals, Sequences, FiniteSetsExt, SequencesExt

CONSTANTS
    SoftMax, PhraseMax, RetainedMax,
    MaxText         \* bound on the length of a text

ASSUME LimitsAreOrdered ==
    /\ {SoftMax, PhraseMax, RetainedMax, MaxText} \subseteq Nat \ {0}
    /\ SoftMax <= PhraseMax /\ PhraseMax <= RetainedMax

Letters    == {"a", "m"}
Digits     == {"1"}
Marks      == {"!"}                 \* terminals that need no context
Closers    == {")"}
Whitespace == {" "}
Alphabet   == Letters \cup Digits \cup Marks \cup Closers \cup Whitespace \cup {"."}

\* One word stands for the list of titles.
Abbreviations == {<<"m">>}

VARIABLES
    text,       \* everything the client will send
    fed,        \* how much of it was fed
    buffer, flushed, emittedAny,
    phrases     \* what feed() and flush() returned so far

vars == <<text, fed, buffer, flushed, emittedAny, phrases>>

Init ==
    /\ text \in UNION {[1..n -> Alphabet] : n \in 1..MaxText}
    /\ fed = 0 /\ buffer = <<>> /\ flushed = FALSE /\ emittedAny = FALSE
    /\ phrases = <<>>

-----------------------------------------------------------------------------
(* Where a phrase ends.                                                    *)

\* The first position from i on whose character is not in chars.
After(b, i, chars) == Min({j \in i..(Len(b) + 1) : j = Len(b) + 1 \/ b[j] \notin chars})

\* Faulty: a period is judged by what is there.
CanResolveAtOnce(b, i) == TRUE

\* _period_can_resolve: something follows that tells what the period is.
CanResolve(b, i) == After(b, i + 1, Whitespace \cup Closers) <= Len(b)

Decimal(b, i) == i \in 2..(Len(b) - 1) /\ {b[i - 1], b[i + 1]} \subseteq Digits

Ellipsis(b, i) == \E j \in {i - 1, i + 1} \cap DOMAIN b : b[j] = "."

WordBefore(b, i) ==
    LET start == Min({s \in 1..i : \A k \in s..(i - 1) : b[k] \in Letters})
    IN  SubSeq(b, start, i - 1)

Abbreviation(b, i) ==
    /\ WordBefore(b, i) \in Abbreviations
    /\ LET j == After(b, i + 1, Whitespace \cup Closers) IN j <= Len(b) /\ b[j] \in Letters

\* _is_terminator
Terminator(b, i) ==
    \/ b[i] \in Marks
    \/ b[i] = "." /\ CanResolve(b, i) /\ ~Decimal(b, i) /\ ~Ellipsis(b, i) /\ ~Abbreviation(b, i)

Smaller(m, n) == IF m < n THEN m ELSE n

Boundaries(b) == {i \in 1..Smaller(Len(b), PhraseMax) : Terminator(b, i)}

LastSpace(b, limit) == LET at == {i \in 1..Smaller(Len(b), limit) : b[i] \in Whitespace}
                       IN  IF at = {} THEN 0 ELSE Max(at)

\* Without a boundary: the last space within the soft limit, within the hard
\* limit, or the hard limit itself.
Fallback(b) ==
    IF LastSpace(b, SoftMax) > 0 THEN LastSpace(b, SoftMax)
    ELSE IF LastSpace(b, PhraseMax) > 0 THEN LastSpace(b, PhraseMax)
    ELSE Smaller(Len(b), PhraseMax)

\* The retained_max loop looks for a space within the hard limit only.
Enforced(b) == IF LastSpace(b, PhraseMax) > 0 THEN LastSpace(b, PhraseMax) ELSE Smaller(Len(b), PhraseMax)

From(b, i) == SubSeq(b, i, Len(b))

\* What is left of b after a phrase of n characters and the space behind it.
RestAfter(b, n) == From(b, After(b, n + 1, Whitespace))

Blank(p) == Range(p) \subseteq Whitespace

-----------------------------------------------------------------------------
(* _extract_phrases: what is retained, whether a phrase was ever emitted,  *)
(* and the phrases of this call.                                           *)

\* The first n characters leave the buffer: as a phrase, or blank and dropped.
Cut(e, n) ==
    LET p == SubSeq(e.buffer, 1, n)
    IN  [buffer |-> RestAfter(e.buffer, n),
         any    |-> e.any \/ ~Blank(p),
         out    |-> IF Blank(p) THEN e.out ELSE Append(e.out, p)]

\* One turn of the loop: a phrase up to a boundary and its closers, a phrase by
\* the limits, leading white space dropped once a phrase was emitted, or nothing.
Round(e) ==
    LET b == e.buffer
    IN  IF Boundaries(b) # {} THEN Cut(e, After(b, Min(Boundaries(b)) + 1, Closers) - 1)
        ELSE IF Len(b) > PhraseMax THEN Cut(e, Fallback(b))
        ELSE IF e.any THEN [e EXCEPT !.buffer = RestAfter(b, 0)]
        ELSE e

\* A turn that does anything takes a character, so that as many turns as there
\* are characters bring the loop to its end.
Extract(e) ==
    LET turn[i \in 0..Len(e.buffer)] == IF i = 0 THEN e ELSE Round(turn[i - 1])
    IN  turn[Len(e.buffer)]

\* The loop that enforces retained_max, likewise.
EnforceRound(e) == IF Len(e.buffer) > RetainedMax THEN Cut(e, Enforced(e.buffer)) ELSE e

Enforce(e) ==
    LET turn[i \in 0..Len(e.buffer)] == IF i = 0 THEN e ELSE EnforceRound(turn[i - 1])
    IN  turn[Len(e.buffer)]

Fresh(b, any) == [buffer |-> b, any |-> any, out |-> <<>>]

\* Faulty: the new chunk replaces what was retained.
FedWithoutCarry(b, any, chunk) == Enforce(Extract(Fresh(chunk, any)))

Fed(b, any, chunk) == Enforce(Extract(Fresh(b \o chunk, any)))

\* What flush() returns, as a sequence of none or one.
Flushed(b) == IF Blank(b) THEN <<>> ELSE <<b>>

Feed ==
    /\ fed < Len(text) /\ ~flushed
    /\ \E n \in (fed + 1)..Len(text) :
          LET e == Fed(buffer, emittedAny, SubSeq(text, fed + 1, n))
          IN  /\ fed' = n
              /\ buffer' = e.buffer /\ emittedAny' = e.any
              /\ phrases' = phrases \o e.out
    /\ UNCHANGED <<text, flushed>>

Flush ==
    /\ fed = Len(text) /\ ~flushed
    /\ flushed' = TRUE /\ buffer' = <<>>
    /\ phrases' = phrases \o Flushed(buffer)
    /\ UNCHANGED <<text, fed, emittedAny>>

Next == Feed \/ Flush

Spec == Init /\ [][Next]_vars

-----------------------------------------------------------------------------
(* Properties.                                                             *)

\* The phrase p lies in the text t from its place on, and nothing but white
\* space between its end and the next place.
Stands(t, p, place, next) ==
    LET end == place + Len(p)
    IN  /\ end <= next
        /\ SubSeq(t, place, end - 1) = p
        /\ \A k \in end..(next - 1) : t[k] \in Whitespace

\* The phrases ps, in order, and then b make up the first n characters of t.
MakeUp(t, n, b, ps) ==
    \E at \in [1..(Len(ps) + 1) -> 1..(n + 1)] :
        /\ \A k \in 1..(at[1] - 1) : t[k] \in Whitespace
        /\ \A i \in DOMAIN ps : Stands(t, ps[i], at[i], at[i + 1])
        /\ SubSeq(t, at[Len(ps) + 1], n) = b

\* Nothing that is not white space is lost, doubled or moved, however the text
\* was cut: every phrase is a contiguous piece of the text, and has something to
\* say.
NothingLost ==
    /\ MakeUp(text, fed, buffer, phrases)
    /\ \A i \in DOMAIN phrases : ~Blank(phrases[i])

\* What the whole text gives when it is fed at once.
AtOnce == LET e == Fed(<<>>, FALSE, text) IN e.out \o Flushed(e.buffer)

\* The phrases do not depend on where the chunks were cut
\* (docs/ARCHITECTURE.md:210).
ChunkingInvariant == flushed => phrases = AtOnce

\* They do not for a text within phrase_max in which neither a closer nor a
\* space follows an exclamation mark or its like: what a period means is never
\* decided too early.
PlainText ==
    /\ Len(text) <= PhraseMax
    /\ \A i \in 1..(Len(text) - 1) : text[i] \in Marks => text[i + 1] \notin Closers \cup Whitespace

PeriodsDecidedOnce == PlainText => ChunkingInvariant
=============================================================================
