---------------------------- MODULE AudioPathProofs ----------------------------
(***************************************************************************)
(* Theorems about AudioPath, for any rate, frame size, length of a chunk,  *)
(* policies and bounds, and any way the transport cuts the audio.          *)
(***************************************************************************)
EXTENDS AudioPath, WellFoundedInduction, SequenceTheorems, TLAPS

-----------------------------------------------------------------------------
(* Induction and sequences of sequences.                                   *)

\* Induction over the naturals, for a set of numbers.
LEMMA SetInduction ==
    ASSUME NEW T, 0 \in T, \A n \in Nat : n \in T => n + 1 \in T
    PROVE  Nat \subseteq T
<1> SUFFICES ASSUME ~(Nat \subseteq T) PROVE FALSE
    OBVIOUS
<1> DEFINE U == Nat \ T
<1>1. \E m \in U : \A k \in U : <<k, m>> \notin OpToRel(<, Nat)
    BY NatLessThanWellFounded, WFMin
<1>2. PICK m \in U : \A k \in U : ~(k < m)
    BY <1>1 DEF OpToRel
<1>3. m # 0 /\ m - 1 \in Nat
    OBVIOUS
<1>4. m - 1 \in T
    BY <1>2, <1>3
<1> QED
    BY <1>3, <1>4

\* Two sequences are equal when they agree at every place.
LEMMA SameSequence ==
    ASSUME NEW S, NEW s \in Seq(S), NEW t \in Seq(S),
           Len(s) = Len(t), \A i \in 1..Len(s) : s[i] = t[i]
    PROVE  s = t
BY SeqEqual

\* A sequence given by a function.
LEMMA Listed ==
    ASSUME NEW S, NEW n \in Nat, NEW f \in [1..n -> S]
    PROVE  f \in Seq(S) /\ Len(f) = n /\ DOMAIN f = 1..n
<1>1. f \in Seq(S)
    BY SeqDef
<1> QED
    BY <1>1, LenProperties

\* The function by which FlattenSeq(q) is defined.
Flat(q) == CHOOSE f : f = [i \in 1..Len(q) |-> IF i = 1 THEN q[i] ELSE f[i - 1] \o q[i]]

LEMMA FlattenIsFlat ==
    ASSUME NEW q
    PROVE  FlattenSeq(q) = IF Len(q) = 0 THEN q ELSE Flat(q)[Len(q)]
BY DEF FlattenSeq, Flat

\* It satisfies its equation: a function that does so exists for every length.
LEMMA FlatEquation ==
    ASSUME NEW q, Len(q) \in Nat
    PROVE  Flat(q) = [i \in 1..Len(q) |-> IF i = 1 THEN q[i] ELSE Flat(q)[i - 1] \o q[i]]
<1> DEFINE Eqn(f, n) == f = [i \in 1..n |-> IF i = 1 THEN q[i] ELSE f[i - 1] \o q[i]]
           Solvable == {n \in Nat : \E f : Eqn(f, n)}
<1>1. 0 \in Solvable
    <2>1. Eqn([i \in 1..0 |-> q[i]], 0)
        OBVIOUS
    <2> QED
        BY <2>1
<1>2. ASSUME NEW n \in Nat, n \in Solvable PROVE n + 1 \in Solvable
    <2>1. PICK f : Eqn(f, n)
        BY <1>2
    <2> DEFINE last == IF n = 0 THEN q[1] ELSE f[n] \o q[n + 1]
               g == [i \in 1..(n + 1) |-> IF i = n + 1 THEN last ELSE f[i]]
    <2>2. \A i \in 1..n : g[i] = f[i]
        OBVIOUS
    <2>3. \A i \in 1..n : f[i] = IF i = 1 THEN q[i] ELSE f[i - 1] \o q[i]
        BY <2>1
    <2>4. g[n + 1] = last
        OBVIOUS
    <2>5. g = [i \in 1..(n + 1) |-> g[i]]
        OBVIOUS
    <2> HIDE DEF g
    <2>6. \A i \in 1..(n + 1) : g[i] = IF i = 1 THEN q[i] ELSE g[i - 1] \o q[i]
        <3> TAKE i \in 1..(n + 1)
        <3>1. CASE i = n + 1
            <4>1. CASE n = 0
                BY <3>1, <4>1, <2>4
            <4>2. CASE n # 0
                <5>1. n \in 1..n /\ i # 1 /\ i - 1 = n
                    BY <3>1, <4>2
                <5> QED
                    BY <3>1, <4>2, <5>1, <2>2, <2>4
            <4> QED
                BY <4>1, <4>2
        <3>2. CASE i # n + 1
            <4>1. i \in 1..n /\ (i # 1 => i - 1 \in 1..n)
                BY <3>2
            <4> QED
                BY <4>1, <2>2, <2>3
        <3> QED
            BY <3>1, <3>2
    <2>7. Eqn(g, n + 1)
        BY <2>5, <2>6
    <2> HIDE DEF Eqn
    <2>8. \E h : Eqn(h, n + 1)
        BY <2>7
    <2> QED
        BY <2>8
<1>3. Len(q) \in Solvable
    <2> HIDE DEF Solvable
    <2> QED
        BY <1>1, <1>2, SetInduction
<1> QED
    BY <1>3 DEF Flat

LEMMA FlatAt ==
    ASSUME NEW q, Len(q) \in Nat
    PROVE  \A i \in 1..Len(q) : Flat(q)[i] = IF i = 1 THEN q[i] ELSE Flat(q)[i - 1] \o q[i]
<1> DEFINE f == Flat(q)
<1>1. f = [i \in 1..Len(q) |-> IF i = 1 THEN q[i] ELSE f[i - 1] \o q[i]]
    BY FlatEquation
<1> HIDE DEF f
<1>2. \A i \in 1..Len(q) : f[i] = IF i = 1 THEN q[i] ELSE f[i - 1] \o q[i]
    BY <1>1
<1> QED
    BY <1>2 DEF f

\* Flattening a longer sequence agrees with flattening its beginning.
LEMMA FlatPrefix ==
    ASSUME NEW S, NEW q \in Seq(Seq(S)), NEW r \in Seq(Seq(S)),
           Len(q) <= Len(r), \A i \in 1..Len(q) : q[i] = r[i]
    PROVE  \A i \in 1..Len(q) : Flat(r)[i] = Flat(q)[i] /\ Flat(q)[i] \in Seq(S)
<1>1. Len(q) \in Nat /\ Len(r) \in Nat
    BY LenProperties
<1> DEFINE f == Flat(q)
           g == Flat(r)
           Agree == {n \in Nat : n \in 1..Len(q) => g[n] = f[n] /\ f[n] \in Seq(S)}
<1>2. \A i \in 1..Len(q) : f[i] = IF i = 1 THEN q[i] ELSE f[i - 1] \o q[i]
    BY <1>1, FlatAt
<1>3. \A i \in 1..Len(r) : g[i] = IF i = 1 THEN r[i] ELSE g[i - 1] \o r[i]
    BY <1>1, FlatAt
<1>4. \A i \in 1..Len(q) : q[i] \in Seq(S)
    BY ElementOfSeq
<1> HIDE DEF f, g
<1>5. 0 \in Agree
    OBVIOUS
<1>6. ASSUME NEW n \in Nat, n \in Agree PROVE n + 1 \in Agree
    <2> SUFFICES ASSUME n + 1 \in 1..Len(q)
                 PROVE  g[n + 1] = f[n + 1] /\ f[n + 1] \in Seq(S)
        OBVIOUS
    <2>1. n + 1 \in 1..Len(r) /\ q[n + 1] = r[n + 1] /\ q[n + 1] \in Seq(S)
        BY <1>1, <1>4
    <2>2. CASE n = 0
        BY <2>1, <2>2, <1>2, <1>3
    <2>3. CASE n # 0
        <3>1. n \in 1..Len(q) /\ n + 1 # 1 /\ (n + 1) - 1 = n
            BY <2>3, <1>1
        <3>2. g[n] = f[n] /\ f[n] \in Seq(S)
            BY <3>1, <1>6
        <3>3. f[n + 1] = f[n] \o q[n + 1]
            BY <3>1, <1>2
        <3>4. g[n + 1] = g[n] \o r[n + 1]
            BY <3>1, <2>1, <1>3
        <3> QED
            BY <3>2, <3>3, <3>4, <2>1, ConcatProperties
    <2> QED
        BY <2>2, <2>3
<1>7. Nat \subseteq Agree
    <2> HIDE DEF Agree
    <2> QED
        BY <1>5, <1>6, SetInduction
<1> QED
    BY <1>7, <1>1 DEF f, g

LEMMA FlattenEmpty == FlattenSeq(<<>>) = <<>>
BY DEF FlattenSeq

LEMMA FlattenType ==
    ASSUME NEW S, NEW q \in Seq(Seq(S))
    PROVE  FlattenSeq(q) \in Seq(S)
<1>1. Len(q) \in Nat
    BY LenProperties
<1>2. CASE Len(q) = 0
    <2>1. q = <<>>
        BY <1>2, EmptySeq
    <2> QED
        BY <2>1, FlattenEmpty, EmptySeq
<1>3. CASE Len(q) # 0
    <2>1. Flat(q)[Len(q)] \in Seq(S)
        BY <1>1, <1>3, FlatPrefix, SMTT(30)
    <2> QED
        BY <2>1, <1>3, FlattenIsFlat
<1> QED
    BY <1>2, <1>3

LEMMA FlattenAppend ==
    ASSUME NEW S, NEW q \in Seq(Seq(S)), NEW x \in Seq(S)
    PROVE  FlattenSeq(Append(q, x)) = FlattenSeq(q) \o x
<1> DEFINE r == Append(q, x)
<1>1. /\ r \in Seq(Seq(S)) /\ Len(r) = Len(q) + 1 /\ Len(q) \in Nat
      /\ \A i \in 1..Len(q) : r[i] = q[i]
      /\ r[Len(q) + 1] = x
    BY AppendProperties, LenProperties
<1> HIDE DEF r
<1>2. FlattenSeq(r) = Flat(r)[Len(q) + 1]
    BY <1>1, FlattenIsFlat
<1>3. Flat(r)[Len(q) + 1] = IF Len(q) + 1 = 1 THEN x ELSE Flat(r)[Len(q)] \o x
    <2>1. Len(q) + 1 \in 1..Len(r) /\ (Len(q) + 1) - 1 = Len(q)
        BY <1>1
    <2>2. Len(r) \in Nat
        BY <1>1
    <2>3. Flat(r)[Len(q) + 1] = IF Len(q) + 1 = 1 THEN r[Len(q) + 1]
                                ELSE Flat(r)[(Len(q) + 1) - 1] \o r[Len(q) + 1]
        BY <2>1, <2>2, FlatAt
    <2> QED
        BY <2>1, <2>3, <1>1
<1>4. CASE Len(q) = 0
    <2>1. q = <<>>
        BY <1>4, EmptySeq
    <2> QED
        BY <2>1, <1>2, <1>3, <1>4, FlattenEmpty, ConcatEmptySeq DEF r
<1>5. CASE Len(q) # 0
    <2>0. Len(q) <= Len(r) /\ Len(q) \in 1..Len(q) /\ \A i \in 1..Len(q) : q[i] = r[i]
        BY <1>1, <1>5
    <2>1. Flat(r)[Len(q)] = Flat(q)[Len(q)]
        BY <2>0, <1>1, FlatPrefix
    <2>2. FlattenSeq(q) = Flat(q)[Len(q)]
        BY <1>5, FlattenIsFlat
    <2>3. Len(q) + 1 # 1
        BY <1>1, <1>5
    <2> QED
        BY <1>2, <1>3, <2>1, <2>2, <2>3 DEF r
<1> QED
    BY <1>4, <1>5

LEMMA Regrouped ==
    ASSUME NEW S, NEW a \in Seq(S), NEW b \in Seq(S), NEW c \in Seq(S)
    PROVE  (a \o b) \o c = a \o (b \o c)
BY ConcatAssociative

LEMMA FlattenConcat ==
    ASSUME NEW S, NEW p \in Seq(Seq(S)), NEW q \in Seq(Seq(S))
    PROVE  FlattenSeq(p \o q) = FlattenSeq(p) \o FlattenSeq(q)
<1> DEFINE Joins(t) == FlattenSeq(p \o t) = FlattenSeq(p) \o FlattenSeq(t)
           Good == {n \in Nat : \A t \in Seq(Seq(S)) : Len(t) = n => Joins(t)}
<1>1. 0 \in Good
    <2> SUFFICES ASSUME NEW t \in Seq(Seq(S)), Len(t) = 0 PROVE Joins(t)
        OBVIOUS
    <2>1. t = <<>>
        BY EmptySeq
    <2>2. p \o t = p
        BY <2>1, ConcatEmptySeq
    <2>3. FlattenSeq(p) \o FlattenSeq(t) = FlattenSeq(p)
        BY <2>1, FlattenEmpty, FlattenType, ConcatEmptySeq
    <2> QED
        BY <2>2, <2>3
<1>2. ASSUME NEW n \in Nat, n \in Good PROVE n + 1 \in Good
    <2> SUFFICES ASSUME NEW t \in Seq(Seq(S)), Len(t) = n + 1 PROVE Joins(t)
        OBVIOUS
    <2>1. t # <<>>
        BY EmptySeq
    <2>0. \E u \in Seq(Seq(S)), x \in Seq(S) : t = Append(u, x)
        BY <2>1, SequenceEmptyOrAppend
    <2>2. PICK u, x : u \in Seq(Seq(S)) /\ x \in Seq(S) /\ t = Append(u, x)
        BY <2>0
    <2>3. Len(u) = n
        BY <2>2, AppendProperties, LenProperties
    <2>4. Joins(u)
        BY <1>2, <2>2, <2>3
    <2>5. p \o t = Append(p \o u, x)
        <3>1. t = u \o <<x>> /\ <<x>> \in Seq(Seq(S))
            BY <2>2, AppendIsConcat
        <3>2. p \o t = (p \o u) \o <<x>>
            BY <2>2, <3>1, Regrouped
        <3> QED
            BY <2>2, <3>2, ConcatProperties, AppendIsConcat
    <2>6. FlattenSeq(p \o t) = FlattenSeq(p \o u) \o x
        <3>1. p \o u \in Seq(Seq(S))
            BY <2>2, ConcatProperties
        <3> QED
            BY <3>1, <2>2, <2>5, FlattenAppend
    <2>7. FlattenSeq(t) = FlattenSeq(u) \o x
        BY <2>2, FlattenAppend
    <2>8. FlattenSeq(p) \in Seq(S) /\ FlattenSeq(u) \in Seq(S) /\ x \in Seq(S)
        BY <2>2, FlattenType
    <2>9. (FlattenSeq(p) \o FlattenSeq(u)) \o x = FlattenSeq(p) \o (FlattenSeq(u) \o x)
        BY <2>8, Regrouped, SMTT(60)
    <2> QED
        BY <2>4, <2>6, <2>7, <2>9
<1>3. Len(q) \in Good
    <2> HIDE DEF Good
    <2> QED
        BY <1>1, <1>2, SetInduction, LenProperties
<1> QED
    BY <1>3

LEMMA FlattenOne ==
    ASSUME NEW S, NEW x \in Seq(S)
    PROVE  FlattenSeq(<<x>>) = x
<1>1. <<x>> = Append(<<>>, x) /\ <<>> \in Seq(Seq(S))
    OBVIOUS
<1>2. FlattenSeq(<<x>>) = FlattenSeq(<<>>) \o x
    BY <1>1, FlattenAppend
<1> QED
    BY <1>2, FlattenEmpty, ConcatEmptySeq

-----------------------------------------------------------------------------
(* The audio of a sequence of events.                                      *)

Bytes == Seq(Nat)

Event == [kind : {"start", "chunk", "stop", "error"}, audio : Bytes, at : Int]

Audios(s) == [i \in DOMAIN s |-> s[i].audio]

LEMMA AudiosOf ==
    ASSUME NEW s \in Seq(Event)
    PROVE  /\ AudioOf(s) = FlattenSeq(Audios(s))
           /\ Audios(s) \in Seq(Bytes) /\ Len(Audios(s)) = Len(s)
           /\ \A i \in 1..Len(s) : Audios(s)[i] = s[i].audio
<1>1. Len(s) \in Nat /\ DOMAIN s = 1..Len(s)
    BY LenProperties
<1>2. \A i \in 1..Len(s) : s[i].audio \in Bytes
    <2> TAKE i \in 1..Len(s)
    <2>1. s[i] \in Event
        BY ElementOfSeq
    <2> QED
        BY <2>1 DEF Event
<1>3. Audios(s) \in [1..Len(s) -> Bytes]
    BY <1>1, <1>2 DEF Audios
<1>4. Audios(s) \in Seq(Bytes) /\ Len(Audios(s)) = Len(s)
    BY <1>1, <1>3, Listed
<1>5. AudioOf(s) = FlattenSeq(Audios(s))
    BY DEF AudioOf, Audios
<1> QED
    BY <1>1, <1>4, <1>5 DEF Audios

LEMMA AudioEmpty == AudioOf(<<>>) = <<>>
<1>1. <<>> \in Seq(Event)
    BY EmptySeq
<1>2. Audios(<<>>) \in Seq(Bytes) /\ Len(Audios(<<>>)) = 0
    BY <1>1, AudiosOf
<1>3. Audios(<<>>) = <<>>
    BY <1>2, EmptySeq
<1> QED
    BY <1>1, <1>3, AudiosOf, FlattenEmpty

LEMMA AudioType ==
    ASSUME NEW s \in Seq(Event)
    PROVE  AudioOf(s) \in Bytes
BY AudiosOf, FlattenType DEF Bytes

LEMMA AudioConcat ==
    ASSUME NEW s \in Seq(Event), NEW t \in Seq(Event)
    PROVE  AudioOf(s \o t) = AudioOf(s) \o AudioOf(t)
<1>1. s \o t \in Seq(Event) /\ Len(s \o t) = Len(s) + Len(t) /\ Len(s) \in Nat /\ Len(t) \in Nat
    BY ConcatProperties, LenProperties
<1>2. \A i \in 1..(Len(s) + Len(t)) : (s \o t)[i] = IF i <= Len(s) THEN s[i] ELSE t[i - Len(s)]
    BY ConcatProperties
<1> DEFINE a == Audios(s)
           b == Audios(t)
           c == Audios(s \o t)
<1>3. /\ a \in Seq(Bytes) /\ Len(a) = Len(s)
      /\ \A i \in 1..Len(s) : a[i] = s[i].audio
    BY AudiosOf
<1>4. /\ b \in Seq(Bytes) /\ Len(b) = Len(t)
      /\ \A i \in 1..Len(t) : b[i] = t[i].audio
    BY AudiosOf
<1>5. /\ c \in Seq(Bytes) /\ Len(c) = Len(s) + Len(t)
      /\ \A i \in 1..(Len(s) + Len(t)) : c[i] = (s \o t)[i].audio
    BY <1>1, AudiosOf
<1>6. /\ AudioOf(s) = FlattenSeq(a) /\ AudioOf(t) = FlattenSeq(b)
      /\ AudioOf(s \o t) = FlattenSeq(c)
    BY <1>1, AudiosOf
<1> HIDE DEF a, b, c
<1>7. /\ a \o b \in Seq(Bytes) /\ Len(a \o b) = Len(s) + Len(t)
      /\ \A i \in 1..(Len(s) + Len(t)) : (a \o b)[i] = IF i <= Len(s) THEN a[i] ELSE b[i - Len(s)]
    <2>1. a \in Seq(Bytes) /\ b \in Seq(Bytes)
        BY <1>3, <1>4
    <2>2. /\ a \o b \in Seq(Bytes) /\ Len(a \o b) = Len(a) + Len(b)
          /\ \A i \in 1..(Len(a) + Len(b)) : (a \o b)[i] = IF i <= Len(a) THEN a[i] ELSE b[i - Len(a)]
        BY <2>1, ConcatProperties
    <2> QED
        BY <2>2, <1>3, <1>4
<1>8. \A i \in 1..(Len(s) + Len(t)) : c[i] = (a \o b)[i]
    <2> TAKE i \in 1..(Len(s) + Len(t))
    <2>1. CASE i <= Len(s)
        <3>1. i \in 1..Len(s)
            BY <1>1, <2>1
        <3> QED
            BY <3>1, <2>1, <1>2, <1>3, <1>5, <1>7
    <2>2. CASE ~(i <= Len(s))
        <3>1. i - Len(s) \in 1..Len(t)
            BY <1>1, <2>2
        <3> QED
            BY <3>1, <2>2, <1>2, <1>4, <1>5, <1>7
    <2> QED
        BY <2>1, <2>2
<1>9. c = a \o b
    BY <1>5, <1>7, <1>8, SameSequence
<1>10. a \in Seq(Seq(Nat)) /\ b \in Seq(Seq(Nat))
    BY <1>3, <1>4 DEF Bytes
<1>11. FlattenSeq(a \o b) = FlattenSeq(a) \o FlattenSeq(b)
    BY <1>10, FlattenConcat
<1> QED
    BY <1>6, <1>9, <1>11

LEMMA AudioOne ==
    ASSUME NEW e \in Event
    PROVE  AudioOf(<<e>>) = e.audio
<1>1. <<e>> \in Seq(Event) /\ Len(<<e>>) = 1 /\ <<e>>[1] = e
    OBVIOUS
<1> DEFINE a == Audios(<<e>>)
           b == <<e.audio>>
<1>2. /\ AudioOf(<<e>>) = FlattenSeq(a) /\ a \in Seq(Bytes) /\ Len(a) = 1
      /\ a[1] = e.audio
    <2> DEFINE s == <<e>>
    <2>1. s \in Seq(Event) /\ Len(s) = 1 /\ s[1] = e /\ 1 \in 1..1
        BY <1>1
    <2> HIDE DEF s
    <2>2. /\ AudioOf(s) = FlattenSeq(Audios(s)) /\ Audios(s) \in Seq(Bytes)
          /\ Len(Audios(s)) = 1 /\ Audios(s)[1] = s[1].audio
        BY <2>1, AudiosOf
    <2> QED
        BY <2>1, <2>2 DEF s
<1>3. e.audio \in Bytes
    BY DEF Event
<1>4. b \in Seq(Bytes) /\ Len(b) = 1 /\ b[1] = e.audio
    BY <1>3
<1>5. FlattenSeq(b) = e.audio
    BY <1>3, FlattenOne DEF Bytes
<1> HIDE DEF a, b
<1>6. a = b
    BY <1>2, <1>4, SameSequence
<1> QED
    BY <1>2, <1>5, <1>6

\* One more event adds its audio.
LEMMA AudioAppend ==
    ASSUME NEW s \in Seq(Event), NEW e \in Event
    PROVE  AudioOf(Append(s, e)) = AudioOf(s) \o e.audio
<1>1. Append(s, e) = s \o <<e>> /\ <<e>> \in Seq(Event)
    BY AppendIsConcat
<1> QED
    BY <1>1, AudioConcat, AudioOne

-----------------------------------------------------------------------------
(* Arithmetic.                                                             *)

LEMMA Positive ==
    /\ Rate \in Nat \ {0} /\ FrameSize \in Nat \ {0} /\ ChunkMs \in Nat \ {0}
    /\ MaxBytes \in Nat \ {0} /\ Phrases \in Nat \ {0}
BY AudioParameters

LEMMA Division ==
    ASSUME NEW n \in Int, NEW d \in Nat \ {0}
    PROVE  /\ n \div d \in Int /\ n % d \in 0..(d - 1)
           /\ n = (n \div d) * d + (n % d)
OBVIOUS

LEMMA Quotient ==
    ASSUME NEW q \in Int, NEW d \in Nat \ {0}, NEW r \in 0..(d - 1)
    PROVE  (q * d + r) \div d = q /\ (q * d + r) % d = r
OBVIOUS

LEMMA Multiple ==
    ASSUME NEW q \in Nat, NEW d \in Nat \ {0}
    PROVE  (q * d) % d = 0 /\ (q * d) \div d = q /\ q * d \in Nat
OBVIOUS

LEMMA NaturalQuotient ==
    ASSUME NEW n \in Nat, NEW d \in Nat \ {0}
    PROVE  n \div d \in Nat /\ n % d \in Nat /\ (n % d = 0 => n = (n \div d) * d)
OBVIOUS

LEMMA ProductMonotone ==
    ASSUME NEW m \in Nat, NEW n \in Nat, NEW d \in Nat, m <= n
    PROVE  m * d <= n * d /\ m * d \in Nat /\ n * d \in Nat
OBVIOUS

LEMMA ChunkSize ==
    /\ ChunkFrames \in Nat \ {0} /\ ChunkBytes \in Nat \ {0}
    /\ ChunkBytes = ChunkFrames * FrameSize
<1>1. (Rate * ChunkMs) \div 1000 \in Int
    BY Positive
<1>2. ChunkFrames \in Nat \ {0}
    BY <1>1 DEF ChunkFrames, Atleast
<1> QED
    BY <1>2, Positive DEF ChunkBytes

LEMMA MillisecondsType ==
    ASSUME NEW n \in Int
    PROVE  Milliseconds(n) \in Int
BY Positive DEF Milliseconds

\* The time of a frame is rounded down.
LEMMA MillisecondsRounds ==
    ASSUME NEW n \in Int
    PROVE  /\ Milliseconds(n) * Rate <= n * 1000
           /\ n * 1000 < (Milliseconds(n) + 1) * Rate
<1> DEFINE m == n * 1000
           q == m \div Rate
<1>1. m \in Int /\ Rate \in Nat \ {0}
    BY Positive
<1>2. Milliseconds(n) = q
    BY DEF Milliseconds
<1> HIDE DEF m
<1>3. q \in Int /\ m % Rate \in 0..(Rate - 1) /\ m = q * Rate + (m % Rate)
    BY <1>1, Division
<1> HIDE DEF q
<1>4. (q + 1) * Rate = q * Rate + Rate
    BY <1>1, <1>3
<1>5. q * Rate \in Int
    BY <1>1, <1>3
<1>6. q * Rate <= m /\ m < (q + 1) * Rate
    BY <1>1, <1>3, <1>4, <1>5
<1> QED
    BY <1>2, <1>6 DEF m

LEMMA AlignedBounds ==
    ASSUME NEW n \in Nat
    PROVE  Aligned(n) \in 0..n
BY Positive DEF Aligned

LEMMA BytesOfType ==
    ASSUME NEW ms \in Nat
    PROVE  BytesOf(ms) \in Nat
<1>1. ms * Rate * FrameSize \in Nat
    BY Positive
<1>2. (ms * Rate * FrameSize) \div 1000 \in Nat
    BY <1>1, NaturalQuotient
<1> QED
    BY <1>2, AlignedBounds DEF BytesOf

\* The full chunks of whole frames that n bytes give.
LEMMA FullChunks ==
    ASSUME NEW n \in Nat
    PROVE  /\ Aligned(n) \div ChunkBytes \in Nat
           /\ (Aligned(n) \div ChunkBytes) * ChunkBytes \in 0..n
<1> DEFINE a == Aligned(n)
           c == ChunkBytes
<1>1. a \in 0..n /\ a \in Nat /\ c \in Nat \ {0}
    BY AlignedBounds, ChunkSize
<1> HIDE DEF a, c
<1>2. a \div c \in Nat /\ a % c \in 0..(c - 1) /\ a = (a \div c) * c + (a % c)
    <2>1. a \in Int /\ c \in Nat \ {0}
        BY <1>1
    <2>2. a % c \in 0..(c - 1) /\ a = (a \div c) * c + (a % c)
        BY <2>1, Division
    <2>3. a \div c \in Nat
        BY <1>1, NaturalQuotient
    <2> QED
        BY <2>2, <2>3
<1>3. (a \div c) * c \in Nat
    BY <1>1, <1>2
<1> QED
    BY <1>1, <1>2, <1>3 DEF a, c

\* The chunks n bytes give when the last may be short.
LEMMA AllChunks ==
    ASSUME NEW n \in Nat
    PROVE  LET k == (n + ChunkBytes - 1) \div ChunkBytes
           IN  /\ k \in Nat /\ n <= k * ChunkBytes
               /\ k # 0 => (k - 1) * ChunkBytes <= n
<1> DEFINE c == ChunkBytes
           k == (n + c - 1) \div c
<1>1. c \in Nat \ {0}
    BY ChunkSize
<1> HIDE DEF c
<1>2. n + c - 1 \in Nat
    BY <1>1
<1>3. k \in Nat /\ (n + c - 1) % c \in 0..(c - 1) /\ n + c - 1 = k * c + ((n + c - 1) % c)
    <2> DEFINE m == n + c - 1
    <2>1. m \in Nat /\ m \in Int /\ c \in Nat \ {0}
        BY <1>1, <1>2
    <2> HIDE DEF m
    <2>2. m % c \in 0..(c - 1) /\ m = (m \div c) * c + (m % c)
        BY <2>1, Division
    <2>3. m \div c \in Nat
        BY <2>1, NaturalQuotient
    <2> QED
        BY <2>2, <2>3 DEF m
<1> HIDE DEF k
<1>4. k * c \in Nat /\ (k - 1) * c = k * c - c
    BY <1>1, <1>3
<1>5. n <= k * c /\ k * c - c <= n
    BY <1>1, <1>3, <1>4
<1> QED
    BY <1>3, <1>4, <1>5 DEF c, k

-----------------------------------------------------------------------------
(* Cutting audio into chunks.                                              *)

\* One more element of a beginning.
LEMMA Beginning ==
    ASSUME NEW S, NEW s \in Seq(S), NEW k \in Nat
    PROVE  /\ k <= Len(s) => /\ SubSeq(s, 1, k) \in Seq(S) /\ Len(SubSeq(s, 1, k)) = k
                             /\ \A i \in 1..k : SubSeq(s, 1, k)[i] = s[i]
           /\ k < Len(s) => SubSeq(s, 1, k + 1) = Append(SubSeq(s, 1, k), s[k + 1])
<1>1. Len(s) \in Nat /\ \A i \in 1..Len(s) : s[i] \in S
    BY LenProperties, ElementOfSeq
<1>2. ASSUME k <= Len(s)
      PROVE  /\ SubSeq(s, 1, k) \in Seq(S) /\ Len(SubSeq(s, 1, k)) = k
             /\ \A i \in 1..k : SubSeq(s, 1, k)[i] = s[i]
    <2>1. \A i \in 1..k : s[i] \in S
        BY <1>1, <1>2
    <2>2. /\ SubSeq(s, 1, k) \in Seq(S)
          /\ Len(SubSeq(s, 1, k)) = IF 1 <= k THEN k - 1 + 1 ELSE 0
          /\ \A i \in 1..(k - 1 + 1) : SubSeq(s, 1, k)[i] = s[1 + i - 1]
        BY <2>1, SubSeqProperties
    <2> QED
        BY <2>2
<1>3. ASSUME k < Len(s) PROVE SubSeq(s, 1, k + 1) = Append(SubSeq(s, 1, k), s[k + 1])
    <2>1. 1 \in 1..Len(s) /\ k + 1 \in 1..Len(s) /\ (k + 1) - 1 = k /\ s[k + 1] \in S
        BY <1>1, <1>3
    <2>2. SubSeq(s, 1, k + 1) = SubSeq(s, 1, k) \o <<s[k + 1]>>
        BY <2>1, SubSeqRecursiveSecond
    <2>3. SubSeq(s, 1, k) \in Seq(S)
        BY <1>1, <1>2, <1>3
    <2> QED
        BY <2>1, <2>2, <2>3, AppendIsConcat
<1> QED
    BY <1>2, <1>3

\* The audio of consecutive chunks is what they were cut from.
LEMMA PiecesJoin ==
    ASSUME NEW bytes \in Bytes, NEW s \in Seq(Event),
           \A k \in 1..Len(s) : s[k].audio = Piece(bytes, k),
           Len(s) # 0 => (Len(s) - 1) * ChunkBytes <= Len(bytes)
    PROVE  AudioOf(s) = SubSeq(bytes, 1, Atmost(Len(s) * ChunkBytes, Len(bytes)))
<1> DEFINE c == ChunkBytes
           n == Len(s)
           whole == Len(bytes)
           Good == {k \in Nat : k <= n =>
                       AudioOf(SubSeq(s, 1, k)) = SubSeq(bytes, 1, Atmost(k * c, whole))}
<1>1. c \in Nat /\ n \in Nat /\ whole \in Nat
    BY ChunkSize, LenProperties DEF Bytes
<1>2. 0 \in Good
    <2>1. SubSeq(s, 1, 0) = <<>> /\ SubSeq(bytes, 1, 0) = <<>>
        BY SubSeqEmpty
    <2>2. Atmost(0 * c, whole) = 0
        BY <1>1 DEF Atmost
    <2> HIDE DEF c, whole
    <2> QED
        BY <2>1, <2>2, AudioEmpty
<1>3. ASSUME NEW k \in Nat, k \in Good PROVE k + 1 \in Good
    <2> SUFFICES ASSUME k + 1 <= n
                 PROVE  AudioOf(SubSeq(s, 1, k + 1)) = SubSeq(bytes, 1, Atmost((k + 1) * c, whole))
        OBVIOUS
    <2>1. k <= n /\ k < n /\ k + 1 \in 1..n
        BY <1>1
    <2>2. AudioOf(SubSeq(s, 1, k)) = SubSeq(bytes, 1, Atmost(k * c, whole))
        BY <1>3, <2>1
    <2>3. k * c <= whole /\ k * c \in Nat
        <3>1. k <= n - 1 /\ n - 1 \in Nat /\ n # 0 /\ c \in Nat
            BY <1>1
        <3>2. (n - 1) * c <= whole
            BY <3>1
        <3> HIDE DEF n, c, whole
        <3>3. k * c <= (n - 1) * c /\ k * c \in Nat /\ (n - 1) * c \in Nat
            BY <3>1, ProductMonotone
        <3> QED
            BY <3>2, <3>3, <1>1
    <2> DEFINE next == Atmost((k + 1) * c, whole)
    <2>4. next \in (k * c)..whole /\ (k + 1) * c \in Nat
        <3> HIDE DEF n, c, whole
        <3>1. (k + 1) * c = k * c + c
            BY <1>1
        <3> QED
            BY <2>3, <3>1, <1>1 DEF Atmost
    <2>5. s[k + 1] \in Event /\ s[k + 1].audio = SubSeq(bytes, k * c + 1, next)
        <3>1. s[k + 1] \in Event
            BY <2>1, ElementOfSeq
        <3>2. (k + 1) - 1 = k
            OBVIOUS
        <3> QED
            BY <2>1, <3>1, <3>2 DEF Piece
    <2>6. /\ SubSeq(s, 1, k) \in Seq(Event)
          /\ SubSeq(s, 1, k + 1) = Append(SubSeq(s, 1, k), s[k + 1])
        BY <2>1, Beginning
    <2>7. AudioOf(SubSeq(s, 1, k + 1)) = AudioOf(SubSeq(s, 1, k)) \o SubSeq(bytes, k * c + 1, next)
        BY <2>5, <2>6, AudioAppend
    <2>8. Atmost(k * c, whole) = k * c
        BY <2>3, <1>1 DEF Atmost
    <2>9. SubSeq(bytes, 1, k * c) \o SubSeq(bytes, k * c + 1, next) = SubSeq(bytes, 1, next)
        <3>1. 1 \in 1..(Len(bytes) + 1) /\ k * c \in (1 - 1)..Len(bytes) /\ next \in (k * c)..Len(bytes)
            BY <2>3, <2>4, <1>1
        <3> HIDE DEF next, c
        <3> QED
            BY <3>1, ConcatAdjacentSubSeq DEF Bytes
    <2> QED
        BY <2>2, <2>7, <2>8, <2>9
<1>4. n \in Good
    <2> HIDE DEF Good
    <2> QED
        BY <1>1, <1>2, <1>3, SetInduction
<1>5. SubSeq(s, 1, n) = s
    BY SubSeqFull
<1>6. AudioOf(SubSeq(s, 1, n)) = SubSeq(bytes, 1, Atmost(n * c, whole))
    BY <1>1, <1>4
<1> QED
    BY <1>5, <1>6

LEMMA ChunkEventType ==
    ASSUME NEW b \in Bytes, NEW t \in Int
    PROVE  /\ ChunkEvent(b, t) \in Event
           /\ ChunkEvent(b, t).kind = "chunk" /\ ChunkEvent(b, t).audio = b /\ ChunkEvent(b, t).at = t
BY DEF ChunkEvent, Event

LEMMA SilentEvents ==
    /\ StartEvent \in Event /\ StartEvent.kind = "start" /\ StartEvent.audio = <<>>
    /\ ErrorEvent \in Event /\ ErrorEvent.kind = "error" /\ ErrorEvent.audio = <<>>
    /\ \A t \in Int : /\ StopEvent(t) \in Event /\ StopEvent(t).kind = "stop"
                      /\ StopEvent(t).audio = <<>> /\ StopEvent(t).at = t
<1>1. <<>> \in Bytes
    BY EmptySeq DEF Bytes
<1> QED
    BY <1>1 DEF StartEvent, ErrorEvent, StopEvent, Event, Empty

\* What follows the start of a phrase.
Body(s) ==
    \A i \in 1..Len(s) :
        \/ s[i].kind = "chunk" /\ Complete(s[i].audio)
        \/ s[i].kind = "stop" /\ s[i].audio = <<>>

LEMMA PieceType ==
    ASSUME NEW bytes \in Bytes, NEW k \in Nat \ {0}
    PROVE  /\ Piece(bytes, k) \in Bytes
           /\ k * ChunkBytes <= Len(bytes) => Complete(Piece(bytes, k))
<1> DEFINE c == ChunkBytes
           lo == (k - 1) * c
           hi == Atmost(k * c, Len(bytes))
<1>1. c \in Nat \ {0} /\ Len(bytes) \in Nat
    BY ChunkSize, LenProperties DEF Bytes
<1>2. lo \in Nat /\ k * c \in Nat /\ k * c = lo + c
    <2> HIDE DEF c
    <2> QED
        BY <1>1
<1>3. hi \in 0..Len(bytes)
    <2> HIDE DEF c
    <2> QED
        BY <1>1, <1>2 DEF Atmost
<1>4. Piece(bytes, k) = SubSeq(bytes, lo + 1, hi)
    BY DEF Piece
<1> HIDE DEF c, lo, hi
<1>5. \A i \in (lo + 1)..hi : bytes[i] \in Nat
    BY <1>2, <1>3, ElementOfSeq DEF Bytes
<1>6. /\ SubSeq(bytes, lo + 1, hi) \in Seq(Nat)
      /\ Len(SubSeq(bytes, lo + 1, hi)) = IF lo + 1 <= hi THEN hi - (lo + 1) + 1 ELSE 0
    BY <1>2, <1>3, <1>5, SubSeqProperties
<1>7. ASSUME k * c <= Len(bytes) PROVE Complete(Piece(bytes, k))
    <2>1. hi = k * c
        BY <1>1, <1>2, <1>7 DEF hi, Atmost
    <2>2. Len(SubSeq(bytes, lo + 1, hi)) = c
        BY <1>1, <1>2, <1>6, <2>1
    <2>3. c = ChunkFrames * FrameSize
        BY ChunkSize DEF c
    <2>4. c % FrameSize = 0
        BY <2>3, ChunkSize, Positive, Multiple
    <2> QED
        BY <1>4, <2>2, <2>4 DEF Complete
<1> QED
    BY <1>4, <1>6, <1>7 DEF Bytes, c

\* The re-chunker loses nothing and gives chunks of whole frames.
LEMMA RechunkKeeps ==
    ASSUME NEW old \in Bytes, NEW data \in Bytes, NEW n \in Nat
    PROVE  LET r == Rechunk(old, n, data)
           IN  /\ r.out \in Seq(Event) /\ Body(r.out)
               /\ r.carry \in Bytes /\ r.frames \in Nat
               /\ AudioOf(r.out) \o r.carry = old \o data
               /\ old \o data = <<>> => r.out = <<>> /\ r.carry = <<>>
<1> DEFINE bytes == old \o data
           whole == Aligned(Len(bytes)) \div ChunkBytes
           At(k) == Milliseconds(n + (k - 1) * ChunkFrames)
           out == [k \in 1..whole |-> ChunkEvent(Piece(bytes, k), At(k))]
           cut == whole * ChunkBytes
           rest == SubSeq(bytes, cut + 1, Len(bytes))
           r == Rechunk(old, n, data)
<1>1. r.out = out /\ r.carry = rest /\ r.frames = n + whole * ChunkFrames
    BY DEF Rechunk
<1>2. bytes \in Bytes /\ Len(bytes) \in Nat
    BY ConcatProperties, LenProperties DEF Bytes
<1> HIDE DEF bytes
<1>3. whole \in Nat /\ cut \in 0..Len(bytes)
    BY <1>2, FullChunks
<1> HIDE DEF whole
<1>4. n + whole * ChunkFrames \in Nat
    BY <1>3, ChunkSize
<1>5. \A k \in 1..whole : /\ ChunkEvent(Piece(bytes, k), At(k)) \in Event
                          /\ ChunkEvent(Piece(bytes, k), At(k)).kind = "chunk"
                          /\ ChunkEvent(Piece(bytes, k), At(k)).audio = Piece(bytes, k)
                          /\ Complete(Piece(bytes, k))
    <2> TAKE k \in 1..whole
    <2>1. k \in Nat \ {0} /\ k <= whole /\ k - 1 \in Nat
        BY <1>3
    <2>2. At(k) \in Int
        <3>1. n + (k - 1) * ChunkFrames \in Int
            BY <2>1, ChunkSize
        <3> QED
            BY <3>1, MillisecondsType
    <2>3. k * ChunkBytes <= Len(bytes)
        <3>1. k * ChunkBytes <= whole * ChunkBytes /\ k * ChunkBytes \in Nat
            BY <2>1, <1>3, ChunkSize, ProductMonotone
        <3> HIDE DEF At
        <3> QED
            BY <3>1, <1>2, <1>3
    <2> HIDE DEF At
    <2> QED
        BY <2>1, <2>2, <2>3, <1>2, PieceType, ChunkEventType
<1> HIDE DEF At
<1>6. out \in Seq(Event) /\ Len(out) = whole
    <2>1. out \in [1..whole -> Event]
        BY <1>5
    <2> HIDE DEF out
    <2> QED
        BY <2>1, <1>3, Listed
<1>7. Body(out)
    BY <1>5, <1>6 DEF Body
<1>8. AudioOf(out) = SubSeq(bytes, 1, cut)
    <2>1. \A k \in 1..Len(out) : out[k].audio = Piece(bytes, k)
        BY <1>5, <1>6
    <2>2. Len(out) # 0 => (Len(out) - 1) * ChunkBytes <= Len(bytes)
        <3> SUFFICES ASSUME whole # 0 PROVE (whole - 1) * ChunkBytes <= Len(bytes)
            BY <1>6
        <3>1. whole - 1 \in Nat /\ whole - 1 <= whole
            BY <1>3
        <3>2. (whole - 1) * ChunkBytes <= cut /\ (whole - 1) * ChunkBytes \in Nat
            BY <3>1, <1>3, ChunkSize, ProductMonotone
        <3> QED
            BY <3>2, <1>2, <1>3
    <2>3. Atmost(cut, Len(bytes)) = cut
        BY <1>2, <1>3 DEF Atmost
    <2> HIDE DEF out, cut
    <2>4. AudioOf(out) = SubSeq(bytes, 1, Atmost(Len(out) * ChunkBytes, Len(bytes)))
        BY <2>1, <2>2, <1>2, <1>6, PiecesJoin
    <2> QED
        BY <2>3, <2>4, <1>6 DEF cut
<1> HIDE DEF cut, out
<1>9. rest \in Bytes
    <2>1. \A i \in (cut + 1)..Len(bytes) : bytes[i] \in Nat
        BY <1>2, <1>3, ElementOfSeq DEF Bytes
    <2> QED
        BY <1>2, <1>3, <2>1, SubSeqProperties DEF Bytes
<1>10. SubSeq(bytes, 1, cut) \o rest = bytes
    <2>1. /\ 1 \in 1..(Len(bytes) + 1) /\ cut \in (1 - 1)..Len(bytes)
          /\ Len(bytes) \in cut..Len(bytes)
        BY <1>2, <1>3
    <2>2. SubSeq(bytes, 1, cut) \o rest = SubSeq(bytes, 1, Len(bytes))
        BY <1>2, <2>1, ConcatAdjacentSubSeq DEF Bytes
    <2> QED
        BY <2>2, <1>2, SubSeqFull DEF Bytes
<1>11. ASSUME bytes = <<>> PROVE out = <<>> /\ rest = <<>>
    <2>1. Len(bytes) = 0
        BY <1>11
    <2>2. AudioOf(out) \o rest = <<>>
        BY <1>8, <1>10, <1>11
    <2>3. AudioOf(out) = <<>> /\ rest = <<>>
        BY <2>2, <1>6, <1>9, AudioType, ConcatEqualIffEmpty DEF Bytes
    <2>4. whole = 0
        <3>1. whole * ChunkBytes = 0
            BY <2>1, <1>3 DEF cut
        <3> QED
            BY <3>1, <1>3, ChunkSize
    <2>5. out = <<>>
        BY <2>4, <1>6, EmptySeq
    <2> QED
        BY <2>3, <2>5
<1> HIDE DEF r, rest
<1>12. AudioOf(out) \o rest = bytes
    BY <1>8, <1>10
<1> QED
    BY <1>1, <1>4, <1>6, <1>7, <1>9, <1>11, <1>12 DEF r, bytes

-----------------------------------------------------------------------------
(* The events of a phrase.                                                 *)

\* A phrase that has events starts, once and first.
Phrase(s) ==
    /\ s \in Seq(Event)
    /\ s # <<>> => s[1] = StartEvent
    /\ \A i \in 2..Len(s) :
          \/ s[i].kind = "chunk" /\ Complete(s[i].audio)
          \/ s[i].kind = "stop" /\ s[i].audio = <<>>

LEMMA PhraseStarts == Phrase(<<StartEvent>>) /\ Phrase(<<>>) /\ <<StartEvent>> # <<>>
<1>1. <<StartEvent>> \in Seq(Event) /\ Len(<<StartEvent>>) = 1 /\ <<StartEvent>>[1] = StartEvent
    BY SilentEvents
<1>2. <<>> \in Seq(Event) /\ Len(<<>>) = 0
    BY EmptySeq
<1> DEFINE s == <<StartEvent>>
<1>3. s \in Seq(Event) /\ Len(s) = 1 /\ s[1] = StartEvent
    BY <1>1
<1> HIDE DEF s
<1>4. s # <<>>
    BY DEF s
<1>6. \A i \in 2..Len(s) : FALSE
    BY <1>3
<1>7. Phrase(s)
    BY <1>3, <1>6 DEF Phrase
<1>5. Phrase(<<>>)
    BY <1>2 DEF Phrase
<1> QED
    BY <1>4, <1>5, <1>7 DEF s

LEMMA PhraseGoesOn ==
    ASSUME NEW s, NEW t \in Seq(Event), Phrase(s), Body(t), s # <<>>
    PROVE  Phrase(s \o t) /\ s \o t # <<>>
<1>1. s \in Seq(Event) /\ Len(s) \in Nat \ {0} /\ Len(t) \in Nat /\ s[1] = StartEvent
    BY EmptySeq, LenProperties DEF Phrase
<1>2. /\ s \o t \in Seq(Event) /\ Len(s \o t) = Len(s) + Len(t)
      /\ \A i \in 1..(Len(s) + Len(t)) : (s \o t)[i] = IF i <= Len(s) THEN s[i] ELSE t[i - Len(s)]
    BY <1>1, ConcatProperties
<1>3. (s \o t)[1] = StartEvent
    BY <1>1, <1>2
<1>4. s \o t # <<>>
    BY <1>1, <1>2, EmptySeq
<1>5. ASSUME NEW i \in 2..Len(s \o t)
      PROVE  \/ (s \o t)[i].kind = "chunk" /\ Complete((s \o t)[i].audio)
             \/ (s \o t)[i].kind = "stop" /\ (s \o t)[i].audio = <<>>
    <2>1. CASE i <= Len(s)
        <3>1. i \in 2..Len(s) /\ (s \o t)[i] = s[i]
            BY <2>1, <1>1, <1>2
        <3> QED
            BY <3>1 DEF Phrase
    <2>2. CASE ~(i <= Len(s))
        <3>1. i - Len(s) \in 1..Len(t) /\ (s \o t)[i] = t[i - Len(s)]
            BY <2>2, <1>1, <1>2
        <3> QED
            BY <3>1 DEF Body
    <2> QED
        BY <2>1, <2>2
<1> QED
    BY <1>2, <1>3, <1>4, <1>5 DEF Phrase

LEMMA CompleteSum ==
    ASSUME NEW b \in Bytes, NEW d \in Bytes, Complete(b), Complete(d)
    PROVE  Complete(b \o d)
<1> DEFINE m == Len(b)
           n == Len(d)
           j == m \div FrameSize
           k == n \div FrameSize
<1>1. m \in Nat /\ n \in Nat /\ FrameSize \in Nat \ {0} /\ m % FrameSize = 0 /\ n % FrameSize = 0
    BY LenProperties, Positive DEF Bytes, Complete
<1>2. Len(b \o d) = m + n
    BY ConcatProperties DEF Bytes
<1> HIDE DEF m, n
<1>3. m = j * FrameSize /\ n = k * FrameSize /\ j \in Nat /\ k \in Nat
    BY <1>1, NaturalQuotient
<1> HIDE DEF j, k
<1>4. m + n = (j + k) * FrameSize /\ j + k \in Nat
    BY <1>1, <1>3
<1>5. ((j + k) * FrameSize) % FrameSize = 0
    BY <1>1, <1>4, Multiple
<1> QED
    BY <1>2, <1>4, <1>5 DEF Complete

LEMMA CompleteEmpty == Complete(<<>>)
<1>1. Len(<<>>) = 0
    BY EmptySeq
<1>2. 0 % FrameSize = 0
    BY Positive
<1> QED
    BY <1>1, <1>2 DEF Complete

\* Frames add up.
LEMMA FramesAdd ==
    ASSUME NEW n \in Nat, NEW b \in Bytes, NEW d \in Bytes, Len(b) = n * FrameSize
    PROVE  Len(b \o d) \div FrameSize = n + (Len(d) \div FrameSize)
<1> DEFINE m == Len(d)
           k == m \div FrameSize
           r == m % FrameSize
<1>1. m \in Nat /\ FrameSize \in Nat \ {0}
    BY LenProperties, Positive DEF Bytes
<1>2. Len(b \o d) = n * FrameSize + m
    BY ConcatProperties DEF Bytes
<1> HIDE DEF m
<1>3. k \in Int /\ r \in 0..(FrameSize - 1) /\ m = k * FrameSize + r
    BY <1>1, Division
<1> HIDE DEF k, r
<1>4. n * FrameSize + m = (n + k) * FrameSize + r /\ n + k \in Int
    BY <1>1, <1>3
<1>5. ((n + k) * FrameSize + r) \div FrameSize = n + k
    BY <1>1, <1>3, <1>4, Quotient
<1> QED
    BY <1>2, <1>4, <1>5 DEF k, m

\* Every event of a phrase has whole frames, so its beginnings have.
LEMMA PhraseComplete ==
    ASSUME NEW s, Phrase(s)
    PROVE  \A k \in 0..Len(s) : Complete(AudioOf(SubSeq(s, 1, k)))
<1>1. s \in Seq(Event) /\ Len(s) \in Nat
    BY LenProperties DEF Phrase
<1> DEFINE Good == {k \in Nat : k <= Len(s) => Complete(AudioOf(SubSeq(s, 1, k)))}
<1>2. 0 \in Good
    <2>1. SubSeq(s, 1, 0) = <<>>
        BY SubSeqEmpty
    <2> QED
        BY <2>1, AudioEmpty, CompleteEmpty
<1>3. ASSUME NEW k \in Nat, k \in Good PROVE k + 1 \in Good
    <2> SUFFICES ASSUME k + 1 <= Len(s) PROVE Complete(AudioOf(SubSeq(s, 1, k + 1)))
        OBVIOUS
    <2>1. k < Len(s) /\ k <= Len(s) /\ k + 1 \in 1..Len(s) /\ s # <<>>
        BY <1>1
    <2>2. SubSeq(s, 1, k + 1) = Append(SubSeq(s, 1, k), s[k + 1]) /\ SubSeq(s, 1, k) \in Seq(Event)
        BY <1>1, <2>1, Beginning
    <2>3. s[k + 1] \in Event /\ s[k + 1].audio \in Bytes
        <3>1. s[k + 1] \in Event
            BY <1>1, <2>1, ElementOfSeq
        <3> QED
            BY <3>1 DEF Event
    <2>4. Complete(s[k + 1].audio)
        <3>1. CASE k = 0
            BY <3>1, <2>1, SilentEvents, CompleteEmpty DEF Phrase
        <3>2. CASE k # 0
            <4>1. k + 1 \in 2..Len(s)
                BY <3>2, <1>1, <2>1
            <4> QED
                BY <4>1, CompleteEmpty DEF Phrase
        <3> QED
            BY <3>1, <3>2
    <2>5. AudioOf(SubSeq(s, 1, k + 1)) = AudioOf(SubSeq(s, 1, k)) \o s[k + 1].audio
        BY <2>2, <2>3, AudioAppend
    <2>6. AudioOf(SubSeq(s, 1, k)) \in Bytes /\ Complete(AudioOf(SubSeq(s, 1, k)))
        BY <1>3, <2>1, <2>2, AudioType
    <2> QED
        BY <2>3, <2>4, <2>5, <2>6, CompleteSum
<1>4. Nat \subseteq Good
    <2> HIDE DEF Good
    <2> QED
        BY <1>2, <1>3, SetInduction
<1> QED
    BY <1>1, <1>4

\* The last piece, when it is shorter than a chunk.
LEMMA ShortPiece ==
    ASSUME NEW bytes \in Bytes, Complete(bytes), NEW k \in Nat \ {0},
           (k - 1) * ChunkBytes <= Len(bytes), ~(k * ChunkBytes <= Len(bytes))
    PROVE  Complete(Piece(bytes, k))
<1> DEFINE whole == Len(bytes)
           lo == (k - 1) * ChunkBytes
           j == (k - 1) * ChunkFrames
           m == whole \div FrameSize
<1>1. whole \in Nat /\ ChunkBytes \in Nat /\ ChunkFrames \in Nat /\ FrameSize \in Nat \ {0}
    BY LenProperties, ChunkSize, Positive DEF Bytes
<1>2. lo \in Nat /\ j \in Nat /\ lo = j * FrameSize
    BY <1>1, ChunkSize
<1>3. Atmost(k * ChunkBytes, whole) = whole
    BY <1>1 DEF Atmost
<1>4. Piece(bytes, k) = SubSeq(bytes, lo + 1, whole)
    BY <1>3 DEF Piece
<1>5. whole = m * FrameSize /\ m \in Nat
    BY <1>1, NaturalQuotient DEF Complete
<1>6. lo <= whole
    OBVIOUS
<1> HIDE DEF lo, j, m
<1>7. Len(SubSeq(bytes, lo + 1, whole)) = whole - lo
    <2>1. \A i \in (lo + 1)..whole : bytes[i] \in Nat
        BY <1>1, <1>2, ElementOfSeq DEF Bytes
    <2> HIDE DEF whole
    <2>2. Len(SubSeq(bytes, lo + 1, whole)) = IF lo + 1 <= whole THEN whole - (lo + 1) + 1 ELSE 0
        BY <1>1, <1>2, <2>1, SubSeqProperties
    <2> QED
        BY <1>1, <1>2, <1>6, <2>2
<1> HIDE DEF whole
<1>8. whole - lo = (m - j) * FrameSize
    BY <1>1, <1>2, <1>5
<1>9. m - j \in Nat
    BY <1>1, <1>2, <1>5, <1>6, <1>8
<1>10. ((m - j) * FrameSize) % FrameSize = 0
    BY <1>1, <1>9, Multiple
<1> QED
    BY <1>4, <1>7, <1>8, <1>10 DEF Complete

\* chunk_pcm_s16le and _pcm_to_audio_events: the whole of a buffered answer.
LEMMA ChunkedKeeps ==
    ASSUME NEW bytes \in Bytes, Complete(bytes)
    PROVE  /\ Phrase(Chunked(bytes)) /\ Chunked(bytes) # <<>>
           /\ AudioOf(Chunked(bytes)) = bytes
<1> DEFINE n == (Len(bytes) + ChunkBytes - 1) \div ChunkBytes
           At(k) == (k - 1) * ChunkMs
           cuts == [k \in 1..n |-> ChunkEvent(Piece(bytes, k), At(k))]
           stop == <<StopEvent(n * ChunkMs)>>
           start == <<StartEvent>>
<1>1. Chunked(bytes) = (start \o cuts) \o stop
    BY DEF Chunked
<1>2. Len(bytes) \in Nat
    BY LenProperties DEF Bytes
<1>3. n \in Nat /\ Len(bytes) <= n * ChunkBytes /\ (n # 0 => (n - 1) * ChunkBytes <= Len(bytes))
    BY <1>2, AllChunks
<1> HIDE DEF n
<1>4. \A k \in 1..n : /\ ChunkEvent(Piece(bytes, k), At(k)) \in Event
                      /\ ChunkEvent(Piece(bytes, k), At(k)).kind = "chunk"
                      /\ ChunkEvent(Piece(bytes, k), At(k)).audio = Piece(bytes, k)
    <2> TAKE k \in 1..n
    <2>1. k \in Nat \ {0}
        BY <1>3
    <2>2. At(k) \in Int
        BY <2>1, Positive
    <2> HIDE DEF At
    <2> QED
        BY <2>1, <2>2, PieceType, ChunkEventType
<1> HIDE DEF At
<1>5. cuts \in Seq(Event) /\ Len(cuts) = n
    <2>1. cuts \in [1..n -> Event]
        BY <1>4
    <2> HIDE DEF cuts
    <2> QED
        BY <2>1, <1>3, Listed
<1>6. \A k \in 1..n : cuts[k].kind = "chunk" /\ cuts[k].audio = Piece(bytes, k)
    BY <1>4
<1> HIDE DEF cuts
<1>7. AudioOf(cuts) = bytes
    <2>1. AudioOf(cuts) = SubSeq(bytes, 1, Atmost(n * ChunkBytes, Len(bytes)))
        BY <1>3, <1>5, <1>6, PiecesJoin
    <2>2. Atmost(n * ChunkBytes, Len(bytes)) = Len(bytes)
        <3>1. n * ChunkBytes \in Nat
            BY <1>3, ChunkSize
        <3> QED
            BY <3>1, <1>2, <1>3 DEF Atmost
    <2> QED
        BY <2>1, <2>2, SubSeqFull DEF Bytes
<1>8. Body(cuts)
    <2> SUFFICES ASSUME NEW k \in 1..n PROVE Complete(Piece(bytes, k))
        BY <1>5, <1>6 DEF Body
    <2>1. k \in Nat \ {0}
        BY <1>3
    <2>2. CASE k * ChunkBytes <= Len(bytes)
        BY <2>1, <2>2, PieceType
    <2>3. CASE ~(k * ChunkBytes <= Len(bytes))
        <3>1. (k - 1) * ChunkBytes <= Len(bytes)
            <4>1. k - 1 <= n - 1 /\ k - 1 \in Nat /\ n - 1 \in Nat /\ n # 0
                BY <1>3
            <4>2. (k - 1) * ChunkBytes <= (n - 1) * ChunkBytes
                BY <4>1, ChunkSize, ProductMonotone
            <4>3. (k - 1) * ChunkBytes \in Nat /\ (n - 1) * ChunkBytes \in Nat
                BY <4>1, ChunkSize
            <4> QED
                BY <4>1, <4>2, <4>3, <1>2, <1>3
        <3> QED
            BY <2>1, <2>3, <3>1, ShortPiece
    <2> QED
        BY <2>2, <2>3
<1>9. stop \in Seq(Event) /\ Body(stop) /\ AudioOf(stop) = <<>>
    <2> DEFINE e == StopEvent(n * ChunkMs)
    <2>1. e \in Event /\ e.kind = "stop" /\ e.audio = <<>>
        <3>1. n * ChunkMs \in Int
            BY <1>3, Positive
        <3> QED
            BY <3>1, SilentEvents
    <2> HIDE DEF e
    <2>2. <<e>> \in Seq(Event) /\ Len(<<e>>) = 1 /\ <<e>>[1] = e
        BY <2>1
    <2>3. Body(<<e>>)
        BY <2>1, <2>2 DEF Body
    <2> QED
        BY <2>1, <2>2, <2>3, AudioOne DEF e
<1>10. start \in Seq(Event) /\ Phrase(start) /\ start # <<>> /\ AudioOf(start) = <<>>
    BY PhraseStarts, SilentEvents, AudioOne DEF Phrase
<1> HIDE DEF start, stop
<1>11. Phrase(start \o cuts) /\ start \o cuts # <<>>
    BY <1>5, <1>8, <1>10, PhraseGoesOn
<1>12. Phrase((start \o cuts) \o stop) /\ (start \o cuts) \o stop # <<>>
    BY <1>9, <1>11, PhraseGoesOn
<1>13. AudioOf((start \o cuts) \o stop) = bytes
    <2>1. start \o cuts \in Seq(Event)
        BY <1>11 DEF Phrase
    <2>2. AudioOf(start \o cuts) = <<>> \o bytes
        BY <1>5, <1>7, <1>10, AudioConcat
    <2>3. <<>> \o bytes = bytes /\ bytes \o <<>> = bytes
        BY ConcatEmptySeq DEF Bytes
    <2> QED
        BY <2>1, <2>2, <2>3, <1>9, AudioConcat
<1> QED
    BY <1>1, <1>12, <1>13

-----------------------------------------------------------------------------
(* The envelope.                                                           *)

\* What an open response looks like: a start once it has begun, then chunks
\* of whole frames, each stamped with the time of the frames before it.
Timed(c, started) ==
    /\ c \in Seq(Event)
    /\ c = <<>> <=> ~started
    /\ \A i \in 1..Len(c) :
          /\ c[i].kind \in {"start", "chunk"}
          /\ c[i].kind = "start" <=> i = 1
          /\ c[i].kind = "chunk" =>
                Complete(c[i].audio) /\ c[i].at = Milliseconds(FramesIn(SubSeq(c, 1, i - 1)))

LEMMA FramesType ==
    ASSUME NEW s \in Seq(Event)
    PROVE  FramesIn(s) \in Nat
<1>1. Len(AudioOf(s)) \in Nat
    BY AudioType, LenProperties DEF Bytes
<1> QED
    BY <1>1, Positive, NaturalQuotient DEF FramesIn

LEMMA TimedBegins == Timed(<<>>, FALSE) /\ Timed(<<StartEvent>>, TRUE)
<1> DEFINE s == <<StartEvent>>
<1>1. s \in Seq(Event) /\ Len(s) = 1 /\ s[1] = StartEvent /\ s # <<>>
    BY SilentEvents
<1>2. <<>> \in Seq(Event) /\ Len(<<>>) = 0
    BY EmptySeq
<1> HIDE DEF s
<1>3. Timed(s, TRUE)
    <2>1. \A i \in 1..Len(s) : i = 1 /\ s[i].kind = "start"
        BY <1>1, SilentEvents
    <2> QED
        BY <1>1, <2>1 DEF Timed
<1>4. Timed(<<>>, FALSE)
    <2>1. \A i \in 1..Len(<<>>) : FALSE
        BY <1>2
    <2> QED
        BY <1>2, <2>1 DEF Timed
<1> QED
    BY <1>3, <1>4 DEF s

LEMMA TimedGrows ==
    ASSUME NEW c, NEW e \in Event, Timed(c, TRUE), e.kind = "chunk", Complete(e.audio),
           e.at = Milliseconds(FramesIn(c))
    PROVE  Timed(Append(c, e), TRUE)
<1> DEFINE d == Append(c, e)
<1>1. c \in Seq(Event) /\ c # <<>> /\ Len(c) \in Nat \ {0}
    BY EmptySeq DEF Timed
<1>2. /\ d \in Seq(Event) /\ d # <<>> /\ Len(d) = Len(c) + 1
      /\ \A i \in 1..Len(c) : d[i] = c[i]
      /\ d[Len(c) + 1] = e
    BY <1>1, AppendProperties
<1>3. \A i \in 1..(Len(c) + 1) : SubSeq(d, 1, i - 1) = SubSeq(c, 1, i - 1)
    <2> TAKE i \in 1..(Len(c) + 1)
    <2>1. i - 1 \in Nat /\ i - 1 <= Len(c) /\ i - 1 <= Len(d)
        BY <1>1, <1>2
    <2> DEFINE k == i - 1
               u == SubSeq(d, 1, k)
               v == SubSeq(c, 1, k)
    <2>2. k \in Nat /\ k <= Len(c) /\ k <= Len(d)
        BY <2>1
    <2> HIDE DEF k, d
    <2>3. u \in Seq(Event) /\ Len(u) = k /\ \A j \in 1..k : u[j] = d[j]
        BY <2>2, <1>2, Beginning
    <2>4. v \in Seq(Event) /\ Len(v) = k /\ \A j \in 1..k : v[j] = c[j]
        BY <2>2, <1>1, Beginning
    <2>5. \A j \in 1..k : d[j] = c[j]
        BY <2>2, <1>1, <1>2
    <2> HIDE DEF u, v
    <2>6. u = v
        BY <2>3, <2>4, <2>5, SameSequence
    <2> QED
        BY <2>6 DEF u, v, k
<1>4. SubSeq(c, 1, Len(c)) = c
    BY <1>1, SubSeqFull
<1> HIDE DEF d
<1>5. ASSUME NEW i \in 1..(Len(c) + 1)
      PROVE  /\ d[i].kind \in {"start", "chunk"}
             /\ d[i].kind = "start" <=> i = 1
             /\ d[i].kind = "chunk" =>
                   Complete(d[i].audio) /\ d[i].at = Milliseconds(FramesIn(SubSeq(d, 1, i - 1)))
    <2>1. CASE i = Len(c) + 1
        <3>1. d[i] = e /\ i # 1 /\ i - 1 = Len(c)
            BY <2>1, <1>1, <1>2
        <3>2. SubSeq(d, 1, i - 1) = c
            BY <3>1, <1>3, <1>4
        <3> QED
            BY <3>1, <3>2
    <2>2. CASE i # Len(c) + 1
        <3>1. i \in 1..Len(c) /\ d[i] = c[i]
            BY <2>2, <1>1, <1>2
        <3>2. SubSeq(d, 1, i - 1) = SubSeq(c, 1, i - 1)
            BY <1>3
        <3> QED
            BY <3>1, <3>2 DEF Timed
    <2> QED
        BY <2>1, <2>2
<1>6. Timed(d, TRUE)
    BY <1>2, <1>5 DEF Timed
<1> QED
    BY <1>6 DEF d

LEMMA BytesRegrouped ==
    ASSUME NEW a \in Bytes, NEW b \in Bytes, NEW c \in Bytes
    PROVE  (a \o b) \o c = a \o (b \o c)
<1> DEFINE N == Nat
<1>1. Bytes = Seq(N)
    BY DEF Bytes
<1> HIDE DEF N
<1>2. a \in Seq(N) /\ b \in Seq(N) /\ c \in Seq(N)
    BY <1>1
<1> QED
    BY <1>2, Regrouped

Sounds == Seq(Event)

LEMMA SoundsRegrouped ==
    ASSUME NEW a \in Sounds, NEW b \in Sounds, NEW c \in Sounds
    PROVE  (a \o b) \o c = a \o (b \o c) /\ a \o b \in Sounds
BY Regrouped, ConcatProperties DEF Sounds

\* The beginnings of what the envelope makes of a phrase.
Relays(s, k) == [i \in 1..k |-> Relayed(s, i)]

LEMMA RelayedType ==
    ASSUME total \in Nat, NEW s \in Seq(Event), NEW i \in 1..Len(s)
    PROVE  Relayed(s, i) \in Seq(Event)
<1>1. s[i] \in Event /\ s[i].audio \in Bytes
    <2>1. s[i] \in Event
        BY ElementOfSeq
    <2> QED
        BY <2>1 DEF Event
<1>2. i - 1 \in Nat /\ i - 1 <= Len(s)
    BY LenProperties
<1>3. SubSeq(s, 1, i - 1) \in Seq(Event)
    BY <1>2, Beginning
<1>4. FramesIn(SubSeq(s, 1, i - 1)) \in Nat
    BY <1>3, FramesType
<1>5. total + FramesIn(SubSeq(s, 1, i - 1)) \in Int
    BY <1>4
<1> DEFINE t == Milliseconds(total + FramesIn(SubSeq(s, 1, i - 1)))
           e == ChunkEvent(s[i].audio, t)
<1>6. t \in Int
    BY <1>5, MillisecondsType
<1> HIDE DEF t
<1>7. e \in Event
    BY <1>1, <1>6, ChunkEventType
<1> HIDE DEF e
<1>8. <<e>> \in Seq(Event) /\ <<s[i]>> \in Seq(Event) /\ <<>> \in Seq(Event)
    BY <1>1, <1>7
<1>9. Relayed(s, i) = IF s[i].kind = "start" /\ ~begun THEN <<s[i]>>
                      ELSE IF s[i].kind = "chunk" /\ s[i].audio # Empty THEN <<e>> ELSE <<>>
    BY DEF Relayed, e, t
<1> QED
    BY <1>8, <1>9

LEMMA RelaysAppend ==
    ASSUME total \in Nat, NEW s \in Seq(Event), NEW k \in Nat
    PROVE  /\ k <= Len(s) => Relays(s, k) \in Seq(Seq(Event))
           /\ k < Len(s) => FlattenSeq(Relays(s, k + 1)) = FlattenSeq(Relays(s, k)) \o Relayed(s, k + 1)
<1>1. Len(s) \in Nat
    BY LenProperties
<1>2. ASSUME NEW n \in Nat, n <= Len(s)
      PROVE  /\ Relays(s, n) \in Seq(Seq(Event)) /\ Len(Relays(s, n)) = n
             /\ \A i \in 1..n : Relays(s, n)[i] = Relayed(s, i)
    <2>1. \A i \in 1..n : Relayed(s, i) \in Seq(Event)
        BY <1>1, <1>2, RelayedType
    <2>2. Relays(s, n) \in [1..n -> Seq(Event)] /\ \A i \in 1..n : Relays(s, n)[i] = Relayed(s, i)
        BY <2>1 DEF Relays
    <2> QED
        BY <2>2, Listed
<1>3. ASSUME k < Len(s)
      PROVE  FlattenSeq(Relays(s, k + 1)) = FlattenSeq(Relays(s, k)) \o Relayed(s, k + 1)
    <2> DEFINE p == Relays(s, k)
               q == Relays(s, k + 1)
               x == Relayed(s, k + 1)
    <2>1. k <= Len(s) /\ k + 1 \in Nat /\ k + 1 <= Len(s) /\ k + 1 \in 1..Len(s)
        BY <1>1, <1>3
    <2>2. p \in Seq(Seq(Event)) /\ Len(p) = k /\ \A i \in 1..k : p[i] = Relayed(s, i)
        BY <1>2, <2>1
    <2>3. q \in Seq(Seq(Event)) /\ Len(q) = k + 1 /\ \A i \in 1..(k + 1) : q[i] = Relayed(s, i)
        BY <1>2, <2>1
    <2>4. x \in Seq(Event)
        BY <2>1, RelayedType
    <2> HIDE DEF p, q, x
    <2>5. /\ Append(p, x) \in Seq(Seq(Event)) /\ Len(Append(p, x)) = k + 1
          /\ \A i \in 1..k : Append(p, x)[i] = p[i]
          /\ Append(p, x)[k + 1] = x
        BY <2>2, <2>4, AppendProperties
    <2>6. \A i \in 1..(k + 1) : q[i] = Append(p, x)[i]
        <3> TAKE i \in 1..(k + 1)
        <3>1. CASE i = k + 1
            BY <3>1, <2>3, <2>5 DEF x
        <3>2. CASE i # k + 1
            <4>1. i \in 1..k
                BY <3>2
            <4> QED
                BY <4>1, <2>2, <2>3, <2>5
        <3> QED
            BY <3>1, <3>2
    <2>7. q = Append(p, x)
        BY <2>3, <2>5, <2>6, SameSequence
    <2>8. FlattenSeq(Append(p, x)) = FlattenSeq(p) \o x
        BY <2>2, <2>4, FlattenAppend
    <2> QED
        BY <2>7, <2>8 DEF p, q, x
<1> QED
    BY <1>2, <1>3

\* Relaying a phrase, of any number of events, keeps the response in time and
\* adds the audio of the phrase.
LEMMA Relaying ==
    ASSUME NEW s, Phrase(s), total \in Nat, begun \in BOOLEAN, Timed(client, begun),
           Len(AudioOf(client)) = total * FrameSize
    PROVE  /\ Timed(client \o Normalized(s), begun \/ s # <<>>)
           /\ AudioOf(client \o Normalized(s)) = AudioOf(client) \o AudioOf(s)
<1> DEFINE out(k) == client \o FlattenSeq(Relays(s, k))
           Good == {k \in Nat : k <= Len(s) =>
                       /\ Timed(out(k), begun \/ k # 0)
                       /\ AudioOf(out(k)) = AudioOf(client) \o AudioOf(SubSeq(s, 1, k))}
<1>1. s \in Seq(Event) /\ Len(s) \in Nat /\ client \in Seq(Event)
    BY LenProperties DEF Phrase, Timed
<1>2. AudioOf(client) \in Bytes
    BY <1>1, AudioType
<1>3. 0 \in Good
    <2>1. Relays(s, 0) = <<>> /\ SubSeq(s, 1, 0) = <<>>
        <3>1. Relays(s, 0) \in Seq(Seq(Event)) /\ Len(Relays(s, 0)) = 0
            <4>1. Relays(s, 0) \in [1..0 -> Seq(Event)]
                BY DEF Relays
            <4> QED
                BY <4>1, Listed
        <3> QED
            BY <3>1, EmptySeq, SubSeqEmpty
    <2>2. out(0) = client
        BY <2>1, <1>1, FlattenEmpty, ConcatEmptySeq
    <2>3. AudioOf(client) \o AudioOf(SubSeq(s, 1, 0)) = AudioOf(client)
        BY <2>1, <1>2, AudioEmpty, ConcatEmptySeq DEF Bytes
    <2> QED
        BY <2>2, <2>3
<1>4. ASSUME NEW k \in Nat, k \in Good PROVE k + 1 \in Good
    <2> SUFFICES ASSUME k + 1 <= Len(s)
                 PROVE  /\ Timed(out(k + 1), begun \/ k + 1 # 0)
                        /\ AudioOf(out(k + 1)) = AudioOf(client) \o AudioOf(SubSeq(s, 1, k + 1))
        OBVIOUS
    <2>1. k <= Len(s) /\ k < Len(s) /\ k + 1 \in 1..Len(s) /\ s # <<>> /\ (k + 1) - 1 = k
        BY <1>1
    <2> DEFINE c == out(k)
               x == Relayed(s, k + 1)
               e == s[k + 1]
               u == SubSeq(s, 1, k)
               at == Milliseconds(total + FramesIn(u))
               relay == ChunkEvent(e.audio, at)
    <2>2. Timed(c, begun \/ k # 0) /\ AudioOf(c) = AudioOf(client) \o AudioOf(u)
        BY <1>4, <2>1
    <2>3. /\ FlattenSeq(Relays(s, k)) \in Seq(Event) /\ x \in Seq(Event)
          /\ FlattenSeq(Relays(s, k + 1)) = FlattenSeq(Relays(s, k)) \o x
        BY <1>1, <2>1, RelaysAppend, RelayedType, FlattenType
    <2>4. out(k + 1) = c \o x /\ c \in Seq(Event)
        <3> DEFINE f == FlattenSeq(Relays(s, k))
                   g == FlattenSeq(Relays(s, k + 1))
        <3>1. f \in Sounds /\ x \in Sounds /\ client \in Sounds
            BY <1>1, <2>3 DEF Sounds
        <3>2. c = client \o f /\ out(k + 1) = client \o g /\ g = f \o x
            BY <2>3
        <3> HIDE DEF f, g, x, c, out
        <3>3. (client \o f) \o x = client \o (f \o x) /\ client \o f \in Sounds
            BY <3>1, SoundsRegrouped
        <3> QED
            BY <3>2, <3>3 DEF Sounds
    <2>5. e \in Event /\ e.audio \in Bytes
        <3>1. e \in Event
            BY <1>1, <2>1, ElementOfSeq
        <3> QED
            BY <3>1 DEF Event
    <2>6. /\ u \in Seq(Event) /\ AudioOf(u) \in Bytes
          /\ AudioOf(SubSeq(s, 1, k + 1)) = AudioOf(u) \o e.audio
        <3>1. u \in Seq(Event) /\ SubSeq(s, 1, k + 1) = Append(u, e)
            BY <1>1, <2>1, Beginning
        <3> HIDE DEF u, e
        <3> QED
            BY <3>1, <2>5, AudioType, AudioAppend
    <2>7. AudioOf(c \o x) = (AudioOf(client) \o AudioOf(u)) \o AudioOf(x)
        BY <2>2, <2>3, <2>4, AudioConcat
    <2>8. x = IF e.kind = "start" /\ ~begun THEN <<e>>
              ELSE IF e.kind = "chunk" /\ e.audio # <<>> THEN <<relay>> ELSE <<>>
        BY <2>1 DEF Relayed, Empty
    <2>9. /\ k = 0 => e = StartEvent
          /\ k # 0 => \/ e.kind = "chunk" /\ Complete(e.audio)
                      \/ e.kind = "stop" /\ e.audio = <<>>
        <3>1. k = 0 => e = StartEvent
            BY <2>1 DEF Phrase
        <3>2. k # 0 => k + 1 \in 2..Len(s)
            BY <1>1, <2>1
        <3> QED
            BY <3>1, <3>2 DEF Phrase
    <2>10. at \in Int
        <3>0. FramesIn(u) \in Nat
            BY <2>6, FramesType
        <3> HIDE DEF u
        <3>1. total + FramesIn(u) \in Int
            BY <3>0
        <3> QED
            BY <3>1, MillisecondsType
    <2>11. FramesIn(c) = total + FramesIn(u)
        <3>1. Len(AudioOf(client) \o AudioOf(u)) \div FrameSize = total + (Len(AudioOf(u)) \div FrameSize)
            BY <1>2, <2>6, FramesAdd
        <3> QED
            BY <3>1, <2>2 DEF FramesIn
    <2> HIDE DEF out, x, e, u, c, at
    <2>12. relay \in Event /\ relay.kind = "chunk" /\ relay.audio = e.audio /\ relay.at = at
        BY <2>5, <2>10, ChunkEventType
    <2> HIDE DEF relay
    <2>13. ASSUME x = <<>>, e.audio = <<>>, begun \/ k # 0
           PROVE  Timed(c \o x, TRUE) /\ AudioOf(x) = e.audio
        BY <2>13, <2>2, <2>4, ConcatEmptySeq, AudioEmpty
    <2>14. Timed(c \o x, TRUE) /\ AudioOf(x) = e.audio
        <3>1. CASE k = 0
            <4>1. e = StartEvent /\ e.kind = "start" /\ e.audio = <<>>
                BY <3>1, <2>9, SilentEvents
            <4>2. CASE begun
                BY <4>1, <4>2, <2>8, <2>13
            <4>3. CASE ~begun
                <5>1. c = <<>> /\ x = <<e>>
                    BY <3>1, <4>1, <4>3, <2>2, <2>8 DEF Timed
                <5>2. c \o x = <<StartEvent>>
                    BY <5>1, <4>1, <2>3, ConcatEmptySeq
                <5>3. AudioOf(x) = e.audio
                    BY <5>1, <2>5, AudioOne
                <5> QED
                    BY <5>2, <5>3, TimedBegins
            <4> QED
                BY <4>2, <4>3
        <3>2. CASE k # 0 /\ e.kind = "chunk" /\ e.audio # <<>>
            <4>1. x = <<relay>>
                BY <3>2, <2>8
            <4>2. c \o x = Append(c, relay)
                BY <4>1, <2>4, <2>12, AppendIsConcat
            <4>3. Complete(relay.audio)
                BY <3>2, <2>9, <2>12
            <4>4. relay.at = Milliseconds(FramesIn(c))
                BY <2>11, <2>12 DEF at
            <4>5. Timed(c, TRUE)
                BY <3>2, <2>2
            <4>6. Timed(Append(c, relay), TRUE)
                BY <4>3, <4>4, <4>5, <2>12, TimedGrows
            <4>7. AudioOf(x) = e.audio
                BY <4>1, <2>12, AudioOne
            <4> QED
                BY <4>2, <4>6, <4>7
        <3>3. CASE k # 0 /\ ~(e.kind = "chunk" /\ e.audio # <<>>)
            <4>1. e.kind # "start" /\ e.audio = <<>>
                BY <3>3, <2>9
            <4>2. x = <<>>
                BY <3>3, <4>1, <2>8
            <4> QED
                BY <3>3, <4>1, <4>2, <2>13
        <3> QED
            BY <3>1, <3>2, <3>3
    <2>15. (AudioOf(client) \o AudioOf(u)) \o e.audio = AudioOf(client) \o (AudioOf(u) \o e.audio)
        BY <1>2, <2>5, <2>6, BytesRegrouped
    <2>16. (begun \/ k + 1 # 0) = TRUE
        OBVIOUS
    <2> QED
        BY <2>4, <2>6, <2>7, <2>14, <2>15, <2>16
<1>5. Len(s) \in Good
    <2> HIDE DEF Good
    <2> QED
        BY <1>1, <1>3, <1>4, SetInduction
<1>6. Normalized(s) = FlattenSeq(Relays(s, Len(s)))
    <2>1. DOMAIN s = 1..Len(s)
        BY <1>1, LenProperties
    <2> QED
        BY <2>1 DEF Normalized, Relays
<1>7. SubSeq(s, 1, Len(s)) = s
    BY <1>1, SubSeqFull
<1>8. Len(s) # 0 <=> s # <<>>
    BY <1>1, EmptySeq
<1>9. /\ Timed(out(Len(s)), begun \/ Len(s) # 0)
      /\ AudioOf(out(Len(s))) = AudioOf(client) \o AudioOf(SubSeq(s, 1, Len(s)))
    BY <1>1, <1>5
<1> QED
    BY <1>6, <1>7, <1>8, <1>9

-----------------------------------------------------------------------------
(* Counting bytes.                                                         *)

LEMMA CountType ==
    ASSUME NEW n \in Nat, NEW from \in Nat
    PROVE  /\ Count(n, from) \in Bytes /\ Len(Count(n, from)) = n
           /\ \A i \in 1..n : Count(n, from)[i] = from + i
<1>1. Count(n, from) \in [1..n -> Nat]
    BY DEF Count
<1>2. Count(n, from) \in Seq(Nat) /\ Len(Count(n, from)) = n
    BY <1>1, Listed
<1> QED
    BY <1>2 DEF Count, Bytes

LEMMA CountEmpty ==
    ASSUME NEW from \in Nat
    PROVE  Count(0, from) = <<>>
BY CountType, EmptySeq DEF Bytes

\* What was counted, followed by what comes next.
LEMMA CountJoins ==
    ASSUME NEW m \in Nat, NEW n \in Nat, NEW from \in Nat
    PROVE  Count(m, from) \o Count(n, from + m) = Count(m + n, from)
<1> DEFINE a == Count(m, from)
           b == Count(n, from + m)
           c == Count(m + n, from)
<1>1. a \in Bytes /\ Len(a) = m /\ \A i \in 1..m : a[i] = from + i
    BY CountType
<1>2. b \in Bytes /\ Len(b) = n /\ \A i \in 1..n : b[i] = (from + m) + i
    <2>1. from + m \in Nat
        OBVIOUS
    <2> QED
        BY <2>1, CountType
<1>3. c \in Bytes /\ Len(c) = m + n /\ \A i \in 1..(m + n) : c[i] = from + i
    BY CountType
<1> HIDE DEF a, b, c
<1>4. /\ a \o b \in Bytes /\ Len(a \o b) = m + n
      /\ \A i \in 1..(m + n) : (a \o b)[i] = IF i <= m THEN a[i] ELSE b[i - m]
    BY <1>1, <1>2, ConcatProperties, ZenonT(30) DEF Bytes
<1>5. \A i \in 1..(m + n) : (a \o b)[i] = c[i]
    <2> TAKE i \in 1..(m + n)
    <2>1. CASE i <= m
        <3>1. i \in 1..m
            BY <2>1
        <3> QED
            BY <2>1, <3>1, <1>1, <1>3, <1>4
    <2>2. CASE ~(i <= m)
        <3>1. i - m \in 1..n
            BY <2>2
        <3>2. b[i - m] = (from + m) + (i - m)
            BY <3>1, <1>2
        <3> QED
            BY <2>2, <3>1, <3>2, <1>3, <1>4
    <2> QED
        BY <2>1, <2>2
<1>6. a \o b = c
    BY <1>3, <1>4, <1>5, SameSequence DEF Bytes
<1> QED
    BY <1>6 DEF a, b, c

-----------------------------------------------------------------------------
(* The end of a response.                                                  *)

LEMMA SilentAudio ==
    ASSUME NEW t \in Seq(Event), \A i \in 1..Len(t) : t[i].audio = <<>>
    PROVE  AudioOf(t) = <<>>
<1> DEFINE Good == {k \in Nat : k <= Len(t) => AudioOf(SubSeq(t, 1, k)) = <<>>}
<1>1. Len(t) \in Nat
    BY LenProperties
<1>2. 0 \in Good
    <2>1. SubSeq(t, 1, 0) = <<>>
        BY SubSeqEmpty
    <2> QED
        BY <2>1, AudioEmpty
<1>3. ASSUME NEW k \in Nat, k \in Good PROVE k + 1 \in Good
    <2> SUFFICES ASSUME k + 1 <= Len(t) PROVE AudioOf(SubSeq(t, 1, k + 1)) = <<>>
        OBVIOUS
    <2>1. k < Len(t) /\ k <= Len(t) /\ k + 1 \in 1..Len(t)
        BY <1>1
    <2>2. SubSeq(t, 1, k + 1) = Append(SubSeq(t, 1, k), t[k + 1]) /\ SubSeq(t, 1, k) \in Seq(Event)
        BY <2>1, Beginning
    <2>3. t[k + 1] \in Event /\ t[k + 1].audio = <<>>
        BY <2>1, ElementOfSeq
    <2>4. AudioOf(SubSeq(t, 1, k + 1)) = AudioOf(SubSeq(t, 1, k)) \o <<>>
        BY <2>2, <2>3, AudioAppend
    <2>5. AudioOf(SubSeq(t, 1, k)) = <<>>
        BY <1>3, <2>1
    <2>6. <<>> \o <<>> = <<>>
        OBVIOUS
    <2> QED
        BY <2>4, <2>5, <2>6
<1>4. Len(t) \in Good
    <2> HIDE DEF Good
    <2> QED
        BY <1>1, <1>2, <1>3, SetInduction
<1>5. AudioOf(SubSeq(t, 1, Len(t))) = <<>>
    BY <1>1, <1>4
<1> QED
    BY <1>5, SubSeqFull

\* OneTimeline of any sequence of events.
Timeline(c, started) ==
    \A i \in DOMAIN c :
        /\ c[i].kind = "start" <=> i = 1 /\ started
        /\ c[i].kind = "chunk" =>
              /\ Complete(c[i].audio)
              /\ LET before == FramesIn(SubSeq(c, 1, i - 1))
                 IN  c[i].at * Rate <= before * 1000 /\ before * 1000 < (c[i].at + 1) * Rate
        /\ c[i].kind = "stop" =>
              /\ \A j \in DOMAIN c : c[j].kind = "stop" => j = i
              /\ c[i].at = Milliseconds(FramesIn(c))

\* What may follow an open response: a stop at the time of its last frame, and
\* an error.
Ending(t, at) ==
    /\ t \in Seq(Event)
    /\ \A j \in 1..Len(t) : /\ t[j].kind \in {"stop", "error"} /\ t[j].audio = <<>>
                            /\ t[j].kind = "stop" => j = 1 /\ t[j].at = at

LEMMA TimelineEnds ==
    ASSUME NEW c, NEW started \in BOOLEAN, NEW t, Timed(c, started),
           Ending(t, Milliseconds(FramesIn(c)))
    PROVE  /\ Timeline(c \o t, started)
           /\ c \o t \in Seq(Event) /\ AudioOf(c \o t) = AudioOf(c)
<1> DEFINE d == c \o t
<1>1. c \in Seq(Event) /\ t \in Seq(Event) /\ Len(c) \in Nat /\ Len(t) \in Nat
    BY LenProperties DEF Timed, Ending
<1>2. /\ d \in Seq(Event) /\ Len(d) = Len(c) + Len(t) /\ DOMAIN d = 1..Len(d)
      /\ \A i \in 1..(Len(c) + Len(t)) : d[i] = IF i <= Len(c) THEN c[i] ELSE t[i - Len(c)]
    BY <1>1, ConcatProperties, LenProperties
<1>3. AudioOf(d) = AudioOf(c)
    <2>1. AudioOf(t) = <<>>
        BY <1>1, SilentAudio DEF Ending
    <2>2. AudioOf(d) = AudioOf(c) \o <<>> /\ AudioOf(c) \in Bytes
        BY <2>1, <1>1, AudioConcat, AudioType
    <2> QED
        BY <2>2, ConcatEmptySeq DEF Bytes
<1>4. FramesIn(d) = FramesIn(c)
    BY <1>3 DEF FramesIn
<1> HIDE DEF d
<1>5. \A i \in 1..Len(c) : SubSeq(d, 1, i - 1) = SubSeq(c, 1, i - 1)
    <2> TAKE i \in 1..Len(c)
    <2> DEFINE k == i - 1
               u == SubSeq(d, 1, k)
               v == SubSeq(c, 1, k)
    <2>1. k \in Nat /\ k <= Len(c) /\ k <= Len(d)
        BY <1>1, <1>2
    <2> HIDE DEF k
    <2>2. u \in Seq(Event) /\ Len(u) = k /\ \A j \in 1..k : u[j] = d[j]
        BY <2>1, <1>2, Beginning
    <2>3. v \in Seq(Event) /\ Len(v) = k /\ \A j \in 1..k : v[j] = c[j]
        BY <2>1, <1>1, Beginning
    <2>4. \A j \in 1..k : d[j] = c[j]
        BY <2>1, <1>1, <1>2
    <2> HIDE DEF u, v
    <2>5. u = v
        BY <2>2, <2>3, <2>4, SameSequence
    <2> QED
        BY <2>5 DEF u, v, k
<1>6. ASSUME NEW i \in 1..Len(d), i <= Len(c)
      PROVE  /\ i \in 1..Len(c) /\ d[i] = c[i]
             /\ d[i].kind \in {"start", "chunk"}
             /\ d[i].kind = "start" <=> i = 1
             /\ d[i].kind = "chunk" =>
                   Complete(d[i].audio) /\ d[i].at = Milliseconds(FramesIn(SubSeq(d, 1, i - 1)))
             /\ started /\ SubSeq(d, 1, i - 1) \in Seq(Event)
    <2>1. i \in 1..Len(c) /\ d[i] = c[i]
        BY <1>1, <1>2, <1>6
    <2>2. SubSeq(d, 1, i - 1) = SubSeq(c, 1, i - 1) /\ SubSeq(c, 1, i - 1) \in Seq(Event)
        <3>1. i - 1 \in Nat /\ i - 1 <= Len(c)
            BY <2>1, <1>1
        <3> QED
            BY <3>1, <2>1, <1>1, <1>5, Beginning
    <2>3. c # <<>>
        BY <2>1, EmptySeq
    <2>4. started
        BY <2>3 DEF Timed
    <2> QED
        BY <2>1, <2>2, <2>4 DEF Timed
<1>7. ASSUME NEW i \in 1..Len(d), ~(i <= Len(c))
      PROVE  /\ i - Len(c) \in 1..Len(t)
             /\ d[i].kind \in {"stop", "error"}
             /\ d[i].kind = "stop" => i = Len(c) + 1 /\ d[i].at = Milliseconds(FramesIn(c))
             /\ started => i # 1
    <2>1. i - Len(c) \in 1..Len(t) /\ d[i] = t[i - Len(c)]
        BY <1>1, <1>2, <1>7
    <2>2. /\ d[i].kind \in {"stop", "error"}
          /\ d[i].kind = "stop" => i - Len(c) = 1 /\ d[i].at = Milliseconds(FramesIn(c))
        BY <2>1 DEF Ending
    <2>3. started => Len(c) # 0
        <3>1. started => c # <<>>
            BY DEF Timed
        <3> QED
            BY <3>1, <1>1, EmptySeq
    <2> QED
        BY <1>1, <1>7, <2>1, <2>2, <2>3
<1>8. \A i, j \in 1..Len(d) : d[i].kind = "stop" /\ d[j].kind = "stop" => i = j
    <2> SUFFICES ASSUME NEW i \in 1..Len(d), d[i].kind = "stop" PROVE i = Len(c) + 1
        OBVIOUS
    <2> QED
        BY <1>6, <1>7
<1>9. ASSUME NEW i \in 1..Len(d)
      PROVE  /\ d[i].kind = "start" <=> i = 1 /\ started
             /\ d[i].kind = "chunk" =>
                   /\ Complete(d[i].audio)
                   /\ LET before == FramesIn(SubSeq(d, 1, i - 1))
                      IN  d[i].at * Rate <= before * 1000 /\ before * 1000 < (d[i].at + 1) * Rate
             /\ d[i].kind = "stop" =>
                   /\ \A j \in DOMAIN d : d[j].kind = "stop" => j = i
                   /\ d[i].at = Milliseconds(FramesIn(d))
    <2>1. CASE i <= Len(c)
        <3> DEFINE before == FramesIn(SubSeq(d, 1, i - 1))
        <3>1. SubSeq(d, 1, i - 1) \in Seq(Event)
            BY <2>1, <1>6
        <3>2. before \in Int
            <4>1. before \in Nat
                BY <3>1, FramesType
            <4> HIDE DEF before
            <4> QED
                BY <4>1
        <3> HIDE DEF before
        <3>3. Milliseconds(before) * Rate <= before * 1000 /\ before * 1000 < (Milliseconds(before) + 1) * Rate
            BY <3>2, MillisecondsRounds, SMTT(30)
        <3>4. d[i].kind = "chunk" => Complete(d[i].audio) /\ d[i].at = Milliseconds(before)
            BY <2>1, <1>6 DEF before
        <3>5. d[i].kind # "stop" /\ (d[i].kind = "start" <=> i = 1) /\ started
            BY <2>1, <1>6
        <3>6. d[i].kind = "chunk" => d[i].at * Rate <= before * 1000 /\ before * 1000 < (d[i].at + 1) * Rate
            BY <3>3, <3>4
        <3> QED
            BY <3>4, <3>5, <3>6 DEF before
    <2>2. CASE ~(i <= Len(c))
        BY <2>2, <1>2, <1>4, <1>7, <1>8
    <2> QED
        BY <2>1, <2>2
<1>10. Timeline(d, started)
    BY <1>2, <1>9 DEF Timeline
<1> QED
    BY <1>2, <1>3, <1>10 DEF d

\* An open response is in time as it stands.
LEMMA TimelineOpen ==
    ASSUME NEW c, NEW started \in BOOLEAN, Timed(c, started)
    PROVE  Timeline(c, started)
<1>1. c \in Seq(Event) /\ c \o <<>> = c
    BY ConcatEmptySeq DEF Timed
<1>2. <<>> \in Seq(Event) /\ Len(<<>>) = 0
    BY EmptySeq
<1>3. \A j \in 1..Len(<<>>) : FALSE
    BY <1>2
<1>4. Ending(<<>>, Milliseconds(FramesIn(c)))
    BY <1>2, <1>3 DEF Ending
<1>5. Timeline(c \o <<>>, started)
    BY <1>4, TimelineEnds
<1> QED
    BY <1>1, <1>5

-----------------------------------------------------------------------------
(* The inductive invariant.                                                *)

TypeOK ==
    /\ policy \in Policies
    /\ phase \in {"idle", "filling", "flowing", "closed"}
    /\ target \in [bytes : Nat, cap : Nat] /\ received \in Nat
    /\ pcm \in Bytes /\ carry \in Bytes /\ frames \in Nat /\ events \in Sounds
    /\ begun \in BOOLEAN /\ total \in Nat /\ spoken \in Nat /\ client \in Sounds

\* Between two chunks: a filling buffer is within its cap and nothing has been
\* yielded yet; once audio flows the buffer is empty and the events are the
\* beginning of a phrase.
Held ==
    /\ phase = "filling" => events = <<>> /\ carry = <<>> /\ Len(pcm) <= target.cap
    /\ phase = "flowing" => pcm = <<>> /\ events # <<>> /\ Phrase(events)

\* The response is open, whole and in time until the session closes.
Heard == phase # "closed" => Timed(client, begun)

IInv == TypeOK /\ Held /\ Heard /\ AudioIntact /\ OneTimeline

LEMMA TargetType ==
    ASSUME policy \in Policies, NEW long \in BOOLEAN
    PROVE  Target(long) \in [bytes : Nat, cap : Nat]
<1> DEFINE wanted == IF long THEN policy.long ELSE policy.initial
           ms == IF policy.max <= 0 THEN 0 ELSE Atmost(wanted, policy.max)
           b == IF ms > 0 THEN BytesOf(ms) ELSE 0
           c == IF policy.max > 0 THEN BytesOf(policy.max) ELSE 0
<1>1. policy.long \in Int /\ policy.initial \in Int /\ policy.max \in Int
    BY AudioParameters
<1>2. ms \in Int
    BY <1>1 DEF Atmost
<1>3. b \in Nat
    <2> HIDE DEF ms
    <2>1. ms > 0 => ms \in Nat
        BY <1>2
    <2> QED
        BY <2>1, BytesOfType
<1>4. c \in Nat
    <2>1. policy.max > 0 => policy.max \in Nat
        BY <1>1
    <2> QED
        BY <2>1, BytesOfType
<1>5. Target(long) = [bytes |-> b, cap |-> c]
    BY DEF Target
<1> HIDE DEF b, c
<1> QED
    BY <1>3, <1>4, <1>5

\* What the session's bytes amount to at a stage.
LEMMA BytesHeard ==
    ASSUME IInv
    PROVE  /\ total * FrameSize \in Nat /\ AudioOf(client) \in Bytes
           /\ Len(AudioOf(client)) = total * FrameSize
           /\ FramesIn(client) = total
<1>1. total \in Nat /\ client \in Seq(Event) /\ AudioOf(client) = Count(total * FrameSize, 0)
    BY DEF IInv, TypeOK, Sounds, AudioIntact
<1>2. total * FrameSize \in Nat /\ (total * FrameSize) \div FrameSize = total
    BY <1>1, Positive, Multiple
<1>3. Len(AudioOf(client)) = total * FrameSize /\ AudioOf(client) \in Bytes
    BY <1>1, <1>2, CountType
<1> QED
    BY <1>2, <1>3 DEF FramesIn

-----------------------------------------------------------------------------
(* A phrase goes through, or fails.                                        *)

LEMMA ThroughKeeps ==
    ASSUME IInv, phase # "closed", NEW s, NEW m \in Nat,
           Phrase(s), AudioOf(s) = Count(m, total * FrameSize), Through(s)
    PROVE  IInv'
<1> DEFINE base == total * FrameSize
           n == FramesIn(s)
<1>1. total \in Nat /\ begun \in BOOLEAN /\ Timed(client, begun) /\ s \in Seq(Event)
    BY DEF IInv, TypeOK, Heard, Phrase
<1>2. base \in Nat /\ AudioOf(client) = Count(base, 0) /\ Len(AudioOf(client)) = base
    BY BytesHeard DEF IInv, AudioIntact
<1>3. Len(AudioOf(s)) = m
    BY <1>2, CountType
<1>4. m = n * FrameSize /\ n \in Nat
    <2>1. Complete(AudioOf(SubSeq(s, 1, Len(s)))) /\ SubSeq(s, 1, Len(s)) = s
        <3>1. Len(s) \in 0..Len(s)
            BY <1>1, LenProperties
        <3> QED
            BY <3>1, <1>1, PhraseComplete, SubSeqFull
    <2>2. m % FrameSize = 0 /\ n = m \div FrameSize
        BY <2>1, <1>3 DEF Complete, FramesIn
    <2> HIDE DEF n
    <2> QED
        BY <2>2, Positive, NaturalQuotient
<1>5. total' = total + n /\ total' \in Nat /\ total' * FrameSize = base + m
    <2>1. total' = total + n
        BY DEF Through
    <2> HIDE DEF n
    <2> QED
        BY <2>1, <1>1, <1>4, Positive
<1>6. Timed(client', begun') /\ begun' \in BOOLEAN
    <2>1. Timed(client \o Normalized(s), begun \/ s # <<>>)
        BY <1>1, <1>2, Relaying
    <2> QED
        BY <2>1, <1>1 DEF Through
<1>7. AudioOf(client') = Count(base + m, 0)
    <2>1. AudioOf(client') = AudioOf(client) \o AudioOf(s)
        BY <1>1, <1>2, Relaying DEF Through
    <2>2. 0 + base = base /\ 0 \in Nat
        BY <1>2
    <2>3. Count(base, 0) \o Count(m, 0 + base) = Count(base + m, 0)
        <3> HIDE DEF base
        <3> QED
            BY <1>2, <2>2, CountJoins
    <2> QED
        BY <1>2, <2>1, <2>2, <2>3
<1>8. Timeline(client', begun')
    BY <1>6, TimelineOpen
<1>9. phase' = "idle" /\ spoken' = spoken + 1 /\ UNCHANGED <<policy, phraseVars>>
    BY DEF Through
<1>10. TypeOK'
    <2>1. client' \in Sounds
        BY <1>6 DEF Timed, Sounds
    <2> QED
        BY <2>1, <1>5, <1>6, <1>9 DEF IInv, TypeOK, phraseVars
<1>11. AudioIntact'
    BY <1>5, <1>7, <1>9 DEF AudioIntact
<1>12. OneTimeline'
    BY <1>8 DEF OneTimeline, Timeline
<1> QED
    BY <1>6, <1>9, <1>10, <1>11, <1>12 DEF IInv, Held, Heard

\* The session closes with a stop, an error or both.
LEMMA ClosesKeeps ==
    ASSUME IInv, phase # "closed", NEW t, Ending(t, Milliseconds(total)),
           client' = client \o t, phase' = "closed",
           UNCHANGED <<policy, phraseVars, envelopeVars, spoken>>
    PROVE  IInv'
<1>1. begun \in BOOLEAN /\ Timed(client, begun) /\ FramesIn(client) = total
    BY BytesHeard DEF IInv, TypeOK, Heard
<1>2. Ending(t, Milliseconds(FramesIn(client)))
    BY <1>1
<1>3. /\ Timeline(client \o t, begun)
      /\ client \o t \in Seq(Event) /\ AudioOf(client \o t) = AudioOf(client)
    BY <1>1, <1>2, TimelineEnds
<1>4. total' = total /\ begun' = begun
    BY DEF envelopeVars
<1>5. TypeOK'
    BY <1>3 DEF IInv, TypeOK, Sounds, phraseVars, envelopeVars
<1>6. AudioIntact'
    <2>1. AudioOf(client') = Count(total * FrameSize, 0)
        BY <1>3 DEF IInv, AudioIntact
    <2> QED
        BY <2>1, <1>4 DEF AudioIntact
<1>7. OneTimeline'
    <2>1. Timeline(client', begun')
        BY <1>3, <1>4
    <2> QED
        BY <2>1 DEF OneTimeline, Timeline
<1> QED
    BY <1>5, <1>6, <1>7 DEF IInv, Held, Heard

\* One event alone ends a response.
LEMMA EndsWith ==
    ASSUME NEW e \in Event, NEW at, e.kind \in {"stop", "error"}, e.audio = <<>>,
           e.kind = "stop" => e.at = at
    PROVE  Ending(<<e>>, at)
<1>1. <<e>> \in Seq(Event) /\ Len(<<e>>) = 1 /\ <<e>>[1] = e
    OBVIOUS
<1>2. \A j \in 1..Len(<<e>>) : j = 1 /\ <<e>>[j] = e
    BY <1>1
<1> QED
    BY <1>1, <1>2 DEF Ending

LEMMA FailsKeeps ==
    ASSUME IInv, phase # "closed", Fails
    PROVE  IInv'
<1> DEFINE at == Milliseconds(total)
           stop == StopEvent(at)
           t == (IF begun THEN <<stop>> ELSE <<>>) \o <<ErrorEvent>>
<1>1. at \in Int
    BY MillisecondsType DEF IInv, TypeOK
<1> HIDE DEF at
<1>2. stop \in Event /\ stop.kind = "stop" /\ stop.audio = <<>> /\ stop.at = at
    BY <1>1, SilentEvents
<1>3. ErrorEvent \in Event /\ ErrorEvent.kind = "error" /\ ErrorEvent.audio = <<>>
    BY SilentEvents
<1> HIDE DEF stop
<1>4. Ending(t, at)
    <2>1. CASE begun
        <3> DEFINE f == <<stop>>
                   g == <<ErrorEvent>>
                   u == f \o g
        <3>1. t = u
            BY <2>1
        <3>2. u \in Seq(Event) /\ Len(u) = 2 /\ u[1] = stop /\ u[2] = ErrorEvent
            <4>1. f \in Seq(Event) /\ g \in Seq(Event) /\ Len(f) = 1 /\ Len(g) = 1
                BY <1>2, <1>3
            <4>2. f[1] = stop /\ g[1] = ErrorEvent
                OBVIOUS
            <4> HIDE DEF f, g
            <4>3. /\ f \o g \in Seq(Event) /\ Len(f \o g) = Len(f) + Len(g)
                  /\ \A i \in 1..(Len(f) + Len(g)) :
                        (f \o g)[i] = IF i <= Len(f) THEN f[i] ELSE g[i - Len(f)]
                BY <4>1, ConcatProperties
            <4>4. Len(f) + Len(g) = 2 /\ 1 \in 1..2 /\ 2 \in 1..2 /\ 2 - 1 = 1
                BY <4>1
            <4>5. (f \o g)[1] = f[1] /\ (f \o g)[2] = g[1]
                BY <4>1, <4>3, <4>4
            <4> QED
                BY <4>2, <4>3, <4>4, <4>5
        <3> HIDE DEF u
        <3>3. ASSUME NEW j \in 1..Len(u)
              PROVE  \/ j = 1 /\ u[j] = stop
                     \/ j = 2 /\ u[j] = ErrorEvent
            BY <3>2
        <3>4. Ending(u, at)
            BY <1>2, <1>3, <3>2, <3>3 DEF Ending
        <3> QED
            BY <3>1, <3>4
    <2>2. CASE ~begun
        <3>1. <<ErrorEvent>> \in Seq(Event)
            BY <1>3
        <3>2. t = <<ErrorEvent>>
            BY <2>2, <3>1, ConcatEmptySeq
        <3>3. Ending(<<ErrorEvent>>, at)
            BY <1>3, EndsWith
        <3> QED
            BY <3>2, <3>3
    <2> QED
        BY <2>1, <2>2
<1>5. client' = client \o t
    <2> DEFINE f == IF begun THEN <<stop>> ELSE <<>>
               g == <<ErrorEvent>>
    <2>1. f \in Sounds /\ g \in Sounds /\ client \in Sounds
        BY <1>2, <1>3, EmptySeq DEF Sounds, IInv, TypeOK
    <2>2. client' = (client \o f) \o g
        BY DEF Fails, stop, at
    <2> HIDE DEF f, g
    <2>3. (client \o f) \o g = client \o (f \o g)
        BY <2>1, SoundsRegrouped
    <2> QED
        BY <2>2, <2>3 DEF f, g
<1>6. phase' = "closed" /\ UNCHANGED <<policy, phraseVars, envelopeVars, spoken>>
    BY DEF Fails
<1> HIDE DEF t
<1> QED
    BY <1>4, <1>5, <1>6, ClosesKeeps DEF at

-----------------------------------------------------------------------------
(* Bytes pass through the re-chunker.                                      *)

LEMMA IncomingCounts ==
    ASSUME NEW n
    PROVE  Incoming(n) = Count(n, total * FrameSize + received)
BY DEF Incoming, Count

\* A sequence of bytes cut in two.
LEMMA CutInTwo ==
    ASSUME NEW data \in Bytes, NEW k \in 0..Len(data)
    PROVE  /\ SubSeq(data, 1, k) \in Bytes /\ SubSeq(data, k + 1, Len(data)) \in Bytes
           /\ SubSeq(data, 1, k) \o SubSeq(data, k + 1, Len(data)) = data
           /\ Len(SubSeq(data, 1, k)) = k
<1>1. data \in Seq(Nat) /\ Len(data) \in Nat
    BY LenProperties DEF Bytes
<1>2. k \in Nat /\ k <= Len(data)
    BY <1>1
<1>3. SubSeq(data, 1, k) \in Seq(Nat) /\ Len(SubSeq(data, 1, k)) = k
    BY <1>1, <1>2, Beginning
<1>4. SubSeq(data, k + 1, Len(data)) \in Seq(Nat)
    <2>1. \A i \in (k + 1)..Len(data) : data[i] \in Nat
        BY <1>1, <1>2, ElementOfSeq
    <2> QED
        BY <2>1, <1>1, <1>2, SubSeqProperties
<1>5. SubSeq(data, 1, k) \o SubSeq(data, k + 1, Len(data)) = SubSeq(data, 1, Len(data))
    <2>1. 1 \in 1..(Len(data) + 1) /\ k \in (1 - 1)..Len(data) /\ Len(data) \in k..Len(data)
        BY <1>1, <1>2
    <2> QED
        BY <2>1, <1>1, ConcatAdjacentSubSeq
<1> QED
    BY <1>1, <1>3, <1>4, <1>5, SubSeqFull DEF Bytes

LEMMA PassesKeeps ==
    ASSUME NEW started, NEW data \in Bytes, carry \in Bytes, frames \in Nat,
           Phrase(started), started # <<>>, Passes(started, data)
    PROVE  /\ Phrase(events') /\ events' # <<>> /\ carry' \in Bytes /\ frames' \in Nat
           /\ AudioOf(events') \o carry' = (AudioOf(started) \o carry) \o data
<1> DEFINE r == Rechunk(carry, frames, data)
<1>1. events' = started \o r.out /\ carry' = r.carry /\ frames' = r.frames
    BY DEF Passes
<1>2. /\ r.out \in Seq(Event) /\ Body(r.out) /\ r.carry \in Bytes /\ r.frames \in Nat
      /\ AudioOf(r.out) \o r.carry = carry \o data
    BY RechunkKeeps
<1> HIDE DEF r
<1>3. Phrase(started \o r.out) /\ started \o r.out # <<>>
    BY <1>2, PhraseGoesOn
<1>4. started \in Seq(Event) /\ AudioOf(started) \in Bytes /\ AudioOf(r.out) \in Bytes
    BY <1>2, AudioType DEF Phrase
<1>5. AudioOf(started \o r.out) = AudioOf(started) \o AudioOf(r.out)
    BY <1>2, <1>4, AudioConcat
<1> DEFINE head == AudioOf(started)
           tail == AudioOf(r.out)
           rest == r.carry
<1>6. (head \o tail) \o rest = head \o (tail \o rest)
    <2>1. head \in Bytes /\ tail \in Bytes /\ rest \in Bytes
        BY <1>2, <1>4
    <2> HIDE DEF head, tail, rest
    <2> QED
        BY <2>1, BytesRegrouped
<1>7. (head \o carry) \o data = head \o (carry \o data)
    <2>1. head \in Bytes
        BY <1>4
    <2> HIDE DEF head
    <2> QED
        BY <2>1, BytesRegrouped
<1> QED
    BY <1>1, <1>2, <1>3, <1>5, <1>6, <1>7

\* The flush at the end of the stream adds what the re-chunker held.
LEMMA FlushedKeeps ==
    ASSUME NEW s, Phrase(s), NEW bytes \in Bytes, Complete(bytes), NEW n \in Nat,
           s = <<>> => bytes = <<>>
    PROVE  Phrase(Flushed(s, bytes, n)) /\ AudioOf(Flushed(s, bytes, n)) = AudioOf(s) \o bytes
<1> DEFINE e == ChunkEvent(bytes, Milliseconds(n))
           x == IF bytes = <<>> THEN <<>> ELSE <<e>>
           f == StopEvent(Milliseconds(n + Len(bytes) \div FrameSize))
           y == IF s = <<>> THEN <<>> ELSE <<f>>
<1>1. s \in Seq(Event) /\ AudioOf(s) \in Bytes /\ <<>> \in Seq(Event) /\ Len(<<>>) = 0
    BY AudioType, EmptySeq DEF Phrase
<1>2. e \in Event /\ e.kind = "chunk" /\ e.audio = bytes
    BY MillisecondsType, ChunkEventType
<1>3. f \in Event /\ f.kind = "stop" /\ f.audio = <<>>
    <2>1. n + Len(bytes) \div FrameSize \in Int
        <3>1. Len(bytes) \in Nat
            BY LenProperties DEF Bytes
        <3>2. Len(bytes) \div FrameSize \in Nat
            BY <3>1, Positive, NaturalQuotient
        <3> QED
            BY <3>2
    <2>2. Milliseconds(n + Len(bytes) \div FrameSize) \in Int
        BY <2>1, MillisecondsType
    <2> QED
        BY <2>2, SilentEvents
<1>4. Flushed(s, bytes, n) = (s \o x) \o y
    BY DEF Flushed, Empty
<1> HIDE DEF e, f
<1>5. \A g \in Event : /\ <<g>> \in Seq(Event) /\ Len(<<g>>) = 1 /\ <<g>>[1] = g
    OBVIOUS
<1>6. \A i \in 1..Len(<<>>) : FALSE
    BY <1>1
<1>7. x \in Seq(Event) /\ Body(x) /\ AudioOf(x) = bytes
    <2>1. CASE bytes = <<>>
        BY <2>1, <1>1, <1>6, AudioEmpty DEF Body
    <2>2. CASE bytes # <<>>
        <3>1. x = <<e>> /\ x \in Seq(Event) /\ Len(x) = 1 /\ x[1] = e
            BY <2>2, <1>2, <1>5
        <3>2. Body(x)
            BY <3>1, <1>2 DEF Body
        <3> QED
            BY <3>1, <3>2, <1>2, AudioOne
    <2> QED
        BY <2>1, <2>2
<1>8. y \in Seq(Event) /\ Body(y) /\ AudioOf(y) = <<>>
    <2>1. CASE s = <<>>
        BY <2>1, <1>1, <1>6, AudioEmpty DEF Body
    <2>2. CASE s # <<>>
        <3>1. y = <<f>> /\ y \in Seq(Event) /\ Len(y) = 1 /\ y[1] = f
            BY <2>2, <1>3, <1>5
        <3>2. Body(y)
            BY <3>1, <1>3 DEF Body
        <3> QED
            BY <3>1, <3>2, <1>3, AudioOne
    <2> QED
        BY <2>1, <2>2
<1>9. s = <<>> => x = <<>> /\ y = <<>>
    OBVIOUS
<1> HIDE DEF x, y
<1>10. AudioOf((s \o x) \o y) = AudioOf(s) \o bytes
    <2>1. s \o x \in Seq(Event) /\ AudioOf(s \o x) = AudioOf(s) \o bytes
        BY <1>1, <1>7, AudioConcat, ConcatProperties
    <2>2. AudioOf((s \o x) \o y) = (AudioOf(s) \o bytes) \o <<>>
        BY <2>1, <1>8, AudioConcat
    <2>3. AudioOf(s) \o bytes \in Bytes
        BY <1>1, ConcatProperties DEF Bytes
    <2> QED
        BY <2>2, <2>3, ConcatEmptySeq DEF Bytes
<1>11. Phrase((s \o x) \o y)
    <2>1. CASE s = <<>>
        <3>1. (s \o x) \o y = <<>>
            BY <2>1, <1>9, <1>1, ConcatEmptySeq
        <3> QED
            BY <3>1, PhraseStarts
    <2>2. CASE s # <<>>
        <3>1. Phrase(s \o x) /\ s \o x # <<>>
            BY <2>2, <1>7, PhraseGoesOn
        <3> QED
            BY <3>1, <1>8, PhraseGoesOn
    <2> QED
        BY <2>1, <2>2
<1> QED
    BY <1>4, <1>10, <1>11

-----------------------------------------------------------------------------
(* The steps.                                                              *)

LEMMA InitEstablishes == Init => IInv
<1> SUFFICES ASSUME Init PROVE IInv
    OBVIOUS
<1>1. <<>> \in Bytes /\ <<>> \in Sounds
    BY EmptySeq DEF Bytes, Sounds
<1>2. TypeOK
    BY <1>1 DEF Init, TypeOK, Empty
<1>3. Timed(client, begun)
    BY TimedBegins DEF Init
<1>4. AudioIntact
    <2>1. 0 * FrameSize = 0
        BY Positive
    <2>2. AudioOf(client) = <<>> /\ Count(0, 0) = <<>>
        BY AudioEmpty, CountEmpty DEF Init
    <2> QED
        BY <2>1, <2>2 DEF Init, AudioIntact
<1>5. OneTimeline
    <2>1. Timeline(client, begun)
        BY <1>2, <1>3, TimelineOpen DEF TypeOK
    <2> QED
        BY <2>1 DEF OneTimeline, Timeline
<1> QED
    BY <1>2, <1>3, <1>4, <1>5 DEF IInv, Held, Heard, Init

\* While a phrase is under way the response rests.
LEMMA RestKeeps ==
    ASSUME IInv, TypeOK', Held', phase # "closed",
           UNCHANGED <<envelopeVars, client>>,
           phase' \in {"filling", "flowing"} =>
               AudioOf(events') \o carry' \o pcm' = Count(received', total * FrameSize)
    PROVE  IInv'
<1>1. total' = total /\ begun' = begun /\ client' = client
    BY DEF envelopeVars
<1>2. Timed(client', begun')
    BY <1>1 DEF IInv, Heard
<1>3. AudioIntact'
    BY <1>1 DEF IInv, AudioIntact
<1>4. OneTimeline'
    <2>1. Timeline(client, begun)
        BY TimelineOpen DEF IInv, TypeOK, Heard
    <2> QED
        BY <1>1, <2>1 DEF OneTimeline, Timeline
<1> QED
    BY <1>2, <1>3, <1>4 DEF IInv, Heard

LEMMA BeginsKeeps ==
    ASSUME IInv, PhraseBegins
    PROVE  IInv'
<1>1. PICK long \in BOOLEAN :
          /\ target' = Target(long)
          /\ phase' = IF target'.bytes > 0 THEN "filling" ELSE "flowing"
          /\ events' = IF target'.bytes > 0 THEN <<>> ELSE <<StartEvent>>
    BY DEF PhraseBegins
<1>2. /\ phase = "idle" /\ received' = 0 /\ pcm' = <<>> /\ carry' = <<>> /\ frames' = 0
      /\ UNCHANGED <<policy, envelopeVars, spoken, client>>
    BY DEF PhraseBegins, Empty
<1>3. target' \in [bytes : Nat, cap : Nat]
    BY <1>1, TargetType DEF IInv, TypeOK
<1>4. <<>> \in Bytes /\ <<>> \in Sounds /\ <<StartEvent>> \in Sounds /\ Len(<<>>) = 0
    BY EmptySeq, SilentEvents DEF Bytes, Sounds
<1>5. TypeOK'
    BY <1>1, <1>2, <1>3, <1>4 DEF IInv, TypeOK, envelopeVars
<1>6. Held'
    BY <1>1, <1>2, <1>3, <1>4, PhraseStarts DEF Held
<1>7. AudioOf(events') \o carry' \o pcm' = Count(received', total * FrameSize)
    <2>1. AudioOf(events') = <<>>
        BY <1>1, AudioEmpty, AudioOne, SilentEvents
    <2>2. <<>> \o <<>> = <<>>
        BY EmptySeq, ConcatEmptySeq
    <2>3. Count(0, total * FrameSize) = <<>>
        BY BytesHeard, CountEmpty
    <2> QED
        BY <2>1, <2>2, <2>3, <1>2
<1> QED
    BY <1>2, <1>5, <1>6, <1>7, RestKeeps

\* A chunk of the transport is kept or begins the playback; wherever the cap
\* falls, it is cut in whole.
LEMMA ArrivesKeeps ==
    ASSUME IInv, ChunkArrives
    PROVE  IInv'
<1> DEFINE base == total * FrameSize
<1>1. PICK n \in 1..(MaxBytes - received) :
          /\ received' = received + n
          /\ \/ phase = "filling" /\ BufferFills(Incoming(n))
             \/ phase = "flowing" /\ Passes(events, Incoming(n)) /\ UNCHANGED <<phase, pcm>>
    BY DEF ChunkArrives
<1>2. phase \in {"filling", "flowing"} /\ UNCHANGED <<policy, target, envelopeVars, spoken, client>>
    BY DEF ChunkArrives
<1>3. /\ received \in Nat /\ n \in Nat /\ received' \in Nat /\ base \in Nat /\ base + received \in Nat
      /\ pcm \in Bytes /\ carry \in Bytes /\ frames \in Nat /\ target.cap \in Nat
    BY <1>1, BytesHeard, Positive DEF IInv, TypeOK
<1> DEFINE data == Incoming(n)
           heard == Count(received, base)
<1>4. data = Count(n, base + received)
    BY IncomingCounts
<1> HIDE DEF base
<1>5. data \in Bytes /\ Len(data) = n /\ heard \in Bytes
    BY <1>3, <1>4, CountType
<1>6. heard \o data = Count(received', base)
    <2>1. Count(received, base) \o Count(n, base + received) = Count(received + n, base)
        BY <1>3, CountJoins, ZenonT(30)
    <2> QED
        BY <2>1, <1>1, <1>4
<1>7. AudioOf(events) \o carry \o pcm = heard
    BY <1>2 DEF IInv, AudioIntact, base
<1>8. \A b \in Bytes : <<>> \o b = b /\ b \o <<>> = b
    BY ConcatEmptySeq DEF Bytes
<1> HIDE DEF data, heard
<1>9. <<>> \in Bytes /\ <<>> \in Sounds /\ Len(<<>>) = 0
    BY EmptySeq DEF Bytes, Sounds
<1>10. CASE phase = "flowing" /\ Passes(events, data) /\ UNCHANGED <<phase, pcm>>
    <2>1. pcm = <<>> /\ events # <<>> /\ Phrase(events)
        BY <1>10 DEF IInv, Held
    <2>2. AudioOf(events) \o carry = heard
        <3>1. events \in Seq(Event)
            BY <2>1 DEF Phrase
        <3>2. AudioOf(events) \o carry \in Bytes
            BY <3>1, <1>3, AudioType, ConcatProperties DEF Bytes
        <3> QED
            BY <3>2, <2>1, <1>7, <1>8
    <2>3. /\ Phrase(events') /\ events' # <<>> /\ carry' \in Bytes /\ frames' \in Nat
          /\ AudioOf(events') \o carry' = heard \o data
        BY <2>1, <2>2, <1>3, <1>5, <1>10, PassesKeeps
    <2>4. AudioOf(events') \o carry' \o pcm' = Count(received', base)
        <3>1. heard \o data \in Bytes
            BY <1>5, ConcatProperties DEF Bytes
        <3> QED
            BY <3>1, <2>1, <2>3, <1>6, <1>8, <1>10
    <2>5. TypeOK'
        BY <2>3, <1>2, <1>3, <1>10 DEF IInv, TypeOK, envelopeVars, Sounds, Phrase
    <2>6. Held'
        BY <2>1, <2>3, <1>10 DEF Held
    <2> QED
        BY <2>4, <2>5, <2>6, <1>2, RestKeeps DEF base
<1>11. CASE phase = "filling" /\ BufferFills(data)
    <2> DEFINE room == target.cap - Len(pcm)
               fit == Fits(Len(data))
               kept == SubSeq(data, 1, fit)
               rest == SubSeq(data, fit + 1, Len(data))
               held == pcm \o kept
    <2>1. events = <<>> /\ carry = <<>> /\ Len(pcm) \in Nat /\ room \in Nat
        BY <1>3, <1>11, LenProperties DEF IInv, Held, Bytes
    <2>2. fit \in 0..Len(data)
        <3>1. Aligned(room) \in 0..room
            BY <2>1, AlignedBounds
        <3>2. fit = IF n <= room THEN n ELSE Aligned(room)
            BY <1>5 DEF Fits
        <3> HIDE DEF room, fit
        <3> QED
            BY <3>1, <3>2, <2>1, <1>3, <1>5
    <2> HIDE DEF fit
    <2>3. kept \in Bytes /\ rest \in Bytes /\ kept \o rest = data
        BY <2>2, <1>5, CutInTwo
    <2>4. pcm = heard
        <3>1. AudioOf(events) \o carry = <<>>
            BY <2>1, <1>8, <1>9, AudioEmpty
        <3> QED
            BY <3>1, <1>3, <1>7, <1>8
    <2>5. \/ /\ fit = Len(data) /\ Len(held) < target.cap
             /\ pcm' = held /\ UNCHANGED <<phase, events, carry, frames>>
          \/ /\ phase' = "flowing" /\ pcm' = <<>>
             /\ Passes(<<StartEvent>>, held \o rest)
        BY <1>11 DEF BufferFills, fit, Empty
    <2>6. held \in Bytes /\ held \o rest = heard \o data
        <3>1. held \in Bytes
            BY <2>3, <1>3, ConcatProperties DEF Bytes
        <3>2. (pcm \o kept) \o rest = pcm \o (kept \o rest)
            <4> HIDE DEF kept, rest
            <4> QED
                BY <2>3, <1>3, BytesRegrouped
        <3> QED
            BY <3>1, <3>2, <2>3, <2>4
    <2>7. CASE /\ fit = Len(data) /\ Len(held) < target.cap
               /\ pcm' = held /\ UNCHANGED <<phase, events, carry, frames>>
        <3>1. kept = data
            BY <2>7, <1>5, SubSeqFull DEF Bytes
        <3>2. pcm' = heard \o data
            BY <3>1, <2>4, <2>7
        <3>3. AudioOf(events') \o carry' \o pcm' = Count(received', base)
            <4>1. pcm' \in Bytes /\ AudioOf(events') = <<>> /\ carry' = <<>>
                BY <2>1, <2>6, <2>7, AudioEmpty
            <4> QED
                BY <4>1, <3>2, <1>6, <1>8, <1>9
        <3>4. TypeOK'
            BY <2>6, <2>7, <1>2, <1>3 DEF IInv, TypeOK, envelopeVars
        <3>5. Held'
            <4>1. Len(pcm') <= target'.cap
                <5>1. Len(held) \in Nat
                    BY <2>6, LenProperties DEF Bytes
                <5> HIDE DEF held
                <5> QED
                    BY <5>1, <2>7, <1>2, <1>3
            <4> QED
                BY <4>1, <2>1, <2>7, <1>11 DEF Held
        <3> QED
            BY <3>3, <3>4, <3>5, <1>2, RestKeeps DEF base
    <2>8. CASE /\ phase' = "flowing" /\ pcm' = <<>>
               /\ Passes(<<StartEvent>>, held \o rest)
        <3> DEFINE all == held \o rest
                   start == <<StartEvent>>
        <3>1. all \in Bytes /\ all = heard \o data
            BY <2>3, <2>6, ConcatProperties DEF Bytes
        <3>2. Phrase(start) /\ start # <<>> /\ AudioOf(start) = <<>>
            BY PhraseStarts, SilentEvents, AudioOne
        <3>3. Passes(start, all)
            BY <2>8
        <3> HIDE DEF all, start
        <3>4. /\ Phrase(events') /\ events' # <<>> /\ carry' \in Bytes /\ frames' \in Nat
              /\ AudioOf(events') \o carry' = (AudioOf(start) \o carry) \o all
            BY <3>1, <3>2, <3>3, <1>3, PassesKeeps
        <3>5. (AudioOf(start) \o carry) \o all = all
            BY <3>1, <3>2, <2>1, <1>8, <1>9
        <3>6. AudioOf(events') \o carry' \o pcm' = Count(received', base)
            BY <3>1, <3>4, <3>5, <2>8, <1>6, <1>8
        <3>7. TypeOK'
            BY <3>4, <2>8, <1>2, <1>3, <1>9 DEF IInv, TypeOK, envelopeVars, Sounds, Phrase
        <3>8. Held'
            BY <3>4, <2>8 DEF Held
        <3> QED
            BY <3>6, <3>7, <3>8, <1>2, RestKeeps DEF base
    <2> QED
        BY <2>5, <2>7, <2>8
<1> QED
    BY <1>1, <1>10, <1>11 DEF data

\* The end of a stream sends what is held, to the last byte.
LEMMA EndsKeeps ==
    ASSUME IInv, StreamEnds
    PROVE  IInv'
<1> DEFINE base == total * FrameSize
           first == IF pcm = <<>> THEN events ELSE <<StartEvent>>
           r == Rechunk(carry, frames, pcm)
<1>1. phase \in {"filling", "flowing"}
    BY DEF StreamEnds
<1>2. /\ received \in Nat /\ base \in Nat
      /\ pcm \in Bytes /\ carry \in Bytes /\ frames \in Nat /\ events \in Seq(Event)
    BY BytesHeard DEF IInv, TypeOK, Sounds
<1>3. AudioOf(events) \o carry \o pcm = Count(received, base)
    BY <1>1 DEF IInv, AudioIntact
<1> HIDE DEF base
<1>4. IF Complete(r.carry) THEN Through(Flushed(first \o r.out, r.carry, r.frames)) ELSE Fails
    BY DEF StreamEnds, Empty
<1>5. /\ r.out \in Seq(Event) /\ Body(r.out) /\ r.carry \in Bytes /\ r.frames \in Nat
      /\ AudioOf(r.out) \o r.carry = carry \o pcm
      /\ carry \o pcm = <<>> => r.out = <<>> /\ r.carry = <<>>
    BY <1>2, RechunkKeeps
<1> HIDE DEF r
<1>6. AudioOf(events) = <<>> \/ pcm = <<>>
    BY <1>1, AudioEmpty DEF IInv, Held
<1>7. Phrase(first) /\ AudioOf(first) = AudioOf(events)
    <2>1. CASE pcm = <<>>
        <3>1. Phrase(events)
            BY <1>1, PhraseStarts DEF IInv, Held
        <3> QED
            BY <2>1, <3>1
    <2>2. CASE pcm # <<>>
        BY <2>2, <1>6, PhraseStarts, SilentEvents, AudioOne
    <2> QED
        BY <2>1, <2>2
<1>8. first = <<>> => r.out = <<>> /\ r.carry = <<>>
    <2>1. ASSUME first = <<>> PROVE carry \o pcm = <<>>
        <3>1. pcm = <<>> /\ events = <<>>
            BY <2>1, PhraseStarts
        <3>2. carry = <<>>
            BY <3>1, <1>1 DEF IInv, Held
        <3> QED
            BY <3>1, <3>2, <1>2, ConcatEmptySeq DEF Bytes
    <2> QED
        BY <2>1, <1>5
<1> DEFINE s == first \o r.out
<1>9. /\ Phrase(s) /\ AudioOf(s) = AudioOf(events) \o AudioOf(r.out)
      /\ s = <<>> => r.carry = <<>>
    <2>1. first \in Seq(Event)
        BY <1>7 DEF Phrase
    <2>2. AudioOf(s) = AudioOf(first) \o AudioOf(r.out)
        BY <2>1, <1>5, AudioConcat
    <2>3. CASE first = <<>>
        <3>1. s = <<>>
            BY <2>3, <1>8, <2>1, ConcatEmptySeq
        <3> QED
            BY <3>1, <2>2, <2>3, <1>7, <1>8, PhraseStarts
    <2>4. CASE first # <<>>
        BY <2>2, <2>4, <1>5, <1>7, PhraseGoesOn
    <2> QED
        BY <2>3, <2>4
<1> HIDE DEF first, s
<1>10. CASE Complete(r.carry)
    <2> DEFINE all == Flushed(s, r.carry, r.frames)
    <2>1. Phrase(all) /\ AudioOf(all) = AudioOf(s) \o r.carry
        BY <1>5, <1>9, <1>10, FlushedKeeps
    <2>2. AudioOf(s) \o r.carry = Count(received, base)
        <3> DEFINE a == AudioOf(events)
                   b == AudioOf(r.out)
                   c == r.carry
        <3>1. a \in Bytes /\ b \in Bytes /\ c \in Bytes /\ b \o c = carry \o pcm
            BY <1>2, <1>5, AudioType
        <3>2. AudioOf(s) \o r.carry = (a \o b) \o c
            BY <1>9
        <3>3. (a \o carry) \o pcm = Count(received, base)
            BY <1>3
        <3> HIDE DEF a, b, c
        <3>4. (a \o b) \o c = a \o (b \o c)
            BY <3>1, BytesRegrouped
        <3>5. (a \o carry) \o pcm = a \o (carry \o pcm)
            BY <3>1, <1>2, BytesRegrouped
        <3> QED
            BY <3>1, <3>2, <3>3, <3>4, <3>5
    <2>3. Through(all)
        BY <1>4, <1>10 DEF s
    <2> HIDE DEF all
    <2>4. phase # "closed" /\ AudioOf(all) = Count(received, total * FrameSize)
        BY <2>1, <2>2, <1>1 DEF base
    <2> QED
        BY <2>1, <2>3, <2>4, <1>2, ThroughKeeps
<1>11. CASE ~Complete(r.carry)
    BY <1>1, <1>4, <1>11, FailsKeeps
<1> QED
    BY <1>10, <1>11

\* A buffered answer of n bytes goes through whole.
LEMMA WholeKeeps ==
    ASSUME IInv, phase # "closed", NEW n \in Nat, n % FrameSize = 0,
           Through(Chunked([i \in 1..n |-> total * FrameSize + i]))
    PROVE  IInv'
<1> DEFINE bytes == Count(n, total * FrameSize)
<1>1. total * FrameSize \in Nat
    BY BytesHeard
<1>2. bytes \in Bytes /\ Len(bytes) = n
    BY <1>1, CountType
<1>3. Complete(bytes)
    BY <1>2 DEF Complete
<1>4. Through(Chunked(bytes))
    BY DEF Count
<1> HIDE DEF bytes
<1>5. Phrase(Chunked(bytes)) /\ AudioOf(Chunked(bytes)) = bytes
    BY <1>2, <1>3, ChunkedKeeps
<1> QED
    BY <1>4, <1>5, ThroughKeeps DEF bytes

LEMMA BufferedKeeps ==
    ASSUME IInv, PhraseBuffered
    PROVE  IInv'
<1>1. PICK n \in 0..MaxBytes :
          LET bytes == [i \in 1..n |-> total * FrameSize + i]
          IN  IF n > 0 /\ Complete(bytes) THEN Through(Chunked(bytes)) ELSE Fails
    BY DEF PhraseBuffered
<1> DEFINE bytes == [i \in 1..n |-> total * FrameSize + i]
<1>2. phase # "closed" /\ n \in Nat
    BY Positive DEF PhraseBuffered
<1>3. CASE n > 0 /\ Complete(bytes)
    <2>1. Through(Chunked(bytes))
        BY <1>1, <1>3
    <2>2. Len(bytes) = n
        <3>1. bytes = Count(n, total * FrameSize)
            BY DEF Count
        <3> QED
            BY <3>1, <1>2, BytesHeard, CountType
    <2>3. n % FrameSize = 0
        BY <2>2, <1>3 DEF Complete
    <2> QED
        BY <2>1, <2>3, <1>2, WholeKeeps
<1>4. CASE ~(n > 0 /\ Complete(bytes))
    BY <1>1, <1>2, <1>4, FailsKeeps
<1> QED
    BY <1>3, <1>4

LEMMA FakedKeeps ==
    ASSUME IInv, PhraseFaked
    PROVE  IInv'
<1>1. PICK n \in 0..(MaxBytes \div FrameSize) :
          Through(Chunked([i \in 1..(n * FrameSize) |-> total * FrameSize + i]))
    BY DEF PhraseFaked
<1>2. n \in Nat
    BY Positive, NaturalQuotient
<1>3. n * FrameSize \in Nat /\ (n * FrameSize) % FrameSize = 0
    BY <1>2, Positive, Multiple
<1>4. phase # "closed"
    BY DEF PhraseFaked
<1> QED
    BY <1>1, <1>3, <1>4, WholeKeeps

LEMMA SessionEndsKeeps ==
    ASSUME IInv, SessionEnds
    PROVE  IInv'
<1> DEFINE at == Milliseconds(total)
           e == StopEvent(at)
<1>1. at \in Int
    BY MillisecondsType DEF IInv, TypeOK
<1>2. /\ phase # "closed" /\ client' = Append(client, e) /\ phase' = "closed"
      /\ UNCHANGED <<policy, phraseVars, envelopeVars, spoken>>
    BY DEF SessionEnds
<1> HIDE DEF at
<1>3. e \in Event /\ e.kind = "stop" /\ e.audio = <<>> /\ e.at = at
    BY <1>1, SilentEvents
<1> HIDE DEF e
<1>4. Ending(<<e>>, at)
    BY <1>3, EndsWith
<1>5. client' = client \o <<e>>
    <2>1. client \in Seq(Event)
        BY DEF IInv, TypeOK, Sounds
    <2> QED
        BY <2>1, <1>2, <1>3, AppendIsConcat
<1> QED
    BY <1>2, <1>4, <1>5, ClosesKeeps DEF at

LEMMA StepKeeps == IInv /\ [Next]_vars => IInv'
<1> SUFFICES ASSUME IInv, [Next]_vars PROVE IInv'
    OBVIOUS
<1>1. CASE PhraseBegins
    BY <1>1, BeginsKeeps
<1>2. CASE ChunkArrives
    BY <1>2, ArrivesKeeps
<1>3. CASE StreamEnds
    BY <1>3, EndsKeeps
<1>4. CASE StreamFails
    BY <1>4, FailsKeeps DEF StreamFails
<1>5. CASE PhraseBuffered
    BY <1>5, BufferedKeeps
<1>6. CASE PhraseFaked
    BY <1>6, FakedKeeps
<1>7. CASE SessionEnds
    BY <1>7, SessionEndsKeeps
<1>8. CASE UNCHANGED vars
    <2>1. /\ policy' = policy /\ phase' = phase /\ target' = target /\ received' = received
          /\ pcm' = pcm /\ carry' = carry /\ frames' = frames /\ events' = events
          /\ begun' = begun /\ total' = total /\ spoken' = spoken /\ client' = client
        BY <1>8 DEF vars, phraseVars, envelopeVars
    <2>2. TypeOK' /\ Held' /\ Heard'
        BY <2>1 DEF IInv, TypeOK, Held, Heard
    <2>3. AudioIntact'
        BY <2>1 DEF IInv, AudioIntact
    <2>4. OneTimeline'
        BY <2>1 DEF IInv, OneTimeline
    <2> QED
        BY <2>2, <2>3, <2>4 DEF IInv
<1> QED
    BY <1>1, <1>2, <1>3, <1>4, <1>5, <1>6, <1>7, <1>8 DEF Next

-----------------------------------------------------------------------------
(* The theorems.                                                           *)

LEMMA Invariance == Spec => []IInv
BY InitEstablishes, StepKeeps, PTL DEF Spec

\* Every variable of the path of the audio keeps its type: byte counts and
\* frame counts never become negative, and only events reach the client.
THEOREM TypeCorrect == Spec => []TypeOK
<1>1. IInv => TypeOK
    BY DEF IInv
<1> QED
    BY <1>1, Invariance, PTL

\* No byte is lost, doubled or moved between the backend and the client,
\* however the transport cuts the stream, wherever the buffer's cap falls, and
\* no byte of a phrase that failed is heard (app/wyoming_server.py,
\* app/audio.py, app/speech/envelope.py).
THEOREM AudioIntactHolds == Spec => []AudioIntact
<1>1. IInv => AudioIntact
    BY DEF IInv
<1> QED
    BY <1>1, Invariance, PTL

\* The client hears one response: one start, chunks of whole frames stamped
\* with the time of their first frame, rounded down, and one stop at the time
\* of the last frame (AudioEnvelope).
THEOREM OneTimelineHolds == Spec => []OneTimeline
<1>1. IInv => OneTimeline
    BY DEF IInv
<1> QED
    BY <1>1, Invariance, PTL
=============================================================================
