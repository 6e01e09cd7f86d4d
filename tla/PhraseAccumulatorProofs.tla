----------------------- MODULE PhraseAccumulatorProofs -----------------------
(***************************************************************************)
(* Theorems about PhraseAccumulator, for any limits, any text and any way  *)
(* the client cuts it.                                                     *)
(***************************************************************************)
EXTENDS PhraseAccumulator, WellFoundedInduction, SequenceTheorems, TLAPS

-----------------------------------------------------------------------------
(* Numbers.                                                                *)

\* A set of naturals has a least element, which Min returns.
LEMMA MinIs ==
    ASSUME NEW T, T \subseteq Nat, T # {}
    PROVE  Min(T) \in T /\ \A k \in T : Min(T) <= k
<1>1. \E m \in T : \A k \in T : <<k, m>> \notin OpToRel(<, Nat)
    BY NatLessThanWellFounded, WFMin
<1>2. PICK m \in T : \A k \in T : ~(k < m)
    BY <1>1 DEF OpToRel
<1>3. m \in Nat /\ \A k \in T : k \in Nat
    OBVIOUS
<1>4. \A k \in T : m <= k
    BY <1>2, <1>3
<1> QED
    BY <1>4 DEF Min

\* A bounded one has a greatest.
LEMMA MaxIs ==
    ASSUME NEW n \in Nat, NEW T, T \subseteq 0..n, T # {}
    PROVE  Max(T) \in T /\ \A k \in T : k <= Max(T)
<1> DEFINE U == {n - k : k \in T}
<1>0. \A k \in T : n - k \in Nat
    OBVIOUS
<1>1. U \subseteq Nat /\ U # {}
    BY <1>0
<1>2. Min(U) \in U /\ \A k \in U : Min(U) <= k
    BY <1>1, MinIs
<1>3. PICK m \in T : Min(U) = n - m
    BY <1>2
<1>4. \A k \in T : n - m <= n - k
    BY <1>2, <1>3
<1>5. \A k \in T : k \in 0..n
    OBVIOUS
<1>6. \A k \in T : m >= k
    BY <1>3, <1>4, <1>5
<1>7. Max(T) \in T /\ \A k \in T : Max(T) >= k
    BY <1>6 DEF Max
<1> QED
    BY <1>5, <1>7

\* Induction over the naturals, for a set of numbers.
LEMMA SetInduction ==
    ASSUME NEW T, 0 \in T, \A n \in Nat : n \in T => n + 1 \in T
    PROVE  Nat \subseteq T
<1> SUFFICES ASSUME Nat \ T # {} PROVE FALSE
    OBVIOUS
<1> DEFINE m == Min(Nat \ T)
<1>1. m \in Nat \ T /\ \A k \in Nat \ T : m <= k
    BY MinIs
<1> HIDE DEF m
<1>2. m # 0 /\ m - 1 \in Nat
    BY <1>1
<1>3. m - 1 \in T
    BY <1>1, <1>2
<1> QED
    BY <1>1, <1>2, <1>3

-----------------------------------------------------------------------------
(* Where things lie in a buffer.                                           *)

\* After skips characters of the set, and no other.
LEMMA AfterIs ==
    ASSUME NEW S, NEW b \in Seq(S), NEW i \in 1..(Len(b) + 1), NEW chars
    PROVE  /\ After(b, i, chars) \in i..(Len(b) + 1)
           /\ \A k \in i..(After(b, i, chars) - 1) : b[k] \in chars
           /\ After(b, i, chars) <= Len(b) => b[After(b, i, chars)] \notin chars
<1> DEFINE T == {j \in i..(Len(b) + 1) : j = Len(b) + 1 \/ b[j] \notin chars}
<1>1. Len(b) \in Nat
    BY LenProperties
<1>2. T \subseteq Nat /\ Len(b) + 1 \in T
    BY <1>1
<1>3. Min(T) \in T /\ \A k \in T : Min(T) <= k
    BY <1>2, MinIs
<1>4. After(b, i, chars) = Min(T)
    BY DEF After
<1>5. Min(T) \in i..(Len(b) + 1) /\ (Min(T) = Len(b) + 1 \/ b[Min(T)] \notin chars)
    BY <1>3
<1>6. \A k \in i..(Min(T) - 1) : b[k] \in chars
    <2> TAKE k \in i..(Min(T) - 1)
    <2>1. k \in i..(Len(b) + 1) /\ k # Len(b) + 1 /\ ~(Min(T) <= k)
        BY <1>1, <1>5
    <2> QED
        BY <2>1, <1>3
<1> HIDE DEF T
<1> QED
    BY <1>1, <1>4, <1>5, <1>6

LEMMA LastSpaceIs ==
    ASSUME NEW S, NEW b \in Seq(S), NEW limit \in Nat
    PROVE  LastSpace(b, limit) \in 0..Smaller(Len(b), limit)
<1> DEFINE T == {i \in 1..Smaller(Len(b), limit) : b[i] \in Whitespace}
<1>1. Len(b) \in Nat /\ Smaller(Len(b), limit) \in Nat
    BY LenProperties DEF Smaller
<1>2. CASE T = {}
    BY <1>1, <1>2 DEF LastSpace
<1>3. CASE T # {}
    <2>1. T \subseteq 0..Smaller(Len(b), limit)
        BY <1>1
    <2>2. Max(T) \in T
        BY <1>1, <1>3, <2>1, MaxIs
    <2> QED
        BY <1>3, <2>1, <2>2 DEF LastSpace
<1> QED
    BY <1>2, <1>3

\* Both limits cut at least one character off, and at most what there is.
LEMMA LimitsCut ==
    ASSUME NEW S, NEW b \in Seq(S), Len(b) > 0
    PROVE  Fallback(b) \in 1..Len(b) /\ Enforced(b) \in 1..Len(b)
<1>1. Len(b) \in Nat /\ SoftMax \in Nat /\ PhraseMax \in Nat \ {0}
    BY LenProperties, LimitsAreOrdered
<1>2. LastSpace(b, SoftMax) \in 0..Len(b) /\ LastSpace(b, PhraseMax) \in 0..Len(b)
    BY <1>1, LastSpaceIs DEF Smaller
<1>3. Smaller(Len(b), PhraseMax) \in 1..Len(b)
    BY <1>1 DEF Smaller
<1> QED
    BY <1>1, <1>2, <1>3 DEF Fallback, Enforced

\* A boundary and the closers behind it.
LEMMA BoundaryCut ==
    ASSUME NEW S, NEW b \in Seq(S), Boundaries(b) # {}
    PROVE  After(b, Min(Boundaries(b)) + 1, Closers) - 1 \in 1..Len(b)
<1>1. Len(b) \in Nat /\ PhraseMax \in Nat
    BY LenProperties, LimitsAreOrdered
<1>2. Boundaries(b) \subseteq 1..Len(b)
    BY <1>1 DEF Boundaries, Smaller
<1>3. Min(Boundaries(b)) \in 1..Len(b)
    BY <1>1, <1>2, MinIs
<1>4. Min(Boundaries(b)) + 1 \in 1..(Len(b) + 1)
    BY <1>1, <1>3
<1>5. After(b, Min(Boundaries(b)) + 1, Closers) \in (Min(Boundaries(b)) + 1)..(Len(b) + 1)
    BY <1>4, AfterIs
<1> QED
    BY <1>1, <1>3, <1>5
-----------------------------------------------------------------------------
(* Phrases and a buffer that lie in a text.                                *)

Text == Seq(Alphabet)

PlacedAt(t, n, b, ps, at) ==
    /\ \A k \in 1..(at[1] - 1) : t[k] \in Whitespace
    /\ \A i \in DOMAIN ps : Stands(t, ps[i], at[i], at[i + 1])
    /\ SubSeq(t, at[Len(ps) + 1], n) = b

LEMMA MakeUpPlaced ==
    ASSUME NEW t, NEW n, NEW b, NEW ps
    PROVE  MakeUp(t, n, b, ps) <=> \E at \in [1..(Len(ps) + 1) -> 1..(n + 1)] : PlacedAt(t, n, b, ps, at)
BY DEF MakeUp, PlacedAt

\* What is retained, as a piece of the text.
LEMMA Piece ==
    ASSUME NEW t \in Text, NEW n \in 0..Len(t), NEW s \in 1..(n + 1), NEW m \in 0..n
    PROVE  /\ SubSeq(t, s, m) \in Text
           /\ Len(SubSeq(t, s, m)) = IF s <= m THEN m - s + 1 ELSE 0
           /\ \A k \in 1..(m - s + 1) : SubSeq(t, s, m)[k] = t[s + k - 1]
<1>1. Len(t) \in Nat
    BY LenProperties DEF Text
<1>2. \A k \in s..m : k \in 1..Len(t)
    BY <1>1
<1>3. \A k \in s..m : t[k] \in Alphabet
    BY <1>2, ElementOfSeq DEF Text
<1> QED
    BY <1>1, <1>3, SubSeqProperties DEF Text

\* A piece of a piece.
LEMMA PieceOfPiece ==
    ASSUME NEW t \in Text, NEW n \in 0..Len(t), NEW s \in 1..(n + 1),
           NEW i \in 1..(n - s + 2), NEW j \in 0..(n - s + 1), i <= j + 1
    PROVE  SubSeq(SubSeq(t, s, n), i, j) = SubSeq(t, s + i - 1, s + j - 1)
<1> DEFINE b == SubSeq(t, s, n)
<1>1. Len(t) \in Nat /\ n \in Nat /\ s \in Nat /\ i \in Nat /\ j \in Nat
    BY LenProperties DEF Text
<1>2. /\ b \in Text /\ Len(b) = n - s + 1
      /\ \A k \in 1..(n - s + 1) : b[k] = t[s + k - 1]
    BY <1>1, Piece
<1>3. Len(b) \in 0..Len(b) /\ i \in 1..(Len(b) + 1) /\ j \in 0..Len(b)
    BY <1>1, <1>2
<1>4. /\ s + i - 1 \in 1..(n + 1) /\ s + j - 1 \in 0..n
      /\ (s + j - 1) - (s + i - 1) + 1 = j - i + 1
    BY <1>1
<1> HIDE DEF b
<1>5. /\ SubSeq(b, i, j) \in Text /\ Len(SubSeq(b, i, j)) = j - i + 1
      /\ \A k \in 1..(j - i + 1) : SubSeq(b, i, j)[k] = b[i + k - 1]
    <2>1. IF i <= j THEN TRUE ELSE j - i + 1 = 0
        BY <1>1
    <2> QED
        BY <1>2, <1>3, <2>1, Piece, ZenonT(40)
<1> DEFINE c == SubSeq(t, s + i - 1, s + j - 1)
<1>6. /\ c \in Text /\ Len(c) = j - i + 1
      /\ \A k \in 1..(j - i + 1) : c[k] = t[(s + i - 1) + k - 1]
    BY <1>1, <1>4, Piece
<1> HIDE DEF c
<1>7. \A k \in 1..(j - i + 1) : SubSeq(b, i, j)[k] = c[k]
    <2> TAKE k \in 1..(j - i + 1)
    <2>1. i + k - 1 \in 1..(n - s + 1) /\ s + (i + k - 1) - 1 = (s + i - 1) + k - 1
        BY <1>1
    <2> QED
        BY <1>2, <1>5, <1>6, <2>1
<1>8. SubSeq(b, i, j) = c
    BY <1>5, <1>6, <1>7, SeqEqual DEF Text
<1> QED
    BY <1>8 DEF b, c

\* More white space before the next place.
LEMMA StandsLonger ==
    ASSUME NEW t, NEW p \in Text, NEW place \in Nat, NEW next \in Nat, NEW later \in Nat,
           Stands(t, p, place, next), next <= later, \A k \in next..(later - 1) : t[k] \in Whitespace
    PROVE  Stands(t, p, place, later)
<1> DEFINE end == place + Len(p)
<1>1. end \in Nat
    BY LenProperties DEF Text
<1>2. /\ end <= next /\ SubSeq(t, place, end - 1) = p
      /\ \A k \in end..(next - 1) : t[k] \in Whitespace
    BY DEF Stands
<1> HIDE DEF end
<1>3. end <= later
    BY <1>1, <1>2
<1>4. \A k \in end..(later - 1) : k \in end..(next - 1) \/ k \in next..(later - 1)
    BY <1>1
<1>5. \A k \in end..(later - 1) : t[k] \in Whitespace
    BY <1>2, <1>4
<1> QED
    BY <1>2, <1>3, <1>5 DEF Stands, end

\* White space at the beginning of what is retained may go.
LEMMA Skip ==
    ASSUME NEW t \in Text, NEW n \in 0..Len(t), NEW b \in Text, NEW ps \in Seq(Text),
           MakeUp(t, n, b, ps), NEW j \in 1..(Len(b) + 1), \A k \in 1..(j - 1) : b[k] \in Whitespace
    PROVE  MakeUp(t, n, SubSeq(b, j, Len(b)), ps)
<1> DEFINE last == Len(ps) + 1
<1>1. PICK at \in [1..last -> 1..(n + 1)] : PlacedAt(t, n, b, ps, at)
    BY MakeUpPlaced
<1>2. Len(t) \in Nat /\ Len(b) \in Nat /\ Len(ps) \in Nat /\ DOMAIN ps = 1..Len(ps)
    BY LenProperties DEF Text
<1> DEFINE s == at[last]
           r == s + j - 1
           to == [at EXCEPT ![last] = r]
<1>3. s \in 1..(n + 1) /\ b = SubSeq(t, s, n)
    BY <1>1, <1>2 DEF PlacedAt
<1> HIDE DEF s
<1>4. Len(b) = n - s + 1 /\ \A k \in 1..(n - s + 1) : b[k] = t[s + k - 1]
    BY <1>2, <1>3, Piece
<1>5. r \in 1..(n + 1) /\ s <= r
    BY <1>2, <1>3, <1>4
<1>6. \A k \in s..(r - 1) : t[k] \in Whitespace
    <2> TAKE k \in s..(r - 1)
    <2>1. k - s + 1 \in 1..(j - 1) /\ k - s + 1 \in 1..(n - s + 1) /\ s + (k - s + 1) - 1 = k
        BY <1>2, <1>3, <1>4
    <2> QED
        BY <1>4, <2>1
<1>8. SubSeq(t, r, n) = SubSeq(b, j, Len(b))
    <2>1. /\ s \in 1..(n + 1) /\ j \in 1..(n - s + 2) /\ Len(b) \in 0..(n - s + 1) /\ j <= Len(b) + 1
          /\ s + Len(b) - 1 = n
        BY <1>2, <1>3, <1>4
    <2>2. SubSeq(SubSeq(t, s, n), j, Len(b)) = SubSeq(t, s + j - 1, s + Len(b) - 1)
        BY <2>1, PieceOfPiece
    <2> QED
        BY <1>3, <2>1, <2>2
<1> HIDE DEF r
<1>7. /\ to \in [1..last -> 1..(n + 1)] /\ to[last] = r
      /\ \A i \in 1..Len(ps) : to[i] = at[i] /\ i + 1 \in 1..last /\ (i + 1 # last => to[i + 1] = at[i + 1])
    BY <1>2, <1>5
<1> HIDE DEF to
<1>9. \A k \in 1..(to[1] - 1) : t[k] \in Whitespace
    <2>1. CASE Len(ps) = 0
        <3>1. (\A k \in 1..(s - 1) : t[k] \in Whitespace) /\ to[1] = r
            BY <1>1, <1>7, <2>1 DEF PlacedAt, s
        <3>2. \A k \in 1..(r - 1) : k \in 1..(s - 1) \/ k \in s..(r - 1)
            BY <1>3, <1>5
        <3> QED
            BY <1>6, <3>1, <3>2
    <2>2. CASE Len(ps) # 0
        <3>1. to[1] = at[1]
            BY <1>2, <1>7, <2>2
        <3> QED
            BY <1>1, <3>1 DEF PlacedAt
    <2> QED
        BY <2>1, <2>2
<1>10. ASSUME NEW i \in DOMAIN ps PROVE Stands(t, ps[i], to[i], to[i + 1])
    <2>1. Stands(t, ps[i], at[i], at[i + 1])
        BY <1>1 DEF PlacedAt
    <2>2. ps[i] \in Text /\ i \in 1..Len(ps)
        BY <1>2, ElementOfSeq
    <2>3. at[i] \in Nat /\ at[i + 1] \in Nat /\ to[i] = at[i]
        BY <1>2, <1>7, <2>2
    <2>4. CASE i + 1 # last
        BY <1>7, <2>1, <2>2, <2>3, <2>4
    <2>5. CASE i + 1 = last
        <3>1. at[i + 1] = s /\ to[i + 1] = r /\ r \in Nat
            BY <1>5, <1>7, <2>5 DEF s
        <3>2. Stands(t, ps[i], at[i], r)
            BY <1>5, <1>6, <2>1, <2>2, <2>3, <3>1, StandsLonger
        <3> QED
            BY <2>3, <3>1, <3>2
    <2> QED
        BY <2>4, <2>5
<1>11. PlacedAt(t, n, SubSeq(b, j, Len(b)), ps, to)
    BY <1>7, <1>8, <1>9, <1>10 DEF PlacedAt
<1> QED
    BY <1>7, <1>11, MakeUpPlaced

\* The beginning of what is retained becomes a phrase.
LEMMA Take ==
    ASSUME NEW t \in Text, NEW n \in 0..Len(t), NEW b \in Text, NEW ps \in Seq(Text),
           MakeUp(t, n, b, ps), NEW m \in 0..Len(b)
    PROVE  MakeUp(t, n, SubSeq(b, m + 1, Len(b)), Append(ps, SubSeq(b, 1, m)))
<1> DEFINE last == Len(ps) + 1
           p == SubSeq(b, 1, m)
           qs == Append(ps, p)
<1>1. PICK at \in [1..last -> 1..(n + 1)] : PlacedAt(t, n, b, ps, at)
    BY MakeUpPlaced
<1>2. Len(t) \in Nat /\ Len(b) \in Nat /\ Len(ps) \in Nat /\ DOMAIN ps = 1..Len(ps)
    BY LenProperties DEF Text
<1> DEFINE s == at[last]
           r == s + m
           to == [i \in 1..(last + 1) |-> IF i = last + 1 THEN r ELSE at[i]]
<1>3. s \in 1..(n + 1) /\ b = SubSeq(t, s, n)
    BY <1>1, <1>2 DEF PlacedAt
<1> HIDE DEF s
<1>4. Len(b) = n - s + 1
    BY <1>2, <1>3, Piece
<1>5. r \in 1..(n + 1) /\ s <= r
    BY <1>2, <1>3, <1>4
<1>6. p \in Text /\ Len(p) = m
    <2>1. Len(b) \in 0..Len(b) /\ 1 \in 1..(Len(b) + 1)
        BY <1>2
    <2>2. p \in Text /\ Len(p) = IF 1 <= m THEN m - 1 + 1 ELSE 0
        BY <2>1, Piece
    <2> QED
        BY <1>2, <2>2
<1>7. p = SubSeq(t, s, r - 1)
    <2>1. 1 \in 1..(n - s + 2) /\ m \in 0..(n - s + 1) /\ 1 <= m + 1 /\ s + 1 - 1 = s
        BY <1>2, <1>3, <1>4
    <2>2. SubSeq(SubSeq(t, s, n), 1, m) = SubSeq(t, s + 1 - 1, s + m - 1)
        BY <1>3, <2>1, PieceOfPiece
    <2> QED
        BY <1>3, <2>1, <2>2
<1>8. SubSeq(b, m + 1, Len(b)) = SubSeq(t, r, n)
    <2>1. /\ m + 1 \in 1..(n - s + 2) /\ Len(b) \in 0..(n - s + 1) /\ m + 1 <= Len(b) + 1
          /\ s + (m + 1) - 1 = r /\ s + Len(b) - 1 = n
        BY <1>2, <1>3, <1>4
    <2>2. SubSeq(SubSeq(t, s, n), m + 1, Len(b)) = SubSeq(t, s + (m + 1) - 1, s + Len(b) - 1)
        BY <1>3, <2>1, PieceOfPiece
    <2> QED
        BY <1>3, <2>1, <2>2
<1>9. Stands(t, p, s, r)
    <2>1. s + Len(p) = r /\ \A k \in r..(r - 1) : FALSE
        BY <1>2, <1>3, <1>5, <1>6
    <2>2. r <= r
        BY <1>5
    <2> HIDE DEF r, p
    <2> QED
        BY <1>7, <2>1, <2>2 DEF Stands
<1> HIDE DEF r, p
<1>10. /\ qs \in Seq(Text) /\ Len(qs) = last /\ DOMAIN qs = 1..last /\ qs[last] = p
       /\ \A i \in 1..Len(ps) : qs[i] = ps[i]
    BY <1>2, <1>6, AppendProperties
<1> HIDE DEF qs
<1>11. /\ to \in [1..(Len(qs) + 1) -> 1..(n + 1)] /\ to[Len(qs) + 1] = r /\ to[last] = s
       /\ \A i \in 1..last : to[i] = at[i]
    BY <1>2, <1>5, <1>10 DEF s
<1> HIDE DEF to
<1>12. \A k \in 1..(to[1] - 1) : t[k] \in Whitespace
    <2>1. to[1] = at[1]
        BY <1>2, <1>11
    <2> QED
        BY <1>1, <2>1 DEF PlacedAt
<1>13. ASSUME NEW i \in DOMAIN qs PROVE Stands(t, qs[i], to[i], to[i + 1])
    <2>1. CASE i = last
        BY <1>9, <1>10, <1>11, <2>1
    <2>2. CASE i # last
        <3>1. i \in 1..Len(ps) /\ i \in 1..last /\ i + 1 \in 1..last
            BY <1>2, <1>10, <2>2
        <3> QED
            BY <1>1, <1>2, <1>10, <1>11, <3>1 DEF PlacedAt
    <2> QED
        BY <2>1, <2>2
<1>14. PlacedAt(t, n, SubSeq(b, m + 1, Len(b)), qs, to)
    BY <1>8, <1>11, <1>12, <1>13 DEF PlacedAt
<1>15. MakeUp(t, n, SubSeq(b, m + 1, Len(b)), qs)
    BY <1>11, <1>14, MakeUpPlaced
<1> QED
    BY <1>15 DEF qs, p

\* More of the text arrives.
LEMMA More ==
    ASSUME NEW t \in Text, NEW n \in 0..Len(t), NEW b \in Text, NEW ps \in Seq(Text),
           MakeUp(t, n, b, ps), NEW m \in n..Len(t)
    PROVE  MakeUp(t, m, b \o SubSeq(t, n + 1, m), ps)
<1> DEFINE last == Len(ps) + 1
<1>1. PICK at \in [1..last -> 1..(n + 1)] : PlacedAt(t, n, b, ps, at)
    BY MakeUpPlaced
<1>2. Len(t) \in Nat /\ Len(ps) \in Nat
    BY LenProperties DEF Text
<1> DEFINE s == at[last]
<1>3. s \in 1..(n + 1) /\ b = SubSeq(t, s, n)
    BY <1>1, <1>2 DEF PlacedAt
<1>4. SubSeq(t, s, m) = b \o SubSeq(t, n + 1, m)
    <2> HIDE DEF s
    <2>1. s \in 1..(Len(t) + 1) /\ n \in (s - 1)..Len(t) /\ m \in n..Len(t)
        BY <1>2, <1>3
    <2>2. SubSeq(t, s, n) \o SubSeq(t, n + 1, m) = SubSeq(t, s, m)
        BY <2>1, ConcatAdjacentSubSeq DEF Text
    <2> QED
        BY <1>3, <2>2
<1>5. at \in [1..last -> 1..(m + 1)]
    <2>1. \A i \in 1..last : at[i] \in 1..(m + 1)
        BY <1>2
    <2> QED
        BY <2>1
<1>6. PlacedAt(t, m, b \o SubSeq(t, n + 1, m), ps, at)
    BY <1>1, <1>4 DEF PlacedAt
<1> QED
    BY <1>5, <1>6, MakeUpPlaced

-----------------------------------------------------------------------------
(* Turns of the loops.                                                     *)

Turn == [buffer : Text, any : BOOLEAN, out : Seq(Text)]

Speaking(ps) == \A i \in DOMAIN ps : ~Blank(ps[i])

\* A turn after which the phrases before this call, those of this call and what
\* is retained make up the text that was fed.
Intact(t, n, ps, e) ==
    e \in Turn /\ MakeUp(t, n, e.buffer, ps \o e.out) /\ Speaking(ps \o e.out)

LEMMA ConcatAppend ==
    ASSUME NEW S, NEW u \in Seq(S), NEW v \in Seq(S), NEW x \in S
    PROVE  u \o Append(v, x) = Append(u \o v, x)
<1>1. <<x>> \in Seq(S) /\ u \o v \in Seq(S)
    BY ConcatProperties
<1>2. (u \o v) \o <<x>> = u \o (v \o <<x>>)
    BY <1>1, ConcatAssociative
<1>3. Append(v, x) = v \o <<x>> /\ Append(u \o v, x) = (u \o v) \o <<x>>
    BY <1>1, AppendIsConcat
<1> QED
    BY <1>2, <1>3

LEMMA SpeakingAppend ==
    ASSUME NEW ps \in Seq(Text), Speaking(ps), NEW p \in Text, ~Blank(p)
    PROVE  Speaking(Append(ps, p))
<1>1. /\ Append(ps, p) \in Seq(Text) /\ Len(Append(ps, p)) = Len(ps) + 1
      /\ (\A i \in 1..Len(ps) : Append(ps, p)[i] = ps[i]) /\ Append(ps, p)[Len(ps) + 1] = p
    BY AppendProperties
<1>2. Len(ps) \in Nat /\ DOMAIN ps = 1..Len(ps) /\ DOMAIN Append(ps, p) = 1..(Len(ps) + 1)
    BY <1>1, LenProperties
<1> SUFFICES ASSUME NEW i \in 1..(Len(ps) + 1) PROVE ~Blank(Append(ps, p)[i])
    BY <1>2 DEF Speaking
<1>3. CASE i = Len(ps) + 1
    BY <1>1, <1>3
<1>4. CASE i # Len(ps) + 1
    <2>1. i \in 1..Len(ps)
        BY <1>2, <1>4
    <2> QED
        BY <1>1, <1>2, <2>1 DEF Speaking
<1> QED
    BY <1>3, <1>4

\* What is left after a phrase and the white space behind it.
LEMMA RestIs ==
    ASSUME NEW b \in Text, NEW m \in 0..Len(b)
    PROVE  /\ After(b, m + 1, Whitespace) \in (m + 1)..(Len(b) + 1)
           /\ RestAfter(b, m) = SubSeq(b, After(b, m + 1, Whitespace), Len(b))
           /\ \A k \in (m + 1)..(After(b, m + 1, Whitespace) - 1) : b[k] \in Whitespace
           /\ RestAfter(b, m) \in Text
           /\ Len(RestAfter(b, m)) = Len(b) + 1 - After(b, m + 1, Whitespace)
<1> DEFINE j == After(b, m + 1, Whitespace)
<1>1. Len(b) \in Nat /\ m + 1 \in 1..(Len(b) + 1)
    BY LenProperties DEF Text
<1>2. j \in (m + 1)..(Len(b) + 1) /\ \A k \in (m + 1)..(j - 1) : b[k] \in Whitespace
    BY <1>1, AfterIs DEF Text
<1>3. RestAfter(b, m) = SubSeq(b, j, Len(b))
    BY DEF RestAfter, From
<1> HIDE DEF j
<1>4. Len(b) \in 0..Len(b) /\ j \in 1..(Len(b) + 1)
    BY <1>1, <1>2
<1>5. SubSeq(b, j, Len(b)) \in Text /\ Len(SubSeq(b, j, Len(b))) = IF j <= Len(b) THEN Len(b) - j + 1 ELSE 0
    BY <1>4, Piece
<1>6. Len(SubSeq(b, j, Len(b))) = Len(b) + 1 - j
    BY <1>1, <1>4, <1>5
<1> QED
    BY <1>2, <1>3, <1>5, <1>6 DEF j

\* A cut takes at least one character.
LEMMA CutTurn ==
    ASSUME NEW e \in Turn, NEW m \in 1..Len(e.buffer)
    PROVE  Cut(e, m) \in Turn /\ Len(Cut(e, m).buffer) < Len(e.buffer)
<1> DEFINE b == e.buffer
           p == SubSeq(b, 1, m)
           r == RestAfter(b, m)
<1>1. b \in Text /\ e.any \in BOOLEAN /\ e.out \in Seq(Text) /\ Len(b) \in Nat
    BY LenProperties DEF Turn, Text
<1>2. m \in 0..Len(b) /\ Len(b) \in 0..Len(b) /\ 1 \in 1..(Len(b) + 1)
    BY <1>1
<1>3. After(b, m + 1, Whitespace) \in (m + 1)..(Len(b) + 1) /\ r \in Text
      /\ Len(r) = Len(b) + 1 - After(b, m + 1, Whitespace)
    BY <1>1, <1>2, RestIs
<1>4. p \in Text
    BY <1>1, <1>2, Piece
<1>5. Len(r) < Len(b)
    BY <1>1, <1>3
<1>6. Cut(e, m) = [buffer |-> r, any |-> e.any \/ ~Blank(p),
                   out |-> IF Blank(p) THEN e.out ELSE Append(e.out, p)]
    BY DEF Cut
<1> HIDE DEF p, r, b
<1>7. Append(e.out, p) \in Seq(Text)
    BY <1>1, <1>4, AppendProperties
<1>8. Cut(e, m) \in Turn
    BY <1>1, <1>3, <1>6, <1>7 DEF Turn
<1>9. Cut(e, m).buffer = r
    BY <1>6
<1> QED
    BY <1>5, <1>8, <1>9 DEF b

\* A turn of the loop takes a character, or it does nothing, and then the buffer
\* is within phrase_max.
LEMMA RoundTurn ==
    ASSUME NEW e \in Turn
    PROVE  /\ Round(e) \in Turn
           /\ \/ Len(Round(e).buffer) < Len(e.buffer)
              \/ Round(e) = e /\ Len(e.buffer) <= PhraseMax
<1> DEFINE b == e.buffer
<1>1. b \in Text /\ e.any \in BOOLEAN /\ e.out \in Seq(Text)
    BY DEF Turn
<1>2. Len(b) \in Nat /\ PhraseMax \in Nat
    BY <1>1, LenProperties, LimitsAreOrdered DEF Text
<1>3. CASE Boundaries(b) # {}
    <2> DEFINE m == After(b, Min(Boundaries(b)) + 1, Closers) - 1
    <2>1. m \in 1..Len(b)
        BY <1>1, <1>3, BoundaryCut DEF Text
    <2>2. Round(e) = Cut(e, m)
        BY <1>3 DEF Round
    <2> HIDE DEF m
    <2> QED
        BY <2>1, <2>2, CutTurn
<1>4. CASE Boundaries(b) = {} /\ Len(b) > PhraseMax
    <2>1. Fallback(b) \in 1..Len(b)
        BY <1>1, <1>2, <1>4, LimitsCut DEF Text
    <2>2. Round(e) = Cut(e, Fallback(b))
        BY <1>4 DEF Round
    <2> QED
        BY <2>1, <2>2, CutTurn
<1>5. CASE Boundaries(b) = {} /\ ~(Len(b) > PhraseMax) /\ e.any
    <2> DEFINE j == After(b, 1, Whitespace)
               r == RestAfter(b, 0)
    <2>1. Round(e) = [e EXCEPT !.buffer = r]
        BY <1>5 DEF Round
    <2>2. j \in 1..(Len(b) + 1) /\ r = SubSeq(b, j, Len(b)) /\ r \in Text /\ Len(r) = Len(b) + 1 - j
        <3>1. 0 \in 0..Len(b) /\ 0 + 1 = 1
            BY <1>2
        <3> QED
            BY <1>1, <3>1, RestIs
    <2> HIDE DEF j, r
    <2>3. Round(e) \in Turn /\ Round(e).buffer = r
        BY <1>1, <2>1, <2>2 DEF Turn
    <2>4. CASE j = 1
        <3>1. r = b
            BY <1>1, <2>2, <2>4, SubSeqFull DEF Text
        <3>2. Round(e) = e
            BY <1>1, <2>1, <3>1 DEF Turn
        <3>3. Len(b) <= PhraseMax
            BY <1>2, <1>5
        <3> QED
            BY <3>2, <3>3
    <2>5. CASE j # 1
        <3>1. Len(r) < Len(b)
            BY <1>2, <2>2, <2>5
        <3> QED
            BY <2>3, <3>1
    <2> QED
        BY <2>4, <2>5
<1>6. CASE Boundaries(b) = {} /\ ~(Len(b) > PhraseMax) /\ ~e.any
    <2>1. Round(e) = e
        BY <1>6 DEF Round
    <2>2. Len(b) <= PhraseMax
        BY <1>2, <1>6
    <2> QED
        BY <2>1, <2>2
<1> QED
    BY <1>3, <1>4, <1>5, <1>6

\* Cutting a phrase off keeps everything.
LEMMA CutIntact ==
    ASSUME NEW t \in Text, NEW n \in 0..Len(t), NEW ps \in Seq(Text), NEW e, Intact(t, n, ps, e),
           NEW m \in 1..Len(e.buffer)
    PROVE  Intact(t, n, ps, Cut(e, m))
<1> DEFINE b == e.buffer
           p == SubSeq(b, 1, m)
           j == After(b, m + 1, Whitespace)
           r == RestAfter(b, m)
           qs == ps \o e.out
<1>1. e \in Turn /\ b \in Text /\ e.any \in BOOLEAN /\ e.out \in Seq(Text) /\ qs \in Seq(Text)
    BY ConcatProperties DEF Intact, Turn
<1>2. MakeUp(t, n, b, qs) /\ Speaking(qs)
    BY DEF Intact
<1>3. Len(b) \in Nat /\ m \in 1..Len(b) /\ m \in 0..Len(b)
    BY <1>1, LenProperties DEF Text
<1>4. Cut(e, m) = [buffer |-> r, any |-> e.any \/ ~Blank(p),
                   out |-> IF Blank(p) THEN e.out ELSE Append(e.out, p)]
    BY DEF Cut
<1> HIDE DEF b, qs
<1>5. /\ j \in (m + 1)..(Len(b) + 1) /\ r = SubSeq(b, j, Len(b)) /\ r \in Text /\ Len(r) = Len(b) + 1 - j
      /\ \A k \in (m + 1)..(j - 1) : b[k] \in Whitespace
    BY <1>1, <1>3, RestIs
<1>6. p \in Text /\ Len(p) = m /\ \A k \in 1..m : p[k] = b[k]
    <2>1. Len(b) \in 0..Len(b) /\ 1 \in 1..(Len(b) + 1)
        BY <1>3
    <2>2. /\ p \in Text /\ Len(p) = IF 1 <= m THEN m - 1 + 1 ELSE 0
          /\ \A k \in 1..(m - 1 + 1) : p[k] = b[1 + k - 1]
        BY <1>1, <1>3, <2>1, Piece
    <2>3. m - 1 + 1 = m /\ 1 <= m /\ \A k \in 1..m : 1 + k - 1 = k
        BY <1>3
    <2> QED
        BY <2>2, <2>3
<1> HIDE DEF j, r, p
<1>8. CASE Blank(p)
    <2>1. \A k \in 1..m : b[k] \in Whitespace
        <3>1. DOMAIN p = 1..m
            BY <1>6, LenProperties DEF Text
        <3> QED
            BY <1>6, <1>8, <3>1 DEF Blank, Range
    <2>2. \A k \in 1..(j - 1) : k \in 1..m \/ k \in (m + 1)..(j - 1)
        BY <1>3, <1>5
    <2>3. \A k \in 1..(j - 1) : b[k] \in Whitespace
        BY <1>5, <2>1, <2>2
    <2>4. j \in 1..(Len(b) + 1)
        BY <1>3, <1>5
    <2>5. MakeUp(t, n, r, qs)
        BY <1>1, <1>2, <1>5, <2>3, <2>4, Skip
    <2>6. Cut(e, m) = [buffer |-> r, any |-> e.any \/ ~Blank(p), out |-> e.out]
        BY <1>4, <1>8
    <2>7. Cut(e, m) \in Turn
        BY <1>1, <1>5, <2>6 DEF Turn
    <2> QED
        BY <1>2, <2>5, <2>6, <2>7 DEF Intact, qs, b
<1>9. CASE ~Blank(p)
    <2>1. Cut(e, m) = [buffer |-> r, any |-> e.any \/ ~Blank(p), out |-> Append(e.out, p)]
        BY <1>4, <1>9
    <2>2. Append(e.out, p) \in Seq(Text)
        BY <1>1, <1>6, AppendProperties
    <2>3. Cut(e, m) \in Turn
        BY <1>1, <1>5, <2>1, <2>2 DEF Turn
    <2>4. ps \o Append(e.out, p) = Append(qs, p)
        BY <1>1, <1>6, ConcatAppend DEF qs
    <2>5. Speaking(Append(qs, p))
        BY <1>1, <1>2, <1>6, <1>9, SpeakingAppend
    <2> DEFINE c == SubSeq(b, m + 1, Len(b))
    <2>6. MakeUp(t, n, c, Append(qs, p))
        BY <1>1, <1>2, <1>3, Take DEF p
    <2>7. /\ c \in Text /\ Len(c) = Len(b) - m /\ \A k \in 1..(Len(b) - m) : c[k] = b[m + k]
        <3>1. Len(b) \in 0..Len(b) /\ m + 1 \in 1..(Len(b) + 1)
            BY <1>3
        <3>2. /\ c \in Text /\ Len(c) = IF m + 1 <= Len(b) THEN Len(b) - (m + 1) + 1 ELSE 0
              /\ \A k \in 1..(Len(b) - (m + 1) + 1) : c[k] = b[(m + 1) + k - 1]
            BY <1>1, <3>1, Piece
        <3>3. Len(b) - (m + 1) + 1 = Len(b) - m /\ (~(m + 1 <= Len(b)) => Len(b) - m = 0)
            BY <1>3
        <3>4. \A k \in 1..(Len(b) - m) : (m + 1) + k - 1 = m + k
            BY <1>3
        <3> QED
            BY <3>2, <3>3, <3>4
    <2>8. SubSeq(c, j - m, Len(c)) = r
        <3>1. /\ m + 1 \in 1..(Len(b) + 1) /\ Len(b) \in 0..Len(b)
              /\ j - m \in 1..(Len(b) - (m + 1) + 2) /\ Len(b) - m \in 0..(Len(b) - (m + 1) + 1)
              /\ j - m <= (Len(b) - m) + 1
              /\ (m + 1) + (j - m) - 1 = j /\ (m + 1) + (Len(b) - m) - 1 = Len(b)
            BY <1>3, <1>5
        <3>2. SubSeq(SubSeq(b, m + 1, Len(b)), j - m, Len(b) - m)
                  = SubSeq(b, (m + 1) + (j - m) - 1, (m + 1) + (Len(b) - m) - 1)
            BY <1>1, <3>1, PieceOfPiece
        <3> QED
            BY <1>5, <2>7, <3>1, <3>2
    <2> HIDE DEF c
    <2>9. \A k \in 1..((j - m) - 1) : c[k] \in Whitespace
        <3> TAKE k \in 1..((j - m) - 1)
        <3>1. k \in 1..(Len(b) - m) /\ m + k \in (m + 1)..(j - 1)
            BY <1>3, <1>5
        <3> QED
            BY <1>5, <2>7, <3>1
    <2>10. j - m \in 1..(Len(c) + 1)
        BY <1>3, <1>5, <2>7
    <2>11. Append(qs, p) \in Seq(Text)
        BY <1>1, <1>6, AppendProperties
    <2>12. MakeUp(t, n, r, Append(qs, p))
        BY <2>6, <2>7, <2>8, <2>9, <2>10, <2>11, Skip
    <2>13. Cut(e, m).buffer = r /\ Cut(e, m).out = Append(e.out, p)
        BY <2>1
    <2> QED
        BY <2>3, <2>4, <2>5, <2>12, <2>13 DEF Intact, b
<1> QED
    BY <1>8, <1>9

\* One turn of the loop keeps everything.
LEMMA RoundIntact ==
    ASSUME NEW t \in Text, NEW n \in 0..Len(t), NEW ps \in Seq(Text), NEW e, Intact(t, n, ps, e)
    PROVE  Intact(t, n, ps, Round(e))
<1> DEFINE b == e.buffer
<1>1. e \in Turn /\ b \in Text
    BY DEF Intact, Turn
<1>2. Len(b) \in Nat /\ PhraseMax \in Nat
    BY <1>1, LenProperties, LimitsAreOrdered DEF Text
<1>3. CASE Boundaries(b) # {}
    <2> DEFINE m == After(b, Min(Boundaries(b)) + 1, Closers) - 1
    <2>1. m \in 1..Len(b)
        BY <1>1, <1>3, BoundaryCut DEF Text
    <2>2. Round(e) = Cut(e, m)
        BY <1>3 DEF Round
    <2> HIDE DEF m
    <2> QED
        BY <2>1, <2>2, CutIntact
<1>4. CASE Boundaries(b) = {} /\ Len(b) > PhraseMax
    <2>1. Fallback(b) \in 1..Len(b)
        BY <1>1, <1>2, <1>4, LimitsCut DEF Text
    <2>2. Round(e) = Cut(e, Fallback(b))
        BY <1>4 DEF Round
    <2> QED
        BY <2>1, <2>2, CutIntact
<1>5. CASE Boundaries(b) = {} /\ ~(Len(b) > PhraseMax) /\ e.any
    <2> DEFINE j == After(b, 1, Whitespace)
               r == RestAfter(b, 0)
    <2>1. Round(e) = [e EXCEPT !.buffer = r]
        BY <1>5 DEF Round
    <2>2. /\ j \in 1..(Len(b) + 1) /\ r = SubSeq(b, j, Len(b)) /\ r \in Text /\ Len(r) = Len(b) + 1 - j
          /\ \A k \in 1..(j - 1) : b[k] \in Whitespace
        <3>1. 0 \in 0..Len(b) /\ 0 + 1 = 1
            BY <1>2
        <3> QED
            BY <1>1, <3>1, RestIs
    <2> HIDE DEF j, r
    <2>3. MakeUp(t, n, r, ps \o e.out)
        <3>1. ps \o e.out \in Seq(Text) /\ MakeUp(t, n, b, ps \o e.out)
            BY <1>1, ConcatProperties DEF Intact, Turn
        <3> QED
            BY <1>1, <2>2, <3>1, Skip
    <2>4. Round(e) \in Turn /\ Round(e).buffer = r /\ Round(e).out = e.out
        BY <1>1, <2>1, <2>2 DEF Turn
    <2> QED
        BY <2>3, <2>4 DEF Intact
<1>6. CASE Boundaries(b) = {} /\ ~(Len(b) > PhraseMax) /\ ~e.any
    BY <1>6 DEF Round
<1> QED
    BY <1>3, <1>4, <1>5, <1>6

-----------------------------------------------------------------------------
(* The loops.                                                              *)

\* A function can be applied to a member of its domain over and over.
Iterates(f, H, e, n) == f = [i \in 0..n |-> IF i = 0 THEN e ELSE H[f[i - 1]]]

LEMMA Iterated ==
    ASSUME NEW T, NEW H \in [T -> T], NEW e \in T, NEW n \in Nat
    PROVE  \E f \in [0..n -> T] : Iterates(f, H, e, n)
<1> DEFINE Solves(f, m) == f \in [0..m -> T] /\ f = [i \in 0..m |-> IF i = 0 THEN e ELSE H[f[i - 1]]]
           Solvable == {m \in Nat : \E f : Solves(f, m)}
<1>1. 0 \in Solvable
    <2>1. Solves([i \in 0..0 |-> e], 0)
        OBVIOUS
    <2> QED
        BY <2>1
<1>2. ASSUME NEW m \in Nat, m \in Solvable PROVE m + 1 \in Solvable
    <2>1. PICK f : Solves(f, m)
        BY <1>2
    <2> DEFINE g == [i \in 0..(m + 1) |-> IF i = m + 1 THEN H[f[m]] ELSE f[i]]
    <2>2. (\A i \in 0..m : g[i] = f[i] /\ f[i] \in T) /\ g[m + 1] = H[f[m]] /\ f[m] \in T
        BY <2>1
    <2>3. \A i \in 0..m : f[i] = IF i = 0 THEN e ELSE H[f[i - 1]]
        BY <2>1
    <2>4. g = [i \in 0..(m + 1) |-> g[i]]
        OBVIOUS
    <2> HIDE DEF g
    <2>5. \A i \in 0..(m + 1) : g[i] \in T /\ g[i] = IF i = 0 THEN e ELSE H[g[i - 1]]
        <3> TAKE i \in 0..(m + 1)
        <3>1. CASE i = m + 1
            <4>1. i # 0 /\ i - 1 = m /\ m \in 0..m
                BY <3>1
            <4>2. g[i] = H[g[i - 1]] /\ H[f[m]] \in T
                BY <2>2, <3>1, <4>1
            <4> QED
                BY <2>2, <3>1, <4>1, <4>2
        <3>2. CASE i # m + 1
            <4>1. i \in 0..m /\ (i # 0 => i - 1 \in 0..m)
                BY <3>2
            <4> QED
                BY <2>2, <2>3, <4>1
        <3> QED
            BY <3>1, <3>2
    <2>6. Solves(g, m + 1)
        <3>1. g \in [0..(m + 1) -> T]
            BY <2>4, <2>5
        <3>2. g = [i \in 0..(m + 1) |-> IF i = 0 THEN e ELSE H[g[i - 1]]]
            BY <2>4, <2>5
        <3> QED
            BY <3>1, <3>2
    <2> HIDE DEF Solves
    <2>7. \E h : Solves(h, m + 1)
        BY <2>6
    <2> QED
        BY <2>7
<1>3. n \in Solvable
    <2> HIDE DEF Solvable
    <2> QED
        BY <1>1, <1>2, SetInduction
<1> QED
    BY <1>3 DEF Iterates

\* The functions by which Extract and Enforce are defined.
Turns(e) ==
    CHOOSE turn : turn = [i \in 0..Len(e.buffer) |-> IF i = 0 THEN e ELSE Round(turn[i - 1])]

EnforceTurns(e) ==
    CHOOSE turn : turn = [i \in 0..Len(e.buffer) |-> IF i = 0 THEN e ELSE EnforceRound(turn[i - 1])]

LEMMA ExtractIs ==
    ASSUME NEW e
    PROVE  Extract(e) = Turns(e)[Len(e.buffer)] /\ Enforce(e) = EnforceTurns(e)[Len(e.buffer)]
BY DEF Extract, Turns, Enforce, EnforceTurns

LEMMA TurnsAt ==
    ASSUME NEW e \in Turn
    PROVE  \A i \in 0..Len(e.buffer) : Turns(e)[i] = IF i = 0 THEN e ELSE Round(Turns(e)[i - 1])
<1> DEFINE N == Len(e.buffer)
           H == [x \in Turn |-> Round(x)]
           Eqn(f) == f = [i \in 0..N |-> IF i = 0 THEN e ELSE Round(f[i - 1])]
<1>1. N \in Nat
    BY LenProperties DEF Turn, Text
<1>2. H \in [Turn -> Turn]
    BY RoundTurn
<1>3. \A x \in Turn : H[x] = Round(x)
    OBVIOUS
<1> HIDE DEF N, H
<1>4. PICK f \in [0..N -> Turn] : Iterates(f, H, e, N)
    BY <1>1, <1>2, Iterated
<1>5. \A i \in 0..N : f[i] = IF i = 0 THEN e ELSE Round(f[i - 1])
    <2> TAKE i \in 0..N
    <2>1. f[i] = IF i = 0 THEN e ELSE H[f[i - 1]]
        BY <1>4 DEF Iterates
    <2>2. i # 0 => f[i - 1] \in Turn
        BY <1>1, <1>4
    <2> QED
        BY <1>3, <2>1, <2>2
<1>6. Eqn(f)
    BY <1>4, <1>5 DEF Iterates
<1>7. Eqn(Turns(e))
    <2>1. Turns(e) = CHOOSE g : Eqn(g)
        BY DEF Turns, N
    <2> HIDE DEF Eqn
    <2> QED
        BY <1>6, <2>1
<1> DEFINE g == Turns(e)
<1>8. g = [i \in 0..N |-> IF i = 0 THEN e ELSE Round(g[i - 1])]
    BY <1>7
<1> HIDE DEF g
<1>9. \A i \in 0..N : g[i] = IF i = 0 THEN e ELSE Round(g[i - 1])
    BY <1>8
<1> QED
    BY <1>9 DEF g, N

\* The turns bring the loop to its end.
LEMMA ExtractEnds ==
    ASSUME NEW e \in Turn
    PROVE  Extract(e) \in Turn /\ Round(Extract(e)) = Extract(e)
<1> DEFINE N == Len(e.buffer)
           g == Turns(e)
           Left(i) == Round(g[i]) = g[i] \/ Len(g[i].buffer) <= N - i
           Good == {i \in Nat : i <= N => g[i] \in Turn /\ Left(i)}
<1>1. N \in Nat
    BY LenProperties DEF Turn, Text
<1>2. \A i \in 0..N : g[i] = IF i = 0 THEN e ELSE Round(g[i - 1])
    BY TurnsAt
<1>3. g[0] = e
    BY <1>1, <1>2
<1>4. 0 \in Good
    <2>1. Len(g[0].buffer) <= N - 0
        BY <1>1, <1>3
    <2> QED
        BY <1>3, <2>1
<1> HIDE DEF g, N
<1>5. ASSUME NEW i \in Nat, i \in Good PROVE i + 1 \in Good
    <2> SUFFICES ASSUME i + 1 <= N PROVE g[i + 1] \in Turn /\ Left(i + 1)
        BY <1>5
    <2>1. g[i] \in Turn /\ Left(i)
        BY <1>1, <1>5
    <2>2. g[i + 1] = Round(g[i])
        <3>1. i + 1 \in 0..N /\ i + 1 # 0 /\ (i + 1) - 1 = i
            BY <1>1
        <3> QED
            BY <1>2, <3>1
    <2>3. Round(g[i]) \in Turn /\ (Round(g[i]) = g[i] \/ Len(Round(g[i]).buffer) < Len(g[i].buffer))
        BY <2>1, RoundTurn
    <2>4. CASE Round(g[i]) = g[i]
        BY <2>1, <2>2, <2>4
    <2>5. CASE Round(g[i]) # g[i]
        <3>1. Len(g[i].buffer) \in Nat /\ Len(g[i + 1].buffer) \in Nat
            BY <2>1, <2>2, <2>3, LenProperties DEF Turn, Text
        <3>2. Len(g[i].buffer) <= N - i /\ Len(g[i + 1].buffer) < Len(g[i].buffer)
            BY <2>1, <2>2, <2>3, <2>5
        <3>3. Len(g[i + 1].buffer) <= N - (i + 1)
            BY <1>1, <3>1, <3>2, SMTT(30)
        <3> QED
            BY <2>2, <2>3, <3>3
    <2> QED
        BY <2>4, <2>5
<1>6. N \in Good
    <2> HIDE DEF Good
    <2> QED
        BY <1>1, <1>4, <1>5, SetInduction
<1>7. g[N] \in Turn /\ Left(N)
    BY <1>1, <1>6
<1>8. Round(g[N]) = g[N]
    <2>1. CASE Len(g[N].buffer) <= N - N
        <3>1. Len(g[N].buffer) \in Nat /\ Len(Round(g[N]).buffer) \in Nat
            BY <1>7, RoundTurn, LenProperties DEF Turn, Text
        <3>2. ~(Len(Round(g[N]).buffer) < Len(g[N].buffer))
            BY <1>1, <2>1, <3>1
        <3> QED
            BY <1>7, <3>2, RoundTurn
    <2> QED
        BY <1>7, <2>1
<1> QED
    BY <1>7, <1>8, ExtractIs DEF g, N

\* What it leaves is within phrase_max.
LEMMA ExtractShort ==
    ASSUME NEW e \in Turn
    PROVE  Extract(e) \in Turn /\ Len(Extract(e).buffer) <= PhraseMax
<1>1. Extract(e) \in Turn /\ Round(Extract(e)) = Extract(e)
    BY ExtractEnds
<1>2. Len(Extract(e).buffer) \in Nat
    BY <1>1, LenProperties DEF Turn, Text
<1> QED
    BY <1>1, <1>2, RoundTurn

\* A turn that does something can be taken first.
LEMMA ExtractUnfolds ==
    ASSUME NEW e \in Turn
    PROVE  Extract(e) = IF Round(e) = e THEN e ELSE Extract(Round(e))
<1> DEFINE N == Len(e.buffer)
           d == Round(e)
           M == Len(d.buffer)
           g == Turns(e)
           h == Turns(d)
<1>1. d \in Turn /\ N \in Nat /\ M \in Nat /\ (d = e \/ M < N)
    <2>1. d \in Turn /\ (d = e \/ M < N)
        BY RoundTurn
    <2> QED
        BY <2>1, LenProperties DEF Turn, Text
<1>2. \A i \in 0..N : g[i] = IF i = 0 THEN e ELSE Round(g[i - 1])
    BY TurnsAt
<1>3. \A i \in 0..M : h[i] = IF i = 0 THEN d ELSE Round(h[i - 1])
    BY <1>1, TurnsAt
<1>4. Round(h[M]) = h[M]
    <2>1. Extract(d) = h[M]
        BY ExtractIs
    <2> QED
        BY <1>1, <2>1, ExtractEnds
<1>5. Extract(e) = g[N] /\ Extract(d) = h[M]
    BY ExtractIs
<1>6. d = Round(e)
    OBVIOUS
<1> HIDE DEF N, M, d, g, h
<1>7. CASE d = e
    <2> DEFINE Good == {i \in Nat : i <= N => g[i] = e}
    <2>1. 0 \in Good
        BY <1>1, <1>2
    <2>2. ASSUME NEW i \in Nat, i \in Good PROVE i + 1 \in Good
        <3> SUFFICES ASSUME i + 1 <= N PROVE g[i + 1] = e
            OBVIOUS
        <3>1. g[i] = e
            BY <1>1, <2>2
        <3>2. i + 1 \in 0..N /\ i + 1 # 0 /\ (i + 1) - 1 = i
            BY <1>1
        <3> QED
            BY <1>2, <1>6, <1>7, <3>1, <3>2
    <2>3. N \in Good
        <3> HIDE DEF Good
        <3> QED
            BY <1>1, <2>1, <2>2, SetInduction
    <2>4. g[N] = e
        BY <1>1, <2>3
    <2> QED
        BY <1>5, <1>6, <1>7, <2>4
<1>8. CASE d # e
    <2> DEFINE Good == {i \in Nat : i + 1 <= N => g[i + 1] = IF i <= M THEN h[i] ELSE h[M]}
    <2>0. \A i \in Nat : i + 1 <= N => g[i + 1] = Round(g[i])
        <3> SUFFICES ASSUME NEW i \in Nat, i + 1 <= N PROVE g[i + 1] = Round(g[i])
            OBVIOUS
        <3>1. i + 1 \in 0..N /\ i + 1 # 0 /\ (i + 1) - 1 = i
            BY <1>1
        <3> QED
            BY <1>2, <3>1
    <2>1. 0 \in Good
        <3> SUFFICES ASSUME 0 + 1 <= N PROVE g[0 + 1] = h[0] /\ 0 <= M
            BY DEF Good
        <3>1. g[0] = e /\ h[0] = d /\ 0 <= M
            BY <1>1, <1>2, <1>3
        <3> QED
            BY <1>6, <2>0, <3>1
    <2>2. ASSUME NEW i \in Nat, i \in Good PROVE i + 1 \in Good
        <3> SUFFICES ASSUME (i + 1) + 1 <= N
                     PROVE  g[(i + 1) + 1] = IF i + 1 <= M THEN h[i + 1] ELSE h[M]
            OBVIOUS
        <3>1. g[i + 1] = IF i <= M THEN h[i] ELSE h[M]
            BY <1>1, <2>2
        <3>2. g[(i + 1) + 1] = Round(g[i + 1])
            BY <2>0
        <3>3. CASE i + 1 <= M
            <4>1. i + 1 \in 0..M /\ i + 1 # 0 /\ (i + 1) - 1 = i /\ i <= M
                BY <1>1, <3>3
            <4>2. h[i + 1] = Round(h[i])
                BY <1>3, <4>1
            <4> QED
                BY <3>1, <3>2, <3>3, <4>1, <4>2
        <3>4. CASE ~(i + 1 <= M)
            <4>1. i <= M => i = M
                BY <1>1, <3>4
            <4>2. g[i + 1] = h[M]
                BY <3>1, <4>1
            <4> QED
                BY <1>4, <3>2, <3>4, <4>2
        <3> QED
            BY <3>3, <3>4
    <2>3. N - 1 \in Nat /\ (N - 1) + 1 = N /\ (N - 1 <= M => N - 1 = M)
        BY <1>1, <1>8
    <2>4. N - 1 \in Good
        <3> HIDE DEF Good
        <3> QED
            BY <2>1, <2>2, <2>3, SetInduction
    <2>5. g[N] = h[M]
        <3>1. g[(N - 1) + 1] = IF N - 1 <= M THEN h[N - 1] ELSE h[M]
            BY <2>3, <2>4
        <3> QED
            BY <2>3, <3>1
    <2> QED
        BY <1>5, <1>6, <1>8, <2>5
<1> QED
    BY <1>7, <1>8

\* _extract_phrases keeps everything, and leaves at most phrase_max characters.
LEMMA ExtractIntact ==
    ASSUME NEW t \in Text, NEW n \in 0..Len(t), NEW ps \in Seq(Text), NEW e, Intact(t, n, ps, e)
    PROVE  Intact(t, n, ps, Extract(e)) /\ Len(Extract(e).buffer) <= PhraseMax
<1> DEFINE N == Len(e.buffer)
           g == Turns(e)
           Good == {i \in Nat : i <= N => Intact(t, n, ps, g[i])}
<1>1. e \in Turn /\ N \in Nat
    BY LenProperties DEF Intact, Turn, Text
<1>2. \A i \in 0..N : g[i] = IF i = 0 THEN e ELSE Round(g[i - 1])
    BY <1>1, TurnsAt
<1>3. Extract(e) = g[N]
    BY ExtractIs
<1> HIDE DEF g, N
<1>4. 0 \in Good
    BY <1>1, <1>2
<1>5. ASSUME NEW i \in Nat, i \in Good PROVE i + 1 \in Good
    <2> SUFFICES ASSUME i + 1 <= N PROVE Intact(t, n, ps, g[i + 1])
        OBVIOUS
    <2>1. Intact(t, n, ps, g[i])
        BY <1>1, <1>5
    <2>2. i + 1 \in 0..N /\ i + 1 # 0 /\ (i + 1) - 1 = i
        BY <1>1
    <2>3. g[i + 1] = Round(g[i])
        BY <1>2, <2>2
    <2> QED
        BY <2>1, <2>3, RoundIntact
<1>6. N \in Good
    <2> HIDE DEF Good
    <2> QED
        BY <1>1, <1>4, <1>5, SetInduction
<1>7. Intact(t, n, ps, g[N])
    BY <1>1, <1>6
<1>8. Len(Extract(e).buffer) <= PhraseMax
    BY <1>1, ExtractShort
<1> QED
    BY <1>3, <1>7, <1>8

\* Within phrase_max, the loop that enforces retained_max has nothing to do.
LEMMA EnforceIdle ==
    ASSUME NEW e, e.buffer \in Text, Len(e.buffer) <= PhraseMax
    PROVE  Enforce(e) = e
<1> DEFINE N == Len(e.buffer)
           g == EnforceTurns(e)
           Eqn(f) == f = [i \in 0..N |-> IF i = 0 THEN e ELSE EnforceRound(f[i - 1])]
           Good == {i \in Nat : i <= N => g[i] = e}
<1>1. N \in Nat /\ ~(N > RetainedMax)
    BY LenProperties, LimitsAreOrdered DEF Text
<1>2. EnforceRound(e) = e
    BY <1>1 DEF EnforceRound
<1>3. Eqn([i \in 0..N |-> e])
    <2> DEFINE f == [i \in 0..N |-> e]
    <2>1. \A i \in 0..N : i # 0 => i - 1 \in 0..N
        BY <1>1
    <2>2. \A i \in 0..N : f[i] = e
        OBVIOUS
    <2> HIDE DEF N, f
    <2>3. \A i \in 0..N : (IF i = 0 THEN e ELSE EnforceRound(f[i - 1])) = e
        BY <1>2, <2>1, <2>2
    <2>4. [i \in 0..N |-> IF i = 0 THEN e ELSE EnforceRound(f[i - 1])] = [i \in 0..N |-> e]
        BY <2>3
    <2> QED
        BY <2>4 DEF f
<1>4. Eqn(g)
    <2>1. g = CHOOSE f : Eqn(f)
        BY DEF EnforceTurns
    <2> HIDE DEF Eqn, g
    <2> QED
        BY <1>3, <2>1
<1> HIDE DEF g, N
<1>5. \A i \in 0..N : g[i] = IF i = 0 THEN e ELSE EnforceRound(g[i - 1])
    BY <1>4
<1>6. 0 \in Good
    BY <1>1, <1>5
<1>7. ASSUME NEW i \in Nat, i \in Good PROVE i + 1 \in Good
    <2> SUFFICES ASSUME i + 1 <= N PROVE g[i + 1] = e
        OBVIOUS
    <2>1. g[i] = e
        BY <1>1, <1>7
    <2>2. i + 1 \in 0..N /\ i + 1 # 0 /\ (i + 1) - 1 = i
        BY <1>1
    <2> QED
        BY <1>2, <1>5, <2>1, <2>2
<1>8. N \in Good
    <2> HIDE DEF Good
    <2> QED
        BY <1>1, <1>6, <1>7, SetInduction
<1>9. g[N] = e
    BY <1>1, <1>8
<1> QED
    BY <1>9, ExtractIs DEF g, N

-----------------------------------------------------------------------------
(* More text does not change what was decided.                             *)

\* What After returns is determined by where the characters of the set end.
LEMMA AfterOnly ==
    ASSUME NEW b \in Text, NEW i \in 1..(Len(b) + 1), NEW chars, NEW j \in i..(Len(b) + 1),
           \A k \in i..(j - 1) : b[k] \in chars, j <= Len(b) => b[j] \notin chars
    PROVE  After(b, i, chars) = j
<1> DEFINE a == After(b, i, chars)
<1>1. /\ a \in i..(Len(b) + 1) /\ (\A k \in i..(a - 1) : b[k] \in chars)
      /\ (a <= Len(b) => b[a] \notin chars)
    BY AfterIs DEF Text
<1> HIDE DEF a
<1>2. Len(b) \in Nat
    BY LenProperties DEF Text
<1>3. ASSUME a < j PROVE FALSE
    <2>1. a \in i..(j - 1) /\ a <= Len(b)
        BY <1>1, <1>2, <1>3
    <2> QED
        BY <1>1, <2>1
<1>4. ASSUME j < a PROVE FALSE
    <2>1. j \in i..(a - 1) /\ j <= Len(b)
        BY <1>1, <1>2, <1>4
    <2> QED
        BY <1>1, <2>1
<1>5. a = j
    BY <1>1, <1>2, <1>3, <1>4
<1> QED
    BY <1>5 DEF a

LEMMA AfterHere ==
    ASSUME NEW b \in Text, NEW i \in 1..(Len(b) + 1), NEW chars, i <= Len(b) => b[i] \notin chars
    PROVE  After(b, i, chars) = i
<1>1. Len(b) \in Nat
    BY LenProperties DEF Text
<1>2. i \in i..(Len(b) + 1) /\ \A k \in i..(i - 1) : b[k] \in chars
    BY <1>1
<1> QED
    BY <1>2, AfterOnly

\* A text and what it becomes with more.
LEMMA Longer ==
    ASSUME NEW b \in Text, NEW c \in Text
    PROVE  /\ b \o c \in Text /\ Len(b) \in Nat /\ Len(c) \in Nat /\ Len(b \o c) = Len(b) + Len(c)
           /\ \A k \in 1..Len(b) : (b \o c)[k] = b[k]
<1>1. Len(b) \in Nat /\ Len(c) \in Nat
    BY LenProperties DEF Text
<1>2. /\ b \o c \in Text /\ Len(b \o c) = Len(b) + Len(c)
      /\ \A k \in 1..(Len(b) + Len(c)) : (b \o c)[k] = IF k <= Len(b) THEN b[k] ELSE c[k - Len(b)]
    BY ConcatProperties DEF Text
<1>3. \A k \in 1..Len(b) : k \in 1..(Len(b) + Len(c)) /\ k <= Len(b)
    BY <1>1
<1> QED
    BY <1>1, <1>2, <1>3

LEMMA LongerThan ==
    ASSUME NEW b \in Text, NEW c \in Text
    PROVE  /\ b \o c \in Text /\ Len(b) \in Nat /\ Len(b \o c) \in Nat /\ Len(b) <= Len(b \o c)
           /\ \A k \in 1..Len(b) : (b \o c)[k] = b[k]
<1>1. /\ b \o c \in Text /\ Len(b) \in Nat /\ Len(c) \in Nat /\ Len(b \o c) = Len(b) + Len(c)
      /\ \A k \in 1..Len(b) : (b \o c)[k] = b[k]
    BY Longer
<1>2. Len(b) + Len(c) \in Nat /\ Len(b) <= Len(b) + Len(c)
    BY <1>1
<1> QED
    BY <1>1, <1>2

\* A position found within the text stays where it is.
LEMMA AfterSame ==
    ASSUME NEW b \in Text, NEW c \in Text, NEW i \in 1..(Len(b) + 1), NEW chars,
           After(b, i, chars) <= Len(b)
    PROVE  After(b \o c, i, chars) = After(b, i, chars)
<1> DEFINE j == After(b, i, chars)
           d == b \o c
<1>1. j \in i..(Len(b) + 1) /\ (\A k \in i..(j - 1) : b[k] \in chars) /\ b[j] \notin chars
    BY AfterIs DEF Text
<1>2. /\ d \in Text /\ Len(b) \in Nat /\ Len(d) \in Nat /\ Len(b) <= Len(d)
      /\ \A k \in 1..Len(b) : d[k] = b[k]
    BY LongerThan
<1>3. j <= Len(b)
    OBVIOUS
<1> HIDE DEF j, d
<1>4. i \in 1..(Len(d) + 1) /\ j \in i..(Len(d) + 1) /\ j \in 1..Len(b)
    BY <1>1, <1>2, <1>3
<1>5. \A k \in i..(j - 1) : d[k] \in chars
    <2> TAKE k \in i..(j - 1)
    <2>1. k \in 1..Len(b)
        BY <1>2, <1>3, <1>4
    <2> QED
        BY <1>1, <1>2, <2>1
<1>6. d[j] \notin chars
    BY <1>1, <1>2, <1>4
<1>7. After(d, i, chars) = j
    BY <1>2, <1>4, <1>5, <1>6, AfterOnly
<1> QED
    BY <1>7 DEF j, d

\* A smaller set of characters ends no later.
LEMMA AfterFewer ==
    ASSUME NEW b \in Text, NEW i \in 1..(Len(b) + 1), NEW chars, NEW more, NEW n \in i..(Len(b) + 1),
           chars \subseteq more, n <= After(b, i, more)
    PROVE  After(b, n, chars) <= After(b, i, more)
<1> DEFINE a == After(b, n, chars)
           j == After(b, i, more)
<1>1. Len(b) \in Nat /\ n \in 1..(Len(b) + 1)
    BY LenProperties DEF Text
<1>2. a \in n..(Len(b) + 1) /\ \A k \in n..(a - 1) : b[k] \in chars
    BY <1>1, AfterIs DEF Text
<1>3. j \in i..(Len(b) + 1) /\ (j <= Len(b) => b[j] \notin more)
    BY AfterIs DEF Text
<1>4. n <= j
    OBVIOUS
<1> HIDE DEF a, j
<1>5. ASSUME j < a PROVE FALSE
    <2>1. j \in n..(a - 1) /\ j <= Len(b)
        BY <1>1, <1>2, <1>3, <1>4, <1>5
    <2>2. b[j] \in chars
        BY <1>2, <2>1
    <2> QED
        BY <1>3, <2>1, <2>2
<1>6. a <= j
    BY <1>1, <1>2, <1>3, <1>5
<1> QED
    BY <1>6 DEF a, j

\* A piece within the text is that piece of what it becomes.
LEMMA PieceSame ==
    ASSUME NEW b \in Text, NEW c \in Text, NEW i \in 1..(Len(b) + 1), NEW j \in 0..Len(b)
    PROVE  SubSeq(b \o c, i, j) = SubSeq(b, i, j)
<1> DEFINE d == b \o c
<1>1. /\ d \in Text /\ Len(b) \in Nat /\ Len(d) \in Nat /\ Len(b) <= Len(d)
      /\ \A k \in 1..Len(b) : d[k] = b[k]
    BY LongerThan
<1> HIDE DEF d
<1>2. /\ Len(b) \in 0..Len(b) /\ Len(d) \in 0..Len(d)
      /\ i \in 1..(Len(d) + 1) /\ j \in 0..Len(d)
    BY <1>1
<1>3. /\ SubSeq(b, i, j) \in Text /\ Len(SubSeq(b, i, j)) = IF i <= j THEN j - i + 1 ELSE 0
      /\ \A k \in 1..(j - i + 1) : SubSeq(b, i, j)[k] = b[i + k - 1]
    BY <1>2, Piece
<1>4. /\ SubSeq(d, i, j) \in Text /\ Len(SubSeq(d, i, j)) = IF i <= j THEN j - i + 1 ELSE 0
      /\ \A k \in 1..(j - i + 1) : SubSeq(d, i, j)[k] = d[i + k - 1]
    BY <1>1, <1>2, Piece
<1>5. \A k \in 1..(j - i + 1) : i + k - 1 \in 1..Len(b)
    BY <1>1
<1>6. \A k \in 1..Len(SubSeq(d, i, j)) : k \in 1..(j - i + 1)
    BY <1>1, <1>4
<1>7. \A k \in 1..Len(SubSeq(d, i, j)) : SubSeq(d, i, j)[k] = SubSeq(b, i, j)[k]
    BY <1>1, <1>3, <1>4, <1>5, <1>6
<1>8. SubSeq(d, i, j) = SubSeq(b, i, j)
    BY <1>3, <1>4, <1>7, SeqEqual DEF Text
<1> QED
    BY <1>8 DEF d

\* Where a character is can be told by the character: a mark and a period are
\* neither white space nor closers.
LEMMA Classes ==
    /\ \A x \in Marks \cup {"."} : x \notin Whitespace \cup Closers
    /\ "." \notin Marks
BY DEF Marks, Whitespace, Closers

LEMMA WordSame ==
    ASSUME NEW b \in Text, NEW c \in Text, NEW i \in 1..Len(b)
    PROVE  WordBefore(b \o c, i) = WordBefore(b, i)
<1> DEFINE d == b \o c
           S(t) == {s \in 1..i : \A k \in s..(i - 1) : t[k] \in Letters}
<1>1. /\ d \in Text /\ Len(b) \in Nat /\ Len(d) \in Nat /\ Len(b) <= Len(d)
      /\ \A k \in 1..Len(b) : d[k] = b[k]
    BY LongerThan
<1>2. S(d) = S(b)
    <2> HIDE DEF d
    <2>1. \A s \in 1..i : \A k \in s..(i - 1) : k \in 1..Len(b)
        BY <1>1
    <2> QED
        BY <1>1, <2>1
<1>3. Min(S(b)) \in 1..i
    <2>1. S(b) \subseteq Nat /\ i \in S(b)
        BY <1>1
    <2>2. Min(S(b)) \in S(b)
        BY <2>1, MinIs
    <2> QED
        BY <2>2
<1>4. WordBefore(b, i) = SubSeq(b, Min(S(b)), i - 1) /\ WordBefore(d, i) = SubSeq(d, Min(S(d)), i - 1)
    BY DEF WordBefore
<1> HIDE DEF S, d
<1>5. Min(S(b)) \in 1..(Len(b) + 1) /\ i - 1 \in 0..Len(b)
    BY <1>1, <1>3
<1>6. SubSeq(d, Min(S(b)), i - 1) = SubSeq(b, Min(S(b)), i - 1)
    BY <1>5, PieceSame DEF d
<1> QED
    BY <1>2, <1>4, <1>6 DEF d

\* A period that can be judged is judged the same with more text.
LEMMA VerdictSame ==
    ASSUME NEW b \in Text, NEW c \in Text, NEW i \in 1..Len(b), CanResolve(b, i)
    PROVE  CanResolve(b \o c, i) /\ (Terminator(b \o c, i) <=> Terminator(b, i))
<1> DEFINE d == b \o c
           more == Whitespace \cup Closers
           j == After(b, i + 1, more)
<1>1. /\ d \in Text /\ Len(b) \in Nat /\ Len(d) \in Nat /\ Len(b) <= Len(d)
      /\ \A k \in 1..Len(b) : d[k] = b[k]
    BY LongerThan
<1>2. i + 1 \in 1..(Len(b) + 1)
    BY <1>1
<1>3. j \in (i + 1)..(Len(b) + 1) /\ j <= Len(b)
    BY <1>2, AfterIs DEF CanResolve, Text
<1>4. After(d, i + 1, more) = j
    BY <1>2, <1>3, AfterSame
<1>5. i + 1 \in 1..Len(b) /\ i \in 1..Len(b) /\ d[i] = b[i] /\ d[i + 1] = b[i + 1]
    BY <1>1, <1>2, <1>3
<1>6. WordBefore(d, i) = WordBefore(b, i)
    BY WordSame
<1>7. DOMAIN b = 1..Len(b) /\ DOMAIN d = 1..Len(d)
    BY <1>1, LenProperties DEF Text
<1> HIDE DEF d, j, more
<1>8. CanResolve(b, i) /\ CanResolve(d, i)
    <2>1. j <= Len(d)
        BY <1>1, <1>3
    <2> QED
        BY <1>4, <2>1 DEF CanResolve, more
<1>9. Decimal(d, i) <=> Decimal(b, i)
    <2>1. i \in 2..(Len(b) - 1) <=> i >= 2
        BY <1>1, <1>5
    <2>2. i \in 2..(Len(d) - 1) <=> i >= 2
        BY <1>1, <1>5
    <2>3. i >= 2 => d[i - 1] = b[i - 1]
        BY <1>1, <1>5
    <2> QED
        BY <1>5, <2>1, <2>2, <2>3 DEF Decimal
<1>10. Ellipsis(d, i) <=> Ellipsis(b, i)
    <2>1. \A k \in {i - 1, i + 1} : (k \in DOMAIN b <=> k >= 1) /\ (k \in DOMAIN d <=> k >= 1)
        BY <1>1, <1>5, <1>7
    <2>2. \A k \in {i - 1, i + 1} : k >= 1 => d[k] = b[k]
        BY <1>1, <1>5
    <2> QED
        BY <2>1, <2>2 DEF Ellipsis
<1>11. Abbreviation(d, i) <=> Abbreviation(b, i)
    <2>1. d[j] = b[j] /\ j <= Len(d)
        BY <1>1, <1>3, <1>5
    <2>2. Abbreviation(b, i) <=> WordBefore(b, i) \in Abbreviations /\ j <= Len(b) /\ b[j] \in Letters
        BY DEF Abbreviation, j, more
    <2>3. Abbreviation(d, i) <=> WordBefore(d, i) \in Abbreviations /\ j <= Len(d) /\ d[j] \in Letters
        BY <1>4 DEF Abbreviation, more
    <2> QED
        BY <1>3, <1>6, <2>1, <2>2, <2>3
<1>12. Terminator(d, i) <=> Terminator(b, i)
    BY <1>5, <1>8, <1>9, <1>10, <1>11 DEF Terminator
<1> QED
    BY <1>8, <1>12 DEF d

\* No closer and no white space behind a mark.
Plain(b) == \A i \in 1..(Len(b) - 1) : b[i] \in Marks => b[i + 1] \notin Closers \cup Whitespace

\* The first boundary of a text is its first boundary with more text.
LEMMA BoundarySame ==
    ASSUME NEW b \in Text, NEW c \in Text, Len(b \o c) <= PhraseMax, Boundaries(b) # {}
    PROVE  /\ Min(Boundaries(b)) \in 1..Len(b) /\ Terminator(b, Min(Boundaries(b)))
           /\ Boundaries(b \o c) # {} /\ Min(Boundaries(b \o c)) = Min(Boundaries(b))
<1> DEFINE d == b \o c
           B == Boundaries(b)
           D == Boundaries(d)
           i == Min(B)
           more == Whitespace \cup Closers
<1>1. /\ d \in Text /\ Len(b) \in Nat /\ Len(d) \in Nat /\ Len(b) <= Len(d)
      /\ \A k \in 1..Len(b) : d[k] = b[k]
    BY LongerThan
<1>2. PhraseMax \in Nat /\ Len(b) <= PhraseMax /\ Len(d) <= PhraseMax
    BY <1>1, LimitsAreOrdered
<1>3. /\ \A k : k \in B <=> k \in 1..Len(b) /\ Terminator(b, k)
      /\ \A k : k \in D <=> k \in 1..Len(d) /\ Terminator(d, k)
    <2>1. Smaller(Len(b), PhraseMax) = Len(b) /\ Smaller(Len(d), PhraseMax) = Len(d)
        BY <1>1, <1>2 DEF Smaller
    <2> HIDE DEF d
    <2> QED
        BY <2>1 DEF Boundaries
<1>4. i \in B /\ \A k \in B : i <= k
    <2>1. B \subseteq Nat /\ B # {}
        BY <1>1, <1>3
    <2> QED
        BY <2>1, MinIs
<1>5. i \in 1..Len(b) /\ Terminator(b, i) /\ d[i] = b[i]
    BY <1>1, <1>3, <1>4
<1>6. \A k \in 1..Len(b) : b[k] \in Marks => Terminator(b, k) /\ Terminator(d, k)
    BY <1>1 DEF Terminator
<1>7. \A k \in 1..Len(b) : CanResolve(b, k) => (Terminator(d, k) <=> Terminator(b, k))
    BY VerdictSame
<1>8. b[i] \in Marks \cup {"."} /\ (b[i] \notin Marks => CanResolve(b, i))
    BY <1>5 DEF Terminator
<1> HIDE DEF B, D, d, i
<1>9. i \in D
    <2>1. Terminator(d, i)
        BY <1>5, <1>6, <1>7, <1>8
    <2>2. i \in 1..Len(d)
        BY <1>1, <1>5
    <2> QED
        BY <1>3, <2>1, <2>2
<1>10. ASSUME NEW k \in D, k < i PROVE FALSE
    <2>1. k \in 1..Len(b) /\ Terminator(d, k) /\ k + 1 \in 1..(Len(b) + 1) /\ i \in (k + 1)..Len(b)
        BY <1>1, <1>3, <1>5, <1>10
    <2>2. CASE b[k] \in Marks
        <3>1. k \in B
            BY <1>3, <1>6, <2>1, <2>2
        <3> QED
            BY <1>1, <1>4, <1>5, <1>10, <2>1, <3>1
    <2>3. CASE b[k] \notin Marks
        <3> DEFINE j == After(b, k + 1, more)
        <3>1. j \in (k + 1)..(Len(b) + 1) /\ \A l \in (k + 1)..(j - 1) : b[l] \in more
            BY <2>1, AfterIs DEF Text
        <3> HIDE DEF j
        <3>2. b[i] \notin more
            BY <1>8, Classes
        <3>3. i \notin (k + 1)..(j - 1)
            BY <3>1, <3>2
        <3>4. j <= Len(b)
            BY <1>1, <2>1, <3>1, <3>3
        <3>5. CanResolve(b, k)
            BY <3>4 DEF CanResolve, j
        <3>6. k \in B
            BY <1>3, <1>7, <2>1, <3>5
        <3> QED
            BY <1>1, <1>4, <1>5, <1>10, <2>1, <3>6
    <2> QED
        BY <2>2, <2>3
<1>11. D \subseteq Nat /\ D # {}
    BY <1>1, <1>3, <1>9
<1>12. Min(D) \in D /\ Min(D) <= i
    BY <1>9, <1>11, MinIs
<1>13. Min(D) = i
    <2>1. Min(D) \in Nat /\ ~(Min(D) < i)
        BY <1>10, <1>11, <1>12
    <2>2. i \in Nat
        BY <1>1, <1>5
    <2> QED
        BY <1>12, <2>1, <2>2
<1> QED
    BY <1>5, <1>11, <1>13 DEF B, D, d, i

\* So is the end of the phrase, and that of the white space behind it.
LEMMA EndSame ==
    ASSUME NEW b \in Text, NEW c \in Text, Plain(b \o c), NEW i \in 1..Len(b), Terminator(b, i),
           NEW n, n = After(b, i + 1, Closers) - 1
    PROVE  /\ n \in 1..Len(b) /\ After(b \o c, i + 1, Closers) - 1 = n
           /\ After(b \o c, n + 1, Whitespace) = After(b, n + 1, Whitespace)
<1> DEFINE d == b \o c
           more == Whitespace \cup Closers
<1>1. /\ d \in Text /\ Len(b) \in Nat /\ Len(d) \in Nat /\ Len(b) <= Len(d)
      /\ \A k \in 1..Len(b) : d[k] = b[k]
    BY LongerThan
<1>2. i + 1 \in 1..(Len(b) + 1) /\ i + 1 \in 1..(Len(d) + 1) /\ i \in Nat
    BY <1>1
<1>3. CASE b[i] \in Marks
    <2>1. i + 1 <= Len(d) => d[i + 1] \notin Closers /\ d[i + 1] \notin Whitespace
        <3> SUFFICES ASSUME i + 1 <= Len(d) PROVE d[i + 1] \notin Closers \cup Whitespace
            OBVIOUS
        <3>1. i \in 1..(Len(d) - 1) /\ d[i] \in Marks
            BY <1>1, <1>2, <1>3
        <3> QED
            BY <3>1 DEF Plain
    <2>2. i + 1 <= Len(b) => b[i + 1] \notin Closers /\ b[i + 1] \notin Whitespace
        <3> SUFFICES ASSUME i + 1 <= Len(b) PROVE b[i + 1] \notin Closers /\ b[i + 1] \notin Whitespace
            OBVIOUS
        <3>1. i + 1 \in 1..Len(b) /\ i + 1 <= Len(d)
            BY <1>1, <1>2
        <3> QED
            BY <1>1, <2>1, <3>1
    <2> HIDE DEF d
    <2>4. /\ After(b, i + 1, Closers) = i + 1 /\ After(d, i + 1, Closers) = i + 1
          /\ After(b, i + 1, Whitespace) = i + 1 /\ After(d, i + 1, Whitespace) = i + 1
        <3>1. After(b, i + 1, Closers) = i + 1 /\ After(b, i + 1, Whitespace) = i + 1
            BY <1>2, <2>2, AfterHere
        <3>2. After(d, i + 1, Closers) = i + 1 /\ After(d, i + 1, Whitespace) = i + 1
            BY <1>1, <1>2, <2>1, AfterHere
        <3> QED
            BY <3>1, <3>2
    <2>5. n = i /\ i + 1 - 1 = i
        BY <1>2, <2>4
    <2> QED
        BY <2>4, <2>5 DEF d
<1>4. CASE b[i] \notin Marks
    <2> DEFINE j == After(b, i + 1, more)
               a == After(b, i + 1, Closers)
    <2>1. j <= Len(b)
        BY <1>4 DEF Terminator, CanResolve
    <2>2. j \in (i + 1)..(Len(b) + 1) /\ a \in (i + 1)..(Len(b) + 1)
        BY <1>2, AfterIs DEF Text
    <2>3. a <= j
        <3>1. i + 1 \in (i + 1)..(Len(b) + 1) /\ Closers \subseteq more /\ i + 1 <= j
            BY <1>1, <1>2, <2>2
        <3> QED
            BY <1>2, <3>1, AfterFewer
    <2>4. a <= Len(b)
        BY <1>1, <2>1, <2>2, <2>3
    <2>5. After(d, i + 1, Closers) = a
        BY <1>2, <2>4, AfterSame
    <2> HIDE DEF a
    <2>6. n = a - 1 /\ n + 1 = a /\ n \in 1..Len(b) /\ n + 1 \in (i + 1)..(Len(b) + 1)
          /\ n + 1 \in 1..(Len(b) + 1)
        BY <1>1, <1>2, <2>2, <2>4 DEF a
    <2>7. After(b, n + 1, Whitespace) <= j
        <3>1. Whitespace \subseteq more /\ n + 1 <= j
            BY <2>3, <2>6
        <3> QED
            BY <1>2, <2>6, <3>1, AfterFewer
    <2>8. After(b, n + 1, Whitespace) <= Len(b)
        <3>1. After(b, n + 1, Whitespace) \in (n + 1)..(Len(b) + 1)
            BY <2>6, AfterIs DEF Text
        <3> HIDE DEF j
        <3> QED
            BY <1>1, <2>1, <2>2, <2>6, <2>7, <3>1
    <2>9. After(d, n + 1, Whitespace) = After(b, n + 1, Whitespace)
        BY <2>6, <2>8, AfterSame
    <2> QED
        BY <2>5, <2>6, <2>9
<1> QED
    BY <1>3, <1>4

\* A turn with more text behind what is retained.
With(e, c) == [buffer |-> e.buffer \o c, any |-> e.any, out |-> e.out]

LEMMA WithTurn ==
    ASSUME NEW e \in Turn, NEW c \in Text
    PROVE  With(e, c) \in Turn
<1>1. e.buffer \in Text /\ e.any \in BOOLEAN /\ e.out \in Seq(Text)
    BY DEF Turn
<1>2. e.buffer \o c \in Text
    BY <1>1, Longer
<1> QED
    BY <1>1, <1>2 DEF With, Turn

\* What is left of the longer text is what was left, and more.
LEMMA RestSame ==
    ASSUME NEW b \in Text, NEW c \in Text, NEW n \in 1..Len(b),
           After(b \o c, n + 1, Whitespace) = After(b, n + 1, Whitespace)
    PROVE  RestAfter(b \o c, n) = RestAfter(b, n) \o c /\ SubSeq(b \o c, 1, n) = SubSeq(b, 1, n)
<1> DEFINE d == b \o c
           j == After(b, n + 1, Whitespace)
<1>1. d \in Text /\ Len(b) \in Nat /\ Len(c) \in Nat /\ Len(d) = Len(b) + Len(c)
    BY Longer
<1>2. n \in 0..Len(b) /\ 1 \in 1..(Len(b) + 1) /\ n + 1 \in 1..(Len(b) + 1)
    BY <1>1
<1>3. RestAfter(b, n) = SubSeq(b, j, Len(b)) /\ RestAfter(d, n) = SubSeq(d, j, Len(d))
    BY DEF RestAfter, From
<1>4. j \in (n + 1)..(Len(b) + 1)
    BY <1>2, RestIs
<1> HIDE DEF j
<1>5. SubSeq(d, j, Len(b)) = SubSeq(b, j, Len(b))
    <2>1. j \in 1..(Len(b) + 1) /\ Len(b) \in 0..Len(b)
        BY <1>1, <1>4
    <2> QED
        BY <2>1, PieceSame
<1>6. SubSeq(d, Len(b) + 1, Len(d)) = c
    <2> DEFINE s == SubSeq(d, Len(b) + 1, Len(d))
    <2>1. Len(d) \in 0..Len(d) /\ Len(b) + 1 \in 1..(Len(d) + 1)
        BY <1>1
    <2>2. /\ s \in Text /\ Len(s) = IF Len(b) + 1 <= Len(d) THEN Len(d) - (Len(b) + 1) + 1 ELSE 0
          /\ \A k \in 1..(Len(d) - (Len(b) + 1) + 1) : s[k] = d[(Len(b) + 1) + k - 1]
        BY <1>1, <2>1, Piece
    <2>3. \A k \in 1..(Len(b) + Len(c)) : d[k] = IF k <= Len(b) THEN b[k] ELSE c[k - Len(b)]
        BY ConcatProperties DEF Text
    <2> HIDE DEF s, d
    <2>4. Len(s) = Len(c)
        BY <1>1, <2>2
    <2>5. \A k \in 1..Len(c) : s[k] = c[k]
        <3> TAKE k \in 1..Len(c)
        <3>1. /\ k \in 1..(Len(d) - (Len(b) + 1) + 1) /\ (Len(b) + 1) + k - 1 = Len(b) + k
              /\ Len(b) + k \in 1..(Len(b) + Len(c)) /\ ~(Len(b) + k <= Len(b))
              /\ (Len(b) + k) - Len(b) = k
            BY <1>1
        <3> QED
            BY <2>2, <2>3, <3>1
    <2>6. s = c
        BY <2>2, <2>4, <2>5, SeqEqual DEF Text
    <2> QED
        BY <2>6 DEF s
<1>7. SubSeq(d, j, Len(b)) \o SubSeq(d, Len(b) + 1, Len(d)) = SubSeq(d, j, Len(d))
    <2> HIDE DEF d
    <2>1. j \in 1..(Len(d) + 1) /\ Len(b) \in (j - 1)..Len(d) /\ Len(d) \in Len(b)..Len(d)
        BY <1>1, <1>2, <1>4
    <2> QED
        BY <1>1, <2>1, ConcatAdjacentSubSeq DEF Text
<1>8. SubSeq(d, 1, n) = SubSeq(b, 1, n)
    BY <1>2, PieceSame
<1> QED
    BY <1>3, <1>5, <1>6, <1>7, <1>8 DEF d

\* A turn whose buffer is within phrase_max, with no closer and no space behind
\* a mark, and with no leading white space once a phrase was emitted.
Calm(e) ==
    /\ Len(e.buffer) <= PhraseMax /\ Plain(e.buffer)
    /\ e.any /\ 1 <= Len(e.buffer) => e.buffer[1] \notin Whitespace

LEMMA CalmShorter ==
    ASSUME NEW e \in Turn, NEW c \in Text, Calm(With(e, c))
    PROVE  Calm(e)
<1> DEFINE b == e.buffer
           d == b \o c
<1>1. b \in Text /\ With(e, c).buffer = d /\ With(e, c).any = e.any
    BY DEF Turn, With
<1>2. /\ d \in Text /\ Len(b) \in Nat /\ Len(d) \in Nat /\ Len(b) <= Len(d)
      /\ \A k \in 1..Len(b) : d[k] = b[k]
    BY <1>1, LongerThan
<1>3. /\ Len(d) <= PhraseMax /\ Plain(d)
      /\ e.any /\ 1 <= Len(d) => d[1] \notin Whitespace
    BY <1>1 DEF Calm
<1> HIDE DEF d
<1>4. Len(b) <= PhraseMax
    BY <1>2, <1>3, LimitsAreOrdered
<1>5. Plain(b)
    <2> SUFFICES ASSUME NEW i \in 1..(Len(b) - 1), b[i] \in Marks
                 PROVE  b[i + 1] \notin Closers \cup Whitespace
        BY DEF Plain
    <2>1. i \in 1..(Len(d) - 1) /\ i \in 1..Len(b) /\ i + 1 \in 1..Len(b)
        BY <1>2
    <2> QED
        BY <1>2, <1>3, <2>1 DEF Plain
<1>6. e.any /\ 1 <= Len(b) => b[1] \notin Whitespace
    BY <1>2, <1>3
<1> QED
    BY <1>4, <1>5, <1>6 DEF Calm

\* Without a boundary nothing is done.
LEMMA RoundCalm ==
    ASSUME NEW e \in Turn, Calm(e), Boundaries(e.buffer) = {}
    PROVE  Round(e) = e
<1> DEFINE b == e.buffer
<1>1. b \in Text /\ Len(b) \in Nat /\ PhraseMax \in Nat /\ ~(Len(b) > PhraseMax)
    BY LenProperties, LimitsAreOrdered DEF Turn, Text, Calm
<1>2. CASE ~e.any
    BY <1>1, <1>2 DEF Round
<1>3. CASE e.any
    <2>1. Round(e) = [e EXCEPT !.buffer = RestAfter(b, 0)]
        BY <1>1, <1>3 DEF Round
    <2>2. 1 \in 1..(Len(b) + 1) /\ (1 <= Len(b) => b[1] \notin Whitespace) /\ 0 + 1 = 1
        BY <1>1, <1>3 DEF Calm
    <2>3. After(b, 0 + 1, Whitespace) = 1
        BY <1>1, <2>2, AfterHere
    <2>4. RestAfter(b, 0) = SubSeq(b, 1, Len(b))
        BY <2>3 DEF RestAfter, From
    <2>5. RestAfter(b, 0) = b
        BY <1>1, <2>4, SubSeqFull DEF Text
    <2> QED
        BY <2>1, <2>5 DEF Turn
<1> QED
    BY <1>2, <1>3

\* A phrase cut off leaves it so.
LEMMA CutCalm ==
    ASSUME NEW e \in Turn, NEW m \in 1..Len(e.buffer), Calm(e)
    PROVE  Calm(Cut(e, m))
<1> DEFINE b == e.buffer
           j == After(b, m + 1, Whitespace)
           r == RestAfter(b, m)
<1>1. b \in Text /\ Len(b) \in Nat /\ PhraseMax \in Nat /\ Len(b) <= PhraseMax /\ Plain(b)
    BY LenProperties, LimitsAreOrdered DEF Turn, Text, Calm
<1>2. m \in 0..Len(b) /\ m + 1 \in 1..(Len(b) + 1)
    BY <1>1
<1>3. j \in (m + 1)..(Len(b) + 1) /\ r = SubSeq(b, j, Len(b)) /\ Len(r) = Len(b) + 1 - j
    BY <1>1, <1>2, RestIs
<1>4. j <= Len(b) => b[j] \notin Whitespace
    BY <1>1, <1>2, AfterIs DEF Text
<1>5. Cut(e, m).buffer = r
    BY DEF Cut
<1> HIDE DEF b, j, r
<1>6. \A k \in 1..(Len(b) + 1 - j) : r[k] = b[j + k - 1]
    <2>1. Len(b) \in 0..Len(b) /\ j \in 1..(Len(b) + 1)
        BY <1>1, <1>2, <1>3
    <2>2. \A k \in 1..(Len(b) - j + 1) : r[k] = b[j + k - 1]
        BY <1>1, <1>3, <2>1, Piece
    <2> QED
        BY <1>1, <1>3, <2>2
<1>7. Len(r) <= PhraseMax
    BY <1>1, <1>2, <1>3
<1>8. Plain(r)
    <2> SUFFICES ASSUME NEW i \in 1..(Len(r) - 1), r[i] \in Marks
                 PROVE  r[i + 1] \notin Closers \cup Whitespace
        BY DEF Plain
    <2>1. /\ i \in 1..(Len(b) + 1 - j) /\ i + 1 \in 1..(Len(b) + 1 - j)
          /\ j + i - 1 \in 1..(Len(b) - 1) /\ j + (i + 1) - 1 = (j + i - 1) + 1
        BY <1>1, <1>2, <1>3
    <2>2. r[i] = b[j + i - 1] /\ r[i + 1] = b[(j + i - 1) + 1]
        BY <1>6, <2>1
    <2> QED
        BY <1>1, <2>1, <2>2 DEF Plain
<1>9. 1 <= Len(r) => r[1] \notin Whitespace
    <2> SUFFICES ASSUME 1 <= Len(r) PROVE r[1] \notin Whitespace
        OBVIOUS
    <2>1. 1 \in 1..(Len(b) + 1 - j) /\ j + 1 - 1 = j /\ j <= Len(b)
        BY <1>1, <1>2, <1>3
    <2> QED
        BY <1>4, <1>6, <2>1
<1> QED
    BY <1>5, <1>7, <1>8, <1>9 DEF Calm

\* A phrase up to a boundary is cut off the same with more text.
LEMMA RoundSame ==
    ASSUME NEW e \in Turn, NEW c \in Text, Calm(With(e, c)), Boundaries(e.buffer) # {}
    PROVE  /\ Round(With(e, c)) = With(Round(e), c)
           /\ Calm(With(Round(e), c))
           /\ Len(Round(e).buffer) < Len(e.buffer)
<1> DEFINE b == e.buffer
           d == b \o c
           i == Min(Boundaries(b))
           n == After(b, i + 1, Closers) - 1
<1>1. b \in Text /\ With(e, c).buffer = d /\ With(e, c).any = e.any /\ With(e, c).out = e.out
    BY DEF Turn, With
<1>2. Len(d) <= PhraseMax /\ Plain(d)
    BY <1>1 DEF Calm
<1>3. /\ i \in 1..Len(b) /\ Terminator(b, i)
      /\ Boundaries(d) # {} /\ Min(Boundaries(d)) = i
    BY <1>1, <1>2, BoundarySame
<1>4. /\ n \in 1..Len(b) /\ After(d, i + 1, Closers) - 1 = n
      /\ After(d, n + 1, Whitespace) = After(b, n + 1, Whitespace)
    <2> HIDE DEF i
    <2> QED
        BY <1>1, <1>2, <1>3, EndSame
<1>5. Round(e) = Cut(e, n)
    BY DEF Round
<1>6. Round(With(e, c)) = Cut(With(e, c), n)
    BY <1>1, <1>3, <1>4 DEF Round
<1> HIDE DEF n, i
<1>7. RestAfter(d, n) = RestAfter(b, n) \o c /\ SubSeq(d, 1, n) = SubSeq(b, 1, n)
    BY <1>1, <1>4, RestSame
<1>8. Cut(With(e, c), n) = With(Cut(e, n), c)
    <2> DEFINE p == SubSeq(b, 1, n)
    <2>1. Cut(With(e, c), n) = [buffer |-> RestAfter(d, n), any |-> e.any \/ ~Blank(p),
                                out |-> IF Blank(p) THEN e.out ELSE Append(e.out, p)]
        BY <1>1, <1>7 DEF Cut
    <2>2. Cut(e, n) = [buffer |-> RestAfter(b, n), any |-> e.any \/ ~Blank(p),
                       out |-> IF Blank(p) THEN e.out ELSE Append(e.out, p)]
        BY DEF Cut
    <2> HIDE DEF b, d, p
    <2> QED
        BY <1>7, <2>1, <2>2 DEF With
<1>9. Calm(Cut(With(e, c), n))
    <2>1. Len(b) \in Nat /\ Len(d) \in Nat /\ Len(b) <= Len(d)
        BY <1>1, LongerThan
    <2>2. n \in 1..Len(With(e, c).buffer) /\ With(e, c) \in Turn
        BY <1>1, <1>4, <2>1, WithTurn
    <2> QED
        BY <2>2, CutCalm
<1>10. Len(Round(e).buffer) < Len(b)
    BY <1>4, <1>5, CutTurn
<1> QED
    BY <1>5, <1>6, <1>8, <1>9, <1>10

\* More text can be put behind what _extract_phrases retained: what it decided
\* stands.
LEMMA ExtractMore ==
    ASSUME NEW c \in Text
    PROVE  \A e \in Turn : Calm(With(e, c)) => Extract(With(e, c)) = Extract(With(Extract(e), c))
<1> DEFINE Stays(e) == Extract(With(e, c)) = Extract(With(Extract(e), c))
           Good == {n \in Nat : \A e \in Turn : Len(e.buffer) <= n /\ Calm(With(e, c)) => Stays(e)}
<1>1. ASSUME NEW e \in Turn, Calm(With(e, c)), Boundaries(e.buffer) = {}
      PROVE  Stays(e)
    <2>1. Round(e) = e
        BY <1>1, CalmShorter, RoundCalm
    <2>2. Extract(e) = e
        BY <2>1, ExtractUnfolds
    <2> QED
        BY <2>2
<1>2. ASSUME NEW e \in Turn, Calm(With(e, c)), Boundaries(e.buffer) # {}, Stays(Round(e))
      PROVE  Stays(e)
    <2> DEFINE d == Round(e)
    <2>1. /\ Round(With(e, c)) = With(d, c) /\ Len(d.buffer) < Len(e.buffer) /\ d \in Turn
        BY <1>2, RoundSame, RoundTurn
    <2>2. Len(d.buffer) \in Nat /\ Len(e.buffer) \in Nat /\ Len(c) \in Nat
        BY <2>1, LenProperties DEF Turn, Text
    <2>3. d # e
        BY <2>1, <2>2
    <2>4. With(d, c) # With(e, c)
        <3>1. With(d, c).buffer = d.buffer \o c /\ With(e, c).buffer = e.buffer \o c
            BY DEF With
        <3>2. Len(d.buffer \o c) = Len(d.buffer) + Len(c) /\ Len(e.buffer \o c) = Len(e.buffer) + Len(c)
            BY <2>1, Longer DEF Turn
        <3>3. Len(d.buffer) + Len(c) # Len(e.buffer) + Len(c)
            BY <2>1, <2>2
        <3> QED
            BY <3>1, <3>2, <3>3
    <2>5. Extract(e) = Extract(d)
        BY <2>3, ExtractUnfolds
    <2>6. Extract(With(e, c)) = Extract(With(d, c))
        BY <2>1, <2>4, WithTurn, ExtractUnfolds
    <2> QED
        BY <1>2, <2>5, <2>6
<1> HIDE DEF Stays
<1>3. 0 \in Good
    <2> SUFFICES ASSUME NEW e \in Turn, Len(e.buffer) <= 0, Calm(With(e, c)) PROVE Stays(e)
        OBVIOUS
    <2>1. Boundaries(e.buffer) = {}
        <3> SUFFICES ASSUME Boundaries(e.buffer) # {} PROVE FALSE
            OBVIOUS
        <3>1. Len(Round(e).buffer) < Len(e.buffer) /\ Round(e) \in Turn
            BY RoundSame, RoundTurn
        <3>2. Len(Round(e).buffer) \in Nat /\ Len(e.buffer) \in Nat
            BY <3>1, LenProperties DEF Turn, Text
        <3> QED
            BY <3>1, <3>2
    <2> QED
        BY <1>1, <2>1
<1>4. ASSUME NEW n \in Nat, n \in Good PROVE n + 1 \in Good
    <2> SUFFICES ASSUME NEW e \in Turn, Len(e.buffer) <= n + 1, Calm(With(e, c)) PROVE Stays(e)
        OBVIOUS
    <2>1. CASE Boundaries(e.buffer) = {}
        BY <1>1, <2>1
    <2>2. CASE Boundaries(e.buffer) # {}
        <3>1. Len(Round(e).buffer) < Len(e.buffer) /\ Round(e) \in Turn /\ Calm(With(Round(e), c))
            BY <2>2, RoundSame, RoundTurn
        <3>2. Len(Round(e).buffer) \in Nat /\ Len(e.buffer) \in Nat
            BY <3>1, LenProperties DEF Turn, Text
        <3>3. Len(Round(e).buffer) <= n
            BY <3>1, <3>2
        <3>4. Stays(Round(e))
            BY <1>4, <3>1, <3>3
        <3> QED
            BY <1>2, <2>2, <3>4
    <2> QED
        BY <2>1, <2>2
<1>5. Nat \subseteq Good
    <2> HIDE DEF Good
    <2> QED
        BY <1>3, <1>4, SetInduction
<1> SUFFICES ASSUME NEW e \in Turn, Calm(With(e, c)) PROVE Stays(e)
    BY DEF Stays
<1>6. Len(e.buffer) \in Nat /\ Len(e.buffer) <= Len(e.buffer)
    BY LenProperties DEF Turn, Text
<1> QED
    BY <1>5, <1>6

\* The phrases of earlier calls have no part in it.
Behind(ps, e) == [buffer |-> e.buffer, any |-> e.any, out |-> ps \o e.out]

LEMMA CutBehind ==
    ASSUME NEW e \in Turn, NEW ps \in Seq(Text), NEW n \in 1..Len(e.buffer)
    PROVE  Cut(Behind(ps, e), n) = Behind(ps, Cut(e, n))
<1> DEFINE b == e.buffer
           p == SubSeq(b, 1, n)
           r == RestAfter(b, n)
<1>1. b \in Text /\ e.out \in Seq(Text) /\ Len(b) \in Nat
    BY LenProperties DEF Turn, Text
<1>2. p \in Text
    <2>1. Len(b) \in 0..Len(b) /\ 1 \in 1..(Len(b) + 1) /\ n \in 0..Len(b)
        BY <1>1
    <2> QED
        BY <1>1, <2>1, Piece
<1>3. ps \o Append(e.out, p) = Append(ps \o e.out, p)
    BY <1>1, <1>2, ConcatAppend, SMTT(30)
<1>4. Behind(ps, e).buffer = b /\ Behind(ps, e).any = e.any /\ Behind(ps, e).out = ps \o e.out
    BY DEF Behind
<1>5. Cut(e, n) = [buffer |-> r, any |-> e.any \/ ~Blank(p),
                   out |-> IF Blank(p) THEN e.out ELSE Append(e.out, p)]
    BY DEF Cut
<1>6. Cut(Behind(ps, e), n) = [buffer |-> r, any |-> e.any \/ ~Blank(p),
                               out |-> IF Blank(p) THEN ps \o e.out ELSE Append(ps \o e.out, p)]
    BY <1>4 DEF Cut
<1> HIDE DEF b, p, r
<1>7. Cut(e, n).buffer = r /\ Cut(e, n).any = (e.any \/ ~Blank(p))
      /\ Cut(e, n).out = IF Blank(p) THEN e.out ELSE Append(e.out, p)
    BY <1>5
<1>8. ps \o Cut(e, n).out = IF Blank(p) THEN ps \o e.out ELSE Append(ps \o e.out, p)
    BY <1>3, <1>7
<1> QED
    BY <1>6, <1>7, <1>8 DEF Behind

LEMMA RoundBehind ==
    ASSUME NEW e \in Turn, NEW ps \in Seq(Text)
    PROVE  Round(Behind(ps, e)) = Behind(ps, Round(e)) /\ Behind(ps, e) \in Turn
<1> DEFINE b == e.buffer
           f == Behind(ps, e)
<1>1. b \in Text /\ e.any \in BOOLEAN /\ e.out \in Seq(Text) /\ Len(b) \in Nat /\ PhraseMax \in Nat
    BY LenProperties, LimitsAreOrdered DEF Turn, Text
<1>2. f.buffer = b /\ f.any = e.any /\ f.out = ps \o e.out
    BY DEF Behind
<1>3. f \in Turn
    <2>1. ps \o e.out \in Seq(Text)
        BY <1>1, ConcatProperties
    <2> QED
        BY <1>1, <2>1 DEF Behind, Turn
<1>4. CASE Boundaries(b) # {}
    <2> DEFINE m == After(b, Min(Boundaries(b)) + 1, Closers) - 1
    <2>1. m \in 1..Len(b)
        BY <1>1, <1>4, BoundaryCut DEF Text
    <2>2. Round(e) = Cut(e, m) /\ Round(f) = Cut(f, m)
        BY <1>2, <1>4 DEF Round
    <2> HIDE DEF m
    <2> QED
        BY <1>3, <2>1, <2>2, CutBehind
<1>5. CASE Boundaries(b) = {} /\ Len(b) > PhraseMax
    <2>1. Fallback(b) \in 1..Len(b)
        BY <1>1, <1>5, LimitsCut DEF Text
    <2>2. Round(e) = Cut(e, Fallback(b)) /\ Round(f) = Cut(f, Fallback(b))
        BY <1>2, <1>5 DEF Round
    <2> QED
        BY <1>3, <2>1, <2>2, CutBehind
<1>6. CASE Boundaries(b) = {} /\ ~(Len(b) > PhraseMax) /\ e.any
    <2> DEFINE r == RestAfter(b, 0)
    <2>1. Round(e) = [e EXCEPT !.buffer = r] /\ Round(f) = [f EXCEPT !.buffer = r]
        BY <1>2, <1>6 DEF Round
    <2> HIDE DEF r
    <2>2. Round(e) = [buffer |-> r, any |-> e.any, out |-> e.out]
        BY <2>1 DEF Turn
    <2>3. Round(f) = [buffer |-> r, any |-> e.any, out |-> ps \o e.out]
        BY <1>2, <1>3, <2>1 DEF Turn
    <2> HIDE DEF f
    <2> QED
        BY <1>3, <2>2, <2>3 DEF Behind, f
<1>7. CASE Boundaries(b) = {} /\ ~(Len(b) > PhraseMax) /\ ~e.any
    <2>1. Round(e) = e /\ Round(f) = f
        BY <1>2, <1>7 DEF Round
    <2> QED
        BY <1>3, <2>1
<1> QED
    BY <1>4, <1>5, <1>6, <1>7

LEMMA ExtractBehind ==
    ASSUME NEW ps \in Seq(Text)
    PROVE  \A e \in Turn : Extract(Behind(ps, e)) = Behind(ps, Extract(e))
<1> DEFINE Same(e) == Extract(Behind(ps, e)) = Behind(ps, Extract(e))
           Good == {n \in Nat : \A e \in Turn : Len(e.buffer) <= n => Same(e)}
<1>1. ASSUME NEW e \in Turn, Round(e) = e
      PROVE  Same(e)
    <2>1. Extract(e) = e
        BY <1>1, ExtractUnfolds
    <2>2. Round(Behind(ps, e)) = Behind(ps, e) /\ Behind(ps, e) \in Turn
        BY <1>1, RoundBehind
    <2>3. Extract(Behind(ps, e)) = Behind(ps, e)
        BY <2>2, ExtractUnfolds
    <2> QED
        BY <2>1, <2>3
<1>2. ASSUME NEW e \in Turn, Len(Round(e).buffer) < Len(e.buffer), Same(Round(e))
      PROVE  Same(e)
    <2>1. Len(Round(e).buffer) \in Nat /\ Len(e.buffer) \in Nat /\ Round(e) \in Turn
        BY RoundTurn, LenProperties DEF Turn, Text
    <2>2. Round(e) # e
        BY <1>2, <2>1
    <2>3. Behind(ps, Round(e)) # Behind(ps, e)
        <3>1. Behind(ps, Round(e)).buffer = Round(e).buffer /\ Behind(ps, e).buffer = e.buffer
            BY DEF Behind
        <3> QED
            BY <1>2, <2>1, <3>1
    <2>4. Extract(e) = Extract(Round(e))
        BY <2>2, ExtractUnfolds
    <2>5. Round(Behind(ps, e)) = Behind(ps, Round(e)) /\ Behind(ps, e) \in Turn
        BY RoundBehind
    <2>6. Extract(Behind(ps, e)) = Extract(Behind(ps, Round(e)))
        BY <2>3, <2>5, ExtractUnfolds
    <2> QED
        BY <1>2, <2>4, <2>6
<1> HIDE DEF Same
<1>3. 0 \in Good
    <2> SUFFICES ASSUME NEW e \in Turn, Len(e.buffer) <= 0 PROVE Same(e)
        OBVIOUS
    <2>1. Len(Round(e).buffer) \in Nat /\ Len(e.buffer) \in Nat
        BY RoundTurn, LenProperties DEF Turn, Text
    <2>2. ~(Len(Round(e).buffer) < Len(e.buffer))
        BY <2>1
    <2>3. Round(e) = e
        BY <2>2, RoundTurn
    <2> QED
        BY <1>1, <2>3
<1>4. ASSUME NEW n \in Nat, n \in Good PROVE n + 1 \in Good
    <2> SUFFICES ASSUME NEW e \in Turn, Len(e.buffer) <= n + 1 PROVE Same(e)
        OBVIOUS
    <2>1. Len(Round(e).buffer) \in Nat /\ Len(e.buffer) \in Nat /\ Round(e) \in Turn
        BY RoundTurn, LenProperties DEF Turn, Text
    <2>2. CASE Len(Round(e).buffer) < Len(e.buffer)
        <3>1. Len(Round(e).buffer) <= n
            BY <2>1, <2>2
        <3>2. Same(Round(e))
            BY <1>4, <2>1, <3>1
        <3> QED
            BY <1>2, <2>2, <3>2
    <2>3. CASE ~(Len(Round(e).buffer) < Len(e.buffer))
        <3>1. Round(e) = e
            BY <2>3, RoundTurn
        <3> QED
            BY <1>1, <3>1
    <2> QED
        BY <2>2, <2>3
<1>5. Nat \subseteq Good
    <2> HIDE DEF Good
    <2> QED
        BY <1>3, <1>4, SetInduction
<1> SUFFICES ASSUME NEW e \in Turn PROVE Same(e)
    BY DEF Same
<1>6. Len(e.buffer) \in Nat /\ Len(e.buffer) <= Len(e.buffer)
    BY LenProperties DEF Turn, Text
<1> QED
    BY <1>5, <1>6

-----------------------------------------------------------------------------
(* The invariant.                                                          *)

TypeOK ==
    /\ text \in Text /\ fed \in 0..Len(text) /\ buffer \in Text
    /\ flushed \in BOOLEAN /\ emittedAny \in BOOLEAN /\ phrases \in Seq(Text)

\* What a call leaves is within phrase_max, so that retained_max never applies.
RetainedShort == Len(buffer) <= PhraseMax

IInv == TypeOK /\ NothingLost /\ RetainedShort

LEMMA NothingLostIs ==
    NothingLost <=> MakeUp(text, fed, buffer, phrases) /\ Speaking(phrases)
BY DEF NothingLost, Speaking

LEMMA InitIInv ==
    ASSUME Init
    PROVE  IInv
<1>1. text \in Text
    <2>1. PICK n \in 1..MaxText : text \in [1..n -> Alphabet]
        BY DEF Init
    <2> QED
        BY <2>1, LimitsAreOrdered, SeqDef DEF Text
<1>2. Len(text) \in Nat
    BY <1>1, LenProperties DEF Text
<1>3. TypeOK
    <2>1. <<>> \in Text /\ <<>> \in Seq(Text)
        BY DEF Text
    <2>2. 0 \in 0..Len(text)
        BY <1>2
    <2> QED
        BY <1>1, <2>1, <2>2 DEF Init, TypeOK
<1>4. MakeUp(text, 0, <<>>, <<>>)
    <2> DEFINE at == [i \in 1..1 |-> 1]
    <2>1. at \in [1..1 -> 1..1] /\ at[1] = 1
        OBVIOUS
    <2>2. SubSeq(text, 1, 0) = <<>>
        BY SubSeqEmpty
    <2>3. DOMAIN <<>> = {} /\ Len(<<>>) + 1 = 1 /\ 0 + 1 = 1
        OBVIOUS
    <2> HIDE DEF at
    <2>4. PlacedAt(text, 0, <<>>, <<>>, at)
        BY <2>1, <2>2, <2>3 DEF PlacedAt
    <2>5. \E f \in [1..(Len(<<>>) + 1) -> 1..(0 + 1)] : PlacedAt(text, 0, <<>>, <<>>, f)
        BY <2>1, <2>3, <2>4
    <2> QED
        BY <2>5, MakeUpPlaced
<1>5. NothingLost
    BY <1>4 DEF Init, NothingLost
<1>6. RetainedShort
    BY LimitsAreOrdered DEF Init, RetainedShort
<1> QED
    BY <1>3, <1>5, <1>6 DEF IInv

LEMMA FeedIInv ==
    ASSUME IInv, Feed
    PROVE  IInv'
<1>1. /\ text \in Text /\ fed \in 0..Len(text) /\ buffer \in Text
      /\ flushed \in BOOLEAN /\ emittedAny \in BOOLEAN /\ phrases \in Seq(Text)
    BY DEF IInv, TypeOK
<1>2. MakeUp(text, fed, buffer, phrases) /\ Speaking(phrases) /\ Len(text) \in Nat
    BY <1>1, NothingLostIs, LenProperties DEF IInv, Text
<1>3. PICK n \in (fed + 1)..Len(text) :
          LET e == Fed(buffer, emittedAny, SubSeq(text, fed + 1, n))
          IN  /\ fed' = n
              /\ buffer' = e.buffer /\ emittedAny' = e.any
              /\ phrases' = phrases \o e.out
    BY DEF Feed
<1> DEFINE chunk == SubSeq(text, fed + 1, n)
           fresh == Fresh(buffer \o chunk, emittedAny)
           e == Extract(fresh)
<1>4. n \in fed..Len(text) /\ n \in 0..Len(text)
    BY <1>1, <1>2
<1>5. chunk \in Text /\ buffer \o chunk \in Text
    <2>1. n \in 0..n /\ fed + 1 \in 1..(n + 1)
        BY <1>1, <1>2
    <2>2. chunk \in Text
        BY <1>1, <1>4, <2>1, Piece
    <2> QED
        BY <1>1, <2>2, ConcatProperties DEF Text
<1>6. MakeUp(text, n, buffer \o chunk, phrases)
    BY <1>1, <1>2, <1>4, More
<1> HIDE DEF chunk
<1>7. Intact(text, n, phrases, fresh)
    <2>1. phrases \o <<>> = phrases /\ <<>> \in Seq(Text)
        BY <1>1, ConcatEmptySeq
    <2>2. fresh = [buffer |-> buffer \o chunk, any |-> emittedAny, out |-> <<>>]
        BY DEF Fresh
    <2>3. fresh \in Turn
        BY <1>1, <1>5, <2>1, <2>2 DEF Turn
    <2>4. fresh.buffer = buffer \o chunk /\ fresh.out = <<>>
        BY <2>2
    <2> HIDE DEF fresh
    <2> QED
        BY <1>2, <1>6, <2>1, <2>3, <2>4 DEF Intact
<1> HIDE DEF fresh
<1>8. Intact(text, n, phrases, e) /\ Len(e.buffer) <= PhraseMax
    BY <1>1, <1>4, <1>7, ExtractIntact
<1> HIDE DEF e
<1>9. e \in Turn /\ MakeUp(text, n, e.buffer, phrases \o e.out) /\ Speaking(phrases \o e.out)
    BY <1>8 DEF Intact
<1>10. Enforce(e) = e
    BY <1>8, <1>9, EnforceIdle DEF Turn
<1>11. Fed(buffer, emittedAny, SubSeq(text, fed + 1, n)) = e
    BY <1>10 DEF Fed, fresh, chunk, e
<1>12. /\ fed' = n /\ buffer' = e.buffer /\ emittedAny' = e.any
       /\ phrases' = phrases \o e.out /\ text' = text /\ flushed' = flushed
    BY <1>3, <1>11 DEF Feed
<1>13. e.buffer \in Text /\ e.any \in BOOLEAN /\ phrases \o e.out \in Seq(Text)
    BY <1>1, <1>9, ConcatProperties DEF Turn
<1>14. TypeOK'
    BY <1>1, <1>4, <1>12, <1>13 DEF TypeOK
<1>15. NothingLost'
    BY <1>9, <1>12 DEF NothingLost, Speaking
<1>16. RetainedShort'
    BY <1>8, <1>12 DEF RetainedShort
<1> QED
    BY <1>14, <1>15, <1>16 DEF IInv

LEMMA FlushIInv ==
    ASSUME IInv, Flush
    PROVE  IInv'
<1>1. /\ text \in Text /\ fed \in 0..Len(text) /\ buffer \in Text
      /\ flushed \in BOOLEAN /\ emittedAny \in BOOLEAN /\ phrases \in Seq(Text)
    BY DEF IInv, TypeOK
<1>2. MakeUp(text, fed, buffer, phrases) /\ Speaking(phrases) /\ Len(buffer) \in Nat
    BY <1>1, NothingLostIs, LenProperties DEF IInv, Text
<1>3. /\ text' = text /\ fed' = fed /\ emittedAny' = emittedAny /\ flushed' = TRUE /\ buffer' = <<>>
      /\ phrases' = phrases \o Flushed(buffer)
    BY DEF Flush
<1>4. SubSeq(buffer, Len(buffer) + 1, Len(buffer)) = <<>> /\ SubSeq(buffer, 1, Len(buffer)) = buffer
    BY <1>1, <1>2, SubSeqEmpty, SubSeqFull DEF Text
<1>5. /\ phrases \o Flushed(buffer) \in Seq(Text)
      /\ MakeUp(text, fed, <<>>, phrases \o Flushed(buffer)) /\ Speaking(phrases \o Flushed(buffer))
    <2>1. CASE Blank(buffer)
        <3>1. Flushed(buffer) = <<>> /\ phrases \o <<>> = phrases
            BY <1>1, <2>1, ConcatEmptySeq DEF Flushed
        <3>2. \A k \in 1..Len(buffer) : buffer[k] \in Whitespace
            <4>1. DOMAIN buffer = 1..Len(buffer)
                BY <1>1, LenProperties DEF Text
            <4> QED
                BY <2>1, <4>1 DEF Blank, Range
        <3>3. Len(buffer) + 1 \in 1..(Len(buffer) + 1) /\ Len(buffer) + 1 - 1 = Len(buffer)
            BY <1>2
        <3>4. MakeUp(text, fed, SubSeq(buffer, Len(buffer) + 1, Len(buffer)), phrases)
            BY <1>1, <1>2, <3>2, <3>3, Skip
        <3> QED
            BY <1>1, <1>2, <1>4, <3>1, <3>4
    <2>2. CASE ~Blank(buffer)
        <3>1. Flushed(buffer) = <<buffer>> /\ Append(phrases, buffer) = phrases \o <<buffer>>
            BY <1>1, <2>2, AppendIsConcat DEF Flushed
        <3>2. Len(buffer) \in 0..Len(buffer)
            BY <1>2
        <3>3. MakeUp(text, fed, SubSeq(buffer, Len(buffer) + 1, Len(buffer)),
                     Append(phrases, SubSeq(buffer, 1, Len(buffer))))
            BY <1>1, <1>2, <3>2, Take
        <3>4. Speaking(Append(phrases, buffer)) /\ Append(phrases, buffer) \in Seq(Text)
            BY <1>1, <1>2, <2>2, SpeakingAppend, AppendProperties
        <3> QED
            BY <1>4, <3>1, <3>3, <3>4
    <2> QED
        BY <2>1, <2>2
<1>6. TypeOK'
    <2>1. <<>> \in Text
        BY DEF Text
    <2> QED
        BY <1>1, <1>3, <1>5, <2>1 DEF TypeOK
<1>7. NothingLost'
    BY <1>3, <1>5 DEF NothingLost, Speaking
<1>8. RetainedShort'
    BY <1>3, LimitsAreOrdered DEF RetainedShort
<1> QED
    BY <1>6, <1>7, <1>8 DEF IInv

\* The invariant is inductive.
LEMMA Invariance == Spec => []IInv
<1>1. Init => IInv
    BY InitIInv
<1>2. IInv /\ [Next]_vars => IInv'
    <2> SUFFICES ASSUME IInv, [Next]_vars PROVE IInv'
        OBVIOUS
    <2>1. CASE Feed
        BY <2>1, FeedIInv
    <2>2. CASE Flush
        BY <2>2, FlushIInv
    <2>3. CASE UNCHANGED vars
        BY <2>3 DEF vars, IInv, TypeOK, NothingLost, RetainedShort
    <2> QED
        BY <2>1, <2>2, <2>3 DEF Next
<1> QED
    BY <1>1, <1>2, PTL DEF Spec

\* However a client cuts its text, the phrases are contiguous pieces of it in
\* its order, none of them blank, and with what is retained they leave out only
\* white space: PhraseAccumulator.feed and flush lose and double nothing.
THEOREM NothingLostHolds == Spec => []NothingLost
<1>1. IInv => NothingLost
    BY DEF IInv
<1> QED
    BY <1>1, Invariance, PTL

\* Between two calls at most phrase_max characters are retained, and so the loop
\* of _extract_phrases that enforces retained_max never has anything to do.
THEOREM RetainedShortHolds == Spec => [](TypeOK /\ RetainedShort)
<1>1. IInv => TypeOK /\ RetainedShort
    BY DEF IInv
<1> QED
    BY <1>1, Invariance, PTL

-----------------------------------------------------------------------------
(* What a period means is never decided too early.                         *)

\* For a plain text, what was fed so far is where it would be had it been fed
\* at once.
Decided ==
    PlainText =>
        IF flushed THEN phrases = AtOnce
        ELSE Extract(Fresh(SubSeq(text, 1, fed), FALSE))
                 = [buffer |-> buffer, any |-> emittedAny, out |-> phrases]

LEMMA InitDecided ==
    ASSUME Init
    PROVE  Decided
<1> DEFINE e == Fresh(<<>>, FALSE)
<1>1. fed = 0 /\ buffer = <<>> /\ flushed = FALSE /\ emittedAny = FALSE /\ phrases = <<>>
    BY DEF Init
<1>2. e = [buffer |-> <<>>, any |-> FALSE, out |-> <<>>]
    BY DEF Fresh
<1> HIDE DEF e
<1>3. e \in Turn /\ Len(e.buffer) = 0
    <2>1. <<>> \in Text /\ <<>> \in Seq(Text) /\ Len(<<>>) = 0
        BY DEF Text
    <2> QED
        BY <1>2, <2>1 DEF Turn
<1>4. SubSeq(text, 1, 0) = <<>>
    BY SubSeqEmpty
<1>5. Round(e) = e
    <2>1. Round(e) \in Turn /\ Len(Round(e).buffer) \in Nat
        BY <1>3, RoundTurn, LenProperties DEF Turn, Text
    <2>2. ~(Len(Round(e).buffer) < Len(e.buffer))
        BY <1>3, <2>1
    <2> QED
        BY <1>3, <2>2, RoundTurn
<1>6. Extract(e) = e
    BY <1>3, <1>5, ExtractUnfolds
<1>7. Extract(Fresh(SubSeq(text, 1, fed), FALSE)) = e
    BY <1>1, <1>4, <1>6 DEF e
<1> QED
    BY <1>1, <1>2, <1>7 DEF Decided

LEMMA FeedDecided ==
    ASSUME IInv, Decided, Feed
    PROVE  Decided'
<1> SUFFICES ASSUME PlainText' PROVE Decided'
    BY DEF Decided
<1>1. /\ text \in Text /\ fed \in 0..Len(text) /\ buffer \in Text
      /\ emittedAny \in BOOLEAN /\ phrases \in Seq(Text)
    BY DEF IInv, TypeOK
<1>2. PICK n \in (fed + 1)..Len(text) :
          LET e == Fed(buffer, emittedAny, SubSeq(text, fed + 1, n))
          IN  /\ fed' = n
              /\ buffer' = e.buffer /\ emittedAny' = e.any
              /\ phrases' = phrases \o e.out
    BY DEF Feed
<1>3. ~flushed /\ flushed' = flushed /\ text' = text
    BY DEF Feed
<1>4. PlainText
    BY <1>3 DEF PlainText
<1> DEFINE before == SubSeq(text, 1, fed)
           chunk == SubSeq(text, fed + 1, n)
           now == SubSeq(text, 1, n)
           so == Fresh(before, FALSE)
           fresh == Fresh(buffer \o chunk, emittedAny)
           e == Extract(fresh)
<1>5. Len(text) \in Nat /\ n \in Nat /\ fed \in Nat /\ fed < n /\ n <= Len(text)
    BY <1>1, LenProperties DEF Text
<1>6. before \in Text /\ chunk \in Text /\ now \in Text /\ Len(now) = n
      /\ \A k \in 1..n : now[k] = text[k]
    <2>1. /\ Len(text) \in 0..Len(text) /\ 1 \in 1..(Len(text) + 1) /\ fed + 1 \in 1..(Len(text) + 1)
          /\ n \in 0..Len(text) /\ 1 <= n /\ n - 1 + 1 = n /\ \A k \in 1..n : 1 + k - 1 = k
        BY <1>1, <1>5
    <2>2. before \in Text
        BY <1>1, <2>1, Piece
    <2>3. chunk \in Text
        BY <1>1, <2>1, Piece
    <2>4. /\ now \in Text /\ Len(now) = IF 1 <= n THEN n - 1 + 1 ELSE 0
          /\ \A k \in 1..(n - 1 + 1) : now[k] = text[1 + k - 1]
        BY <1>1, <2>1, Piece
    <2> HIDE DEF now
    <2> QED
        BY <2>1, <2>2, <2>3, <2>4
<1>7. before \o chunk = now
    <2>1. 1 \in 1..(Len(text) + 1) /\ fed \in (1 - 1)..Len(text) /\ n \in fed..Len(text)
        BY <1>1, <1>5
    <2> QED
        BY <1>1, <2>1, ConcatAdjacentSubSeq DEF Text
<1> HIDE DEF before, chunk, now
<1>8. so \in Turn /\ fresh \in Turn
    <2>1. buffer \o chunk \in Text /\ <<>> \in Seq(Text)
        BY <1>1, <1>6, Longer
    <2> QED
        BY <1>1, <1>6, <2>1 DEF Fresh, Turn
<1>9. With(so, chunk) = Fresh(now, FALSE)
    BY <1>7 DEF With, Fresh
<1>10. Calm(With(so, chunk))
    <2>1. Len(now) <= PhraseMax
        <3>1. Len(text) <= PhraseMax
            BY <1>4 DEF PlainText
        <3> QED
            BY <1>5, <1>6, <3>1, LimitsAreOrdered
    <2>2. Plain(now)
        <3> SUFFICES ASSUME NEW i \in 1..(Len(now) - 1), now[i] \in Marks
                     PROVE  now[i + 1] \notin Closers \cup Whitespace
            BY DEF Plain
        <3>1. i \in 1..(Len(text) - 1) /\ i \in 1..n /\ i + 1 \in 1..n
            BY <1>5, <1>6
        <3> QED
            BY <1>4, <1>6, <3>1 DEF PlainText
    <2>3. Fresh(now, FALSE).buffer = now /\ Fresh(now, FALSE).any = FALSE
        BY DEF Fresh
    <2> QED
        BY <1>9, <2>1, <2>2, <2>3 DEF Calm
<1>11. Extract(so) = [buffer |-> buffer, any |-> emittedAny, out |-> phrases]
    BY <1>3, <1>4 DEF Decided, so, before
<1> HIDE DEF so
<1>12. With(Extract(so), chunk) = Behind(phrases, fresh)
    <2>1. phrases \o <<>> = phrases
        BY <1>1, ConcatEmptySeq
    <2>2. fresh.buffer = buffer \o chunk /\ fresh.any = emittedAny /\ fresh.out = <<>>
        BY DEF Fresh
    <2>3. /\ Extract(so).buffer = buffer /\ Extract(so).any = emittedAny
          /\ Extract(so).out = phrases
        BY <1>11
    <2> HIDE DEF fresh
    <2> QED
        BY <2>1, <2>2, <2>3 DEF With, Behind
<1> HIDE DEF fresh
<1>13. Extract(Fresh(now, FALSE)) = Behind(phrases, e)
    <2>1. Extract(With(so, chunk)) = Extract(With(Extract(so), chunk))
        BY <1>6, <1>8, <1>10, ExtractMore
    <2>2. Extract(Behind(phrases, fresh)) = Behind(phrases, e)
        BY <1>1, <1>8, ExtractBehind
    <2> QED
        BY <1>9, <1>12, <2>1, <2>2
<1>14. e \in Turn /\ Enforce(e) = e
    <2>1. e \in Turn /\ Len(e.buffer) <= PhraseMax
        BY <1>8, ExtractShort
    <2> QED
        BY <2>1, EnforceIdle DEF Turn
<1>15. Fed(buffer, emittedAny, SubSeq(text, fed + 1, n)) = e
    BY <1>14 DEF Fed, fresh, chunk
<1> HIDE DEF e
<1>16. fed' = n /\ buffer' = e.buffer /\ emittedAny' = e.any /\ phrases' = phrases \o e.out
    BY <1>2, <1>15
<1>17. Extract(Fresh(SubSeq(text, 1, fed), FALSE))' = Behind(phrases, e)
    BY <1>3, <1>13, <1>16 DEF now
<1> QED
    BY <1>3, <1>16, <1>17 DEF Decided, Behind

LEMMA FlushDecided ==
    ASSUME IInv, Decided, Flush
    PROVE  Decided'
<1> SUFFICES ASSUME PlainText' PROVE Decided'
    BY DEF Decided
<1>1. text \in Text /\ buffer \in Text
    BY DEF IInv, TypeOK
<1>2. /\ ~flushed /\ flushed' = TRUE /\ text' = text /\ fed = Len(text)
      /\ phrases' = phrases \o Flushed(buffer)
    BY DEF Flush
<1>3. PlainText
    BY <1>2 DEF PlainText
<1> DEFINE so == Fresh(text, FALSE)
           e == Extract(so)
<1>4. SubSeq(text, 1, fed) = text /\ <<>> \o text = text
    BY <1>1, <1>2, SubSeqFull, ConcatEmptySeq DEF Text
<1>5. e = [buffer |-> buffer, any |-> emittedAny, out |-> phrases]
    BY <1>2, <1>3, <1>4 DEF Decided
<1>6. Enforce(e) = e
    <2>1. so \in Turn
        BY <1>1 DEF Fresh, Turn
    <2> HIDE DEF so
    <2>2. e \in Turn /\ Len(e.buffer) <= PhraseMax
        BY <2>1, ExtractShort
    <2> QED
        BY <2>2, EnforceIdle DEF Turn
<1>7. Fed(<<>>, FALSE, text) = e
    BY <1>4, <1>6 DEF Fed
<1> HIDE DEF e
<1>8. AtOnce = phrases \o Flushed(buffer)
    <2>1. AtOnce = e.out \o Flushed(e.buffer)
        BY <1>7 DEF AtOnce
    <2>2. e.out = phrases /\ e.buffer = buffer
        BY <1>5
    <2> QED
        BY <2>1, <2>2
<1>9. AtOnce' = AtOnce
    BY <1>2 DEF AtOnce
<1> QED
    BY <1>2, <1>8, <1>9 DEF Decided

\* For a text within phrase_max in which neither a closer nor a space follows a
\* mark, feed and flush return what they would have returned had the client sent
\* the text in one chunk: _period_can_resolve keeps a period that the next chunk
\* could still turn into a decimal, an ellipsis or an abbreviation.
THEOREM PeriodsDecidedOnceHolds == Spec => []PeriodsDecidedOnce
<1>1. Init => Decided
    BY InitDecided
<1>2. IInv /\ Decided /\ [Next]_vars => Decided'
    <2> SUFFICES ASSUME IInv, Decided, [Next]_vars PROVE Decided'
        OBVIOUS
    <2>1. CASE Feed
        BY <2>1, FeedDecided
    <2>2. CASE Flush
        BY <2>2, FlushDecided
    <2>3. CASE UNCHANGED vars
        BY <2>3 DEF vars, Decided, PlainText, AtOnce
    <2> QED
        BY <2>1, <2>2, <2>3 DEF Next
<1>3. Decided => PeriodsDecidedOnce
    BY DEF Decided, PeriodsDecidedOnce, ChunkingInvariant
<1> QED
    BY <1>1, <1>2, <1>3, Invariance, PTL DEF Spec
=============================================================================
