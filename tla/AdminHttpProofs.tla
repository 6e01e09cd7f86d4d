---------------------------- MODULE AdminHttpProofs ----------------------------
(***************************************************************************)
(* Theorems about AdminHttp, for any connections, any requests their       *)
(* clients set out to send and any limits.                                 *)
(***************************************************************************)
EXTENDS AdminHttp, WellFoundedInduction, FiniteSetTheorems, SequenceTheorems, TLAPS

-----------------------------------------------------------------------------
(* The size of a head.                                                     *)

\* Induction over the naturals, for a set of numbers.
LEMMA SetInduction ==
    ASSUME NEW T, 0 \in T, \A n \in Nat : n \in T => n + 1 \in T
    PROVE  Nat \subseteq T
<1> SUFFICES ASSUME ~(Nat \subseteq T) PROVE FALSE
    OBVIOUS
<1> DEFINE U == Nat \ T
<1>1. \E m \in U : \A k \in U : <<k, m>> \notin OpToRel(<, Nat)
    BY NatLessThanWellFounded, WFMin
<1>2. PICK m \in U : \A k \in U : ~(k < m)
    BY <1>1 DEF OpToRel
<1>3. m # 0 /\ m - 1 \in Nat
    OBVIOUS
<1>4. m - 1 \in T
    BY <1>2, <1>3
<1> QED
    BY <1>3, <1>4

\* What line i adds to the head.
Adds(r, i) == IF InHead(r, i) THEN r[i].size ELSE 0

\* The function by which HeadSize(r, n) is defined.
Sizes(r, n) == CHOOSE f : f = [i \in 0..n |-> IF i = 0 THEN 0 ELSE f[i - 1] + Adds(r, i)]

LEMMA HeadSizeIs ==
    ASSUME NEW r, NEW n
    PROVE  HeadSize(r, n) = Sizes(r, n)[n]
BY DEF HeadSize, Sizes, Adds

\* It satisfies its equation: a function that does so exists for every n.
LEMMA SizesEquation ==
    ASSUME NEW r, NEW n \in Nat
    PROVE  Sizes(r, n) = [i \in 0..n |-> IF i = 0 THEN 0 ELSE Sizes(r, n)[i - 1] + Adds(r, i)]
<1> DEFINE Eqn(f, m) == f = [i \in 0..m |-> IF i = 0 THEN 0 ELSE f[i - 1] + Adds(r, i)]
           Solvable == {m \in Nat : \E f : Eqn(f, m)}
<1>1. 0 \in Solvable
    <2>1. Eqn([i \in 0..0 |-> 0], 0)
        OBVIOUS
    <2> QED
        BY <2>1
<1>2. ASSUME NEW m \in Nat, m \in Solvable PROVE m + 1 \in Solvable
    <2>1. PICK f : Eqn(f, m)
        BY <1>2
    <2> DEFINE last == f[m] + Adds(r, m + 1)
               g == [i \in 0..(m + 1) |-> IF i = m + 1 THEN last ELSE f[i]]
    <2>2. \A i \in 0..m : g[i] = f[i]
        OBVIOUS
    <2>3. \A i \in 0..m : f[i] = IF i = 0 THEN 0 ELSE f[i - 1] + Adds(r, i)
        BY <2>1
    <2>4. g[m + 1] = last
        OBVIOUS
    <2>5. g = [i \in 0..(m + 1) |-> g[i]]
        OBVIOUS
    <2> HIDE DEF g
    <2>6. \A i \in 0..(m + 1) : g[i] = IF i = 0 THEN 0 ELSE g[i - 1] + Adds(r, i)
        <3> TAKE i \in 0..(m + 1)
        <3>1. CASE i = m + 1
            <4>1. m \in 0..m /\ i # 0 /\ i - 1 = m
                BY <3>1
            <4>2. g[m] = f[m]
                BY <4>1, <2>2
            <4> QED
                BY <3>1, <4>1, <4>2, <2>4
        <3>2. CASE i # m + 1
            <4>1. i \in 0..m /\ (i # 0 => i - 1 \in 0..m)
                BY <3>2
            <4> QED
                BY <4>1, <2>2, <2>3
        <3> QED
            BY <3>1, <3>2
    <2>7. Eqn(g, m + 1)
        BY <2>5, <2>6
    <2> HIDE DEF Eqn
    <2>8. \E h : Eqn(h, m + 1)
        BY <2>7
    <2> QED
        BY <2>8
<1>3. n \in Solvable
    <2> HIDE DEF Solvable
    <2> QED
        BY <1>1, <1>2, SetInduction
<1> QED
    BY <1>3 DEF Sizes

LEMMA SizesAt ==
    ASSUME NEW r, NEW n \in Nat
    PROVE  \A i \in 0..n : Sizes(r, n)[i] = IF i = 0 THEN 0 ELSE Sizes(r, n)[i - 1] + Adds(r, i)
<1> DEFINE f == Sizes(r, n)
<1>1. f = [i \in 0..n |-> IF i = 0 THEN 0 ELSE f[i - 1] + Adds(r, i)]
    BY SizesEquation
<1> HIDE DEF f
<1>2. \A i \in 0..n : f[i] = IF i = 0 THEN 0 ELSE f[i - 1] + Adds(r, i)
    BY <1>1
<1> QED
    BY <1>2 DEF f

\* One line more.
LEMMA HeadSizeNext ==
    ASSUME NEW r, NEW n \in Nat
    PROVE  /\ HeadSize(r, 0) = 0
           /\ HeadSize(r, n + 1) = HeadSize(r, n) + Adds(r, n + 1)
<1> DEFINE f == Sizes(r, n)
           g == Sizes(r, n + 1)
           z == Sizes(r, 0)
           Agree == {m \in Nat : m <= n => g[m] = f[m]}
<1>1. \A i \in 0..n : f[i] = IF i = 0 THEN 0 ELSE f[i - 1] + Adds(r, i)
    BY SizesAt
<1>2. \A i \in 0..(n + 1) : g[i] = IF i = 0 THEN 0 ELSE g[i - 1] + Adds(r, i)
    <2>1. n + 1 \in Nat
        OBVIOUS
    <2> QED
        BY <2>1, SizesAt
<1>3. z[0] = 0
    BY SizesAt
<1> HIDE DEF f, g, z
<1>4. 0 \in Agree
    BY <1>1, <1>2
<1>5. ASSUME NEW m \in Nat, m \in Agree PROVE m + 1 \in Agree
    <2> SUFFICES ASSUME m + 1 <= n PROVE g[m + 1] = f[m + 1]
        OBVIOUS
    <2>1. m + 1 \in 0..n /\ m + 1 \in 0..(n + 1) /\ m + 1 # 0 /\ (m + 1) - 1 = m /\ m <= n
        OBVIOUS
    <2>2. g[m] = f[m]
        BY <1>5, <2>1
    <2>3. f[m + 1] = f[m] + Adds(r, m + 1)
        BY <2>1, <1>1
    <2>4. g[m + 1] = g[m] + Adds(r, m + 1)
        BY <2>1, <1>2
    <2> QED
        BY <2>2, <2>3, <2>4
<1>6. n \in Agree
    <2> HIDE DEF Agree
    <2> QED
        BY <1>4, <1>5, SetInduction
<1>7. g[n] = f[n]
    BY <1>6
<1>8. g[n + 1] = g[n] + Adds(r, n + 1)
    <2>1. n + 1 \in 0..(n + 1) /\ n + 1 # 0 /\ (n + 1) - 1 = n
        OBVIOUS
    <2> QED
        BY <2>1, <1>2
<1> QED
    BY <1>3, <1>7, <1>8, HeadSizeIs DEF f, g, z

LEMMA HeadSizeType ==
    ASSUME NEW r, IsRequest(r), NEW n \in 0..Len(r)
    PROVE  HeadSize(r, n) \in Nat
<1> DEFINE Good == {m \in Nat : m <= Len(r) => HeadSize(r, m) \in Nat}
<1>1. Len(r) \in Nat /\ \A i \in 1..Len(r) : r[i].size \in Nat
    BY DEF IsRequest
<1>2. 0 \in Good
    BY HeadSizeNext
<1>3. ASSUME NEW m \in Nat, m \in Good PROVE m + 1 \in Good
    <2> SUFFICES ASSUME m + 1 <= Len(r) PROVE HeadSize(r, m + 1) \in Nat
        OBVIOUS
    <2>1. m + 1 \in 1..Len(r) /\ m <= Len(r)
        BY <1>1
    <2>2. HeadSize(r, m) \in Nat /\ Adds(r, m + 1) \in Nat
        BY <2>1, <1>1, <1>3 DEF Adds
    <2>3. HeadSize(r, m + 1) = HeadSize(r, m) + Adds(r, m + 1)
        BY HeadSizeNext
    <2> QED
        BY <2>2, <2>3
<1>4. n \in Nat /\ n <= Len(r)
    BY <1>1
<1>5. n \in Good
    <2> HIDE DEF Good
    <2> QED
        BY <1>2, <1>3, <1>4, SetInduction
<1> QED
    BY <1>4, <1>5

-----------------------------------------------------------------------------
(* Heads.                                                                  *)

\* One line more while the head is open.
LEMMA HeadGrows ==
    ASSUME NEW r, NEW n \in Nat, \A j \in 1..n : r[j].name # "end"
    PROVE  /\ HeadOf(r, n) = 1..n /\ HeadOf(r, n + 1) = 1..(n + 1) /\ ~HeadComplete(r, n)
           /\ HeadSize(r, n + 1) = HeadSize(r, n) + r[n + 1].size
           /\ Lengths(r, n + 1) = Lengths(r, n) \cup
                  (IF r[n + 1].name = "length" THEN {r[n + 1].value} ELSE {})
<1>1. \A i \in 1..(n + 1) : InHead(r, i)
    <2> SUFFICES ASSUME NEW i \in 1..(n + 1), NEW j \in 1..(i - 1) PROVE j \in 1..n
        BY DEF InHead
    <2> QED
        OBVIOUS
<1>2. HeadOf(r, n) = 1..n
    <2>1. 1..n \subseteq 1..(n + 1)
        OBVIOUS
    <2> QED
        BY <1>1, <2>1 DEF HeadOf
<1>3. HeadOf(r, n + 1) = 1..(n + 1)
    BY <1>1 DEF HeadOf
<1>4. ~HeadComplete(r, n)
    BY <1>2 DEF HeadComplete
<1>5. HeadSize(r, n + 1) = HeadSize(r, n) + r[n + 1].size
    <2>1. n + 1 \in 1..(n + 1)
        OBVIOUS
    <2> QED
        BY <1>1, <2>1, HeadSizeNext DEF Adds
<1>6. Lengths(r, n + 1) = Lengths(r, n) \cup
          (IF r[n + 1].name = "length" THEN {r[n + 1].value} ELSE {})
    <2>1. 1..(n + 1) = (1..n) \cup {n + 1}
        OBVIOUS
    <2> QED
        BY <1>2, <1>3, <2>1 DEF Lengths
<1> QED
    BY <1>2, <1>3, <1>4, <1>5, <1>6

\* Behind the blank line nothing changes the head.
LEMMA HeadStays ==
    ASSUME NEW r, NEW n \in Nat, HeadComplete(r, n)
    PROVE  /\ HeadOf(r, n + 1) = HeadOf(r, n) /\ HeadComplete(r, n + 1)
           /\ HeadSize(r, n + 1) = HeadSize(r, n) + 0
           /\ Lengths(r, n + 1) = Lengths(r, n)
           /\ Malformed(r, n + 1) <=> Malformed(r, n)
<1>1. PICK e \in HeadOf(r, n) : r[e].name = "end"
    BY DEF HeadComplete
<1>2. ~InHead(r, n + 1)
    <2>1. e \in 1..((n + 1) - 1)
        BY DEF HeadOf
    <2> QED
        BY <1>1, <2>1 DEF InHead
<1>3. HeadOf(r, n + 1) = HeadOf(r, n)
    <2>1. 1..(n + 1) = (1..n) \cup {n + 1}
        OBVIOUS
    <2> QED
        BY <1>2, <2>1 DEF HeadOf
<1>4. HeadSize(r, n + 1) = HeadSize(r, n) + 0
    BY <1>2, HeadSizeNext DEF Adds
<1>5. Lengths(r, n + 1) = Lengths(r, n)
    BY <1>3 DEF Lengths
<1> QED
    BY <1>3, <1>4, <1>5 DEF HeadComplete, Malformed

-----------------------------------------------------------------------------
(* The inductive invariant.                                                *)

Statuses == {200, 400, 404, 405, 408, 413, 431, 503}

Connection(c) ==
    [phase : Reading \cup {"absent", "closing", "closed"}, sends : Requests[c] \cup {<<>>},
     arrived : Nat, eof : BOOLEAN, read : Nat, total : Nat,
     length : Nat \cup {-1, BadLength, NoLength}, body : Nat, answer : Seq(Statuses)]

TypeOK ==
    /\ DOMAIN conn = Conns
    /\ \A c \in Conns : conn[c] \in Connection(c)
    /\ listener \in {"open", "stopping", "stopped"}
    /\ lifecycle \in {"starting", "running", "draining"}

\* What the parser has of the Content-Length is what the head says of it.
LengthIs(k) == Lengths(k.sends, k.read) = IF k.length = NoLength THEN {} ELSE {k.length}

InLine(k) == k.read = 0 /\ k.total = 0 /\ k.length = NoLength /\ k.body = 0

\* Between two header lines: nothing is wrong yet, the sum is the size of the
\* head so far, and it leaves room.
InHeaders(k) ==
    /\ k.read # 0 /\ k.body = 0
    /\ \A j \in 1..k.read : k.sends[j].name # "end"
    /\ ~Malformed(k.sends, k.read) /\ LengthIs(k)
    /\ k.total = HeadSize(k.sends, k.read) /\ k.total < HeaderMax

\* Between two bytes of the body: the head is complete and in order, the rest
\* of what was read is body, and some of it is missing.
InBody(k) ==
    /\ k.length \in 1..BodyMax /\ k.body < k.length
    /\ k.body <= k.read /\ HeadOf(k.sends, k.read) = 1..(k.read - k.body)
    /\ HeadComplete(k.sends, k.read)
    /\ ~Malformed(k.sends, k.read) /\ LengthIs(k)
    /\ HeadSize(k.sends, k.read) <= HeaderMax

Parsing(k) ==
    /\ k.phase \in Reading =>
          /\ IsRequest(k.sends) /\ k.answer = <<>>
          /\ k.read <= k.arrived /\ k.arrived <= Len(k.sends)
    /\ k.phase = "line" => InLine(k)
    /\ k.phase = "headers" => InHeaders(k)
    /\ k.phase = "body" => InBody(k)

Answered(k) ==
    /\ k.phase = "closing" => \E status \in Deserved(k) : k.answer = <<status>>
    /\ k.phase \in {"absent", "closed"} => k.answer = <<>>

IInv == TypeOK /\ \A c \in Conns : Parsing(conn[c]) /\ Answered(conn[c])

-----------------------------------------------------------------------------
(* What is deserved.                                                       *)

LEMMA RoutedIsRoute ==
    ASSUME NEW l
    PROVE  Routed(l) \in Routes(l) /\ Routed(l) \in Statuses
<1>1. CASE l.method # "GET"
    BY <1>1 DEF Routed, Routes, Statuses
<1>2. CASE l.method = "GET" /\ l.path = "readyz"
    BY <1>2 DEF Routed, Routes, Statuses
<1>3. CASE l.method = "GET" /\ l.path \in {"livez", "status", "metrics"}
    BY <1>3 DEF Routed, Routes, Statuses
<1>4. CASE l.method = "GET" /\ l.path # "readyz" /\ l.path \notin {"livez", "status", "metrics"}
    BY <1>4 DEF Routed, Routes, Statuses
<1> QED
    BY <1>1, <1>2, <1>3, <1>4

\* The verdict looks at what was sent and read alone.
LEMMA DeservedSame ==
    ASSUME NEW k, NEW m, m.sends = k.sends, m.read = k.read, m.eof = k.eof
    PROVE  Deserved(m) = Deserved(k)
BY DEF Deserved, Unfinished

\* While something is missing.
LEMMA DeservedMissing ==
    ASSUME NEW k, k.read \in Nat,
           \/ k.read = 0
           \/ /\ ~Malformed(k.sends, k.read) /\ ~TooLarge(k.sends, k.read)
              /\ ~HeadComplete(k.sends, k.read)
    PROVE  408 \in Deserved(k) /\ (k.eof => 400 \in Deserved(k))
<1>1. Deserved(k) = Unfinished(k)
    BY DEF Deserved
<1> QED
    BY <1>1 DEF Unfinished

\* Once something is wrong with the head.
LEMMA DeservedRefusal ==
    ASSUME NEW k, k.read \in Nat, k.read # 0
    PROVE  /\ Malformed(k.sends, k.read) => 400 \in Deserved(k)
           /\ TooLarge(k.sends, k.read) => 431 \in Deserved(k)
<1>1. CASE Malformed(k.sends, k.read) /\ TooLarge(k.sends, k.read)
    <2>1. Deserved(k) = {400, 431}
        BY <1>1 DEF Deserved
    <2> QED
        BY <2>1
<1>2. CASE Malformed(k.sends, k.read) /\ ~TooLarge(k.sends, k.read)
    <2>1. Deserved(k) = {400}
        BY <1>2 DEF Deserved
    <2> QED
        BY <1>2, <2>1
<1>3. CASE ~Malformed(k.sends, k.read) /\ TooLarge(k.sends, k.read)
    <2>1. Deserved(k) = {431}
        BY <1>3 DEF Deserved
    <2> QED
        BY <1>3, <2>1
<1> QED
    BY <1>1, <1>2, <1>3

\* Once the head is complete and in order, the length and the body decide.
LEMMA DeservedWhole ==
    ASSUME NEW k, k.read \in Nat, k.read # 0, NEW h \in 0..k.read, NEW length \in Int,
           ~Malformed(k.sends, k.read), ~TooLarge(k.sends, k.read), HeadComplete(k.sends, k.read),
           HeadOf(k.sends, k.read) = 1..h,
           Lengths(k.sends, k.read) = {length} \/ (Lengths(k.sends, k.read) = {} /\ length = 0)
    PROVE  Deserved(k) =
               CASE length < 0 -> {400}
                 [] length > BodyMax -> {413}
                 [] length \in 0 .. BodyMax /\ k.read - h < length -> Unfinished(k)
                 [] OTHER -> Routes(k.sends[1])
<1> DEFINE lengths == Lengths(k.sends, k.read)
           found == IF lengths = {} THEN 0 ELSE CHOOSE v \in lengths : TRUE
           rest == k.read - Cardinality(HeadOf(k.sends, k.read))
<1>1. found = length
    <2>1. CASE lengths = {length}
        <3>1. lengths # {} /\ \A v \in lengths : v = length
            BY <2>1
        <3> QED
            BY <3>1
    <2>2. CASE lengths = {} /\ length = 0
        BY <2>2
    <2> QED
        BY <2>1, <2>2
<1>2. rest = k.read - h
    <2>1. Cardinality(1..h) = IF 1 > h THEN 0 ELSE h - 1 + 1
        <3>1. 1 \in Int /\ h \in Int
            OBVIOUS
        <3> QED
            BY <3>1, FS_Interval
    <2>2. Cardinality(1..h) = h
        BY <2>1
    <2> QED
        BY <2>2
<1>3. Deserved(k) =
          CASE found < 0 -> {400}
            [] found > BodyMax -> {413}
            [] found \in 0 .. BodyMax /\ rest < found -> Unfinished(k)
            [] OTHER -> Routes(k.sends[1])
    BY DEF Deserved
<1> HIDE DEF found, rest
<1> QED
    BY <1>1, <1>2, <1>3

-----------------------------------------------------------------------------
(* The answers.                                                            *)

LEMMA AnswersKeep ==
    ASSUME NEW c \in Conns, NEW k \in Connection(c), k.answer = <<>>,
           NEW status \in Statuses, status \in Deserved(k)
    PROVE  /\ Answer(k, status) \in Connection(c)
           /\ Parsing(Answer(k, status)) /\ Answered(Answer(k, status))
<1> DEFINE m == Answer(k, status)
<1>1. Append(k.answer, status) = <<status>> /\ <<status>> \in Seq(Statuses)
    OBVIOUS
<1>2. m = [k EXCEPT !.phase = "closing", !.answer = <<status>>]
    BY <1>1 DEF Answer
<1>3. m \in Connection(c) /\ m.phase = "closing" /\ m.answer = <<status>>
    BY <1>1, <1>2 DEF Connection
<1>4. m.sends = k.sends /\ m.read = k.read /\ m.eof = k.eof
    BY <1>2 DEF Connection
<1> HIDE DEF m
<1>5. status \in Deserved(m)
    BY <1>4, DeservedSame
<1>6. Parsing(m)
    BY <1>3 DEF Parsing, Reading
<1>7. Answered(m)
    BY <1>3, <1>5 DEF Answered
<1> QED
    BY <1>3, <1>6, <1>7 DEF m

\* The fields of the sizes, as integers.
LEMMA Limits ==
    /\ HeaderMax \in Nat \ {0} /\ BodyMax \in Nat
    /\ \A v \in Nat \cup {-1, BadLength} : v \in Int /\ v # NoLength
    /\ BadLength < 0
BY AdminAssumption DEF NoLength, BadLength

\* The request line.
LEMMA LineKeeps ==
    ASSUME NEW c \in Conns, NEW k \in Connection(c), IsRequest(k.sends), k.answer = <<>>,
           k.phase = "line", k.read = 1, k.read <= k.arrived, k.arrived <= Len(k.sends),
           k.total = 0, k.length = NoLength, k.body = 0
    PROVE  LET m == LineRead(k, k.sends[1])
           IN  m \in Connection(c) /\ Parsing(m) /\ Answered(m)
<1> DEFINE r == k.sends
           l == r[1]
<1>1. l.name = "request" /\ l.size \in Nat /\ \A j \in 1..1 : r[j].name # "end"
    <2>1. 1 \in 1..Len(r)
        BY DEF IsRequest
    <2> QED
        BY <2>1 DEF IsRequest
<1>2. HeadSize(r, 1) = l.size /\ Lengths(r, 1) = {} /\ ~HeadComplete(r, 1) /\ HeadOf(r, 1) = 1..1
    <2>1. \A j \in 1..0 : r[j].name # "end"
        OBVIOUS
    <2>2. /\ HeadSize(r, 0 + 1) = HeadSize(r, 0) + r[0 + 1].size
          /\ Lengths(r, 0 + 1) = Lengths(r, 0) \cup
                (IF r[0 + 1].name = "length" THEN {r[0 + 1].value} ELSE {})
          /\ HeadOf(r, 0) = 1..0
        BY <2>1, HeadGrows
    <2>3. HeadSize(r, 0) = 0
        BY HeadSizeNext
    <2>4. Lengths(r, 0) = {}
        BY <2>2 DEF Lengths
    <2>5. ~HeadComplete(r, 1) /\ HeadOf(r, 1) = 1..1
        BY <1>1, HeadGrows
    <2> QED
        BY <2>2, <2>3, <2>4, <2>5, <1>1
<1> HIDE DEF l
<1>3. TooLarge(r, 1) <=> l.size >= HeaderMax
    BY <1>1, <1>2, Limits DEF TooLarge
<1>4. Malformed(r, 1) <=> ~l.wellFormed
    <2>1. \A i \in HeadOf(r, 1) : r[i].name = "request"
        <3>1. \A i \in 1..1 : i = 1
            OBVIOUS
        <3> QED
            BY <3>1, <1>1, <1>2 DEF l
    <2> QED
        BY <2>1, <1>2 DEF Malformed, l
<1>5. 400 \in Statuses /\ 431 \in Statuses
    BY DEF Statuses
<1>6. /\ ~l.wellFormed => 400 \in Deserved(k)
      /\ l.size >= HeaderMax => 431 \in Deserved(k)
    BY <1>3, <1>4, DeservedRefusal
<1>7. CASE l.size > HeaderMax
    <2>1. LineRead(k, l) = Answer(k, 431) /\ 431 \in Deserved(k)
        BY <1>1, <1>6, <1>7, Limits DEF LineRead
    <2> QED
        BY <2>1, <1>5, AnswersKeep DEF l
<1>8. CASE l.size <= HeaderMax /\ ~l.wellFormed
    <2>1. LineRead(k, l) = Answer(k, 400) /\ 400 \in Deserved(k)
        BY <1>1, <1>6, <1>8, Limits DEF LineRead
    <2> QED
        BY <2>1, <1>5, AnswersKeep DEF l
<1>9. CASE l.size = HeaderMax /\ l.wellFormed
    <2>1. LineRead(k, l) = Answer(k, 431) /\ 431 \in Deserved(k)
        BY <1>1, <1>6, <1>9, Limits DEF LineRead
    <2> QED
        BY <2>1, <1>5, AnswersKeep DEF l
<1>10. CASE l.size < HeaderMax /\ l.wellFormed
    <2> DEFINE m == [k EXCEPT !.phase = "headers", !.total = l.size]
    <2>1. LineRead(k, l) = m
        BY <1>1, <1>10, Limits DEF LineRead
    <2>2. /\ m \in Connection(c) /\ m.phase = "headers" /\ m.total = l.size
          /\ m.sends = r /\ m.read = 1 /\ m.body = 0 /\ m.length = NoLength
          /\ m.arrived = k.arrived /\ m.answer = <<>>
        BY <1>1 DEF Connection, Reading
    <2> HIDE DEF m
    <2>3. InHeaders(m)
        BY <2>2, <1>1, <1>2, <1>4, <1>10 DEF InHeaders, LengthIs
    <2>4. Parsing(m) /\ Answered(m)
        BY <2>2, <2>3 DEF Parsing, Answered
    <2> QED
        BY <2>1, <2>2, <2>4 DEF l
<1>11. \/ l.size > HeaderMax
       \/ l.size <= HeaderMax /\ ~l.wellFormed
       \/ l.size = HeaderMax /\ l.wellFormed
       \/ l.size < HeaderMax /\ l.wellFormed
    BY <1>1, Limits
<1> QED
    BY <1>7, <1>8, <1>9, <1>10, <1>11

\* The blank line.
LEMMA EndKeeps ==
    ASSUME NEW c \in Conns, NEW k \in Connection(c), IsRequest(k.sends), k.answer = <<>>,
           k.phase = "headers", k.read # 0, k.read <= k.arrived, k.arrived <= Len(k.sends),
           k.body = 0, HeadOf(k.sends, k.read) = 1..k.read, HeadComplete(k.sends, k.read),
           ~Malformed(k.sends, k.read), LengthIs(k), HeadSize(k.sends, k.read) <= HeaderMax
    PROVE  LET m == HeadersEnd(k)
           IN  m \in Connection(c) /\ Parsing(m) /\ Answered(m)
<1> DEFINE r == k.sends
           length == IF k.length = NoLength THEN 0 ELSE k.length
<1>1. /\ k.read \in Nat /\ k.read \in 0..k.read /\ k.read - k.read = 0 /\ k.read \in 0..Len(r)
      /\ k.length \in Int /\ length \in Int
      /\ k.length # NoLength => k.length \in Nat \cup {-1, BadLength}
    <2>1. k.read \in Nat /\ k.arrived \in Nat /\ k.length \in Nat \cup {-1, BadLength, NoLength}
        BY DEF Connection
    <2>2. Len(r) \in Nat
        BY DEF IsRequest
    <2> QED
        BY <2>1, <2>2 DEF NoLength, BadLength
<1>2. HeadSize(r, k.read) \in Nat
    BY <1>1, HeadSizeType
<1>3. ~TooLarge(r, k.read)
    BY <1>2, Limits DEF TooLarge
<1>4. Lengths(r, k.read) = {length} \/ (Lengths(r, k.read) = {} /\ length = 0)
    BY DEF LengthIs
<1> HIDE DEF length
<1>5. Deserved(k) =
          CASE length < 0 -> {400}
            [] length > BodyMax -> {413}
            [] length \in 0 .. BodyMax /\ k.read - k.read < length -> Unfinished(k)
            [] OTHER -> Routes(r[1])
    BY <1>1, <1>3, <1>4, DeservedWhole
<1>6. /\ length < 0 => Deserved(k) = {400}
      /\ length > BodyMax => Deserved(k) = {413}
      /\ length = 0 => Deserved(k) = Routes(r[1])
    <2>1. /\ length < 0 => ~(length > BodyMax) /\ length \notin 0..BodyMax
          /\ length > BodyMax => ~(length < 0) /\ length \notin 0..BodyMax
          /\ length = 0 => /\ ~(length < 0) /\ ~(length > BodyMax)
                           /\ ~(k.read - k.read < length)
        BY <1>1, Limits
    <2> QED
        BY <1>5, <2>1
<1>7. {400, 413} \subseteq Statuses /\ Routed(r[1]) \in Statuses /\ Routed(r[1]) \in Routes(r[1])
    BY RoutedIsRoute DEF Statuses
<1>8. CASE k.length = NoLength \/ k.length = 0
    <2>1. length = 0
        BY <1>8 DEF length
    <2>2. ~(k.length < 0 /\ k.length # NoLength) /\ ~(k.length > BodyMax)
        BY <1>8, Limits DEF NoLength
    <2>3. HeadersEnd(k) = Answer(k, Routed(r[1]))
        BY <2>2, <1>8 DEF HeadersEnd
    <2> QED
        BY <2>1, <2>3, <1>6, <1>7, AnswersKeep
<1>9. CASE k.length # NoLength /\ k.length < 0
    <2>1. length < 0
        BY <1>9 DEF length
    <2>2. HeadersEnd(k) = Answer(k, 400)
        BY <1>1, <1>9, Limits DEF HeadersEnd
    <2> QED
        BY <2>1, <2>2, <1>6, <1>7, AnswersKeep
<1>10. CASE k.length > BodyMax
    <2>1. length > BodyMax /\ k.length # NoLength /\ k.length # BadLength /\ ~(k.length < 0) /\ k.length # 0
        BY <1>1, <1>10, Limits DEF length, NoLength, BadLength
    <2>2. HeadersEnd(k) = Answer(k, 413)
        BY <2>1, <1>10 DEF HeadersEnd
    <2> QED
        BY <2>1, <2>2, <1>6, <1>7, AnswersKeep
<1>11. CASE k.length \in 1..BodyMax
    <2>1. k.length # NoLength /\ k.length # BadLength /\ ~(k.length < 0) /\ k.length # 0 /\ ~(k.length > BodyMax)
        BY <1>1, <1>11, Limits DEF NoLength, BadLength
    <2> DEFINE m == [k EXCEPT !.phase = "body"]
    <2>2. HeadersEnd(k) = m
        BY <2>1 DEF HeadersEnd
    <2>3. /\ m \in Connection(c) /\ m.phase = "body" /\ m.total = k.total
          /\ m.sends = r /\ m.read = k.read /\ m.body = 0 /\ m.length = k.length
          /\ m.arrived = k.arrived /\ m.answer = <<>>
        BY DEF Connection, Reading
    <2> HIDE DEF m
    <2>4. k.read - 0 = k.read /\ 0 <= k.read /\ 0 < k.length
        BY <1>1, <1>11
    <2>5. InBody(m)
        BY <2>3, <2>4, <1>11 DEF InBody, LengthIs
    <2>6. Parsing(m) /\ Answered(m)
        BY <2>3, <2>5 DEF Parsing, Answered
    <2> QED
        BY <2>2, <2>3, <2>6
<1>12. \/ k.length = NoLength \/ k.length = 0
       \/ k.length # NoLength /\ k.length < 0
       \/ k.length > BodyMax \/ k.length \in 1..BodyMax
    BY <1>1, Limits
<1> QED
    BY <1>8, <1>9, <1>10, <1>11, <1>12

\* A header line.
LEMMA HeaderKeeps ==
    ASSUME NEW c \in Conns, NEW k \in Connection(c), IsRequest(k.sends), k.answer = <<>>,
           k.phase = "headers", NEW n \in Nat, n # 0, k.read = n + 1,
           k.read <= k.arrived, k.arrived <= Len(k.sends), k.body = 0,
           \A j \in 1..n : k.sends[j].name # "end",
           ~Malformed(k.sends, n), k.total = HeadSize(k.sends, n), k.total < HeaderMax,
           Lengths(k.sends, n) = IF k.length = NoLength THEN {} ELSE {k.length}
    PROVE  LET m == HeaderRead(k, k.sends[n + 1])
           IN  m \in Connection(c) /\ Parsing(m) /\ Answered(m)
<1> DEFINE r == k.sends
           l == r[n + 1]
           size == k.total + l.size
           lengthNow == IF l.name = "length" THEN l.value ELSE k.length
           next == [k EXCEPT !.total = size, !.length = lengthNow]
<1>1. /\ k.read \in Nat /\ k.read # 0 /\ k.read \in 0..Len(r) /\ n \in 0..Len(r) /\ n + 1 \in 1..Len(r)
      /\ k.total \in Nat /\ l.size \in Nat /\ k.length \in Nat \cup {-1, BadLength, NoLength}
      /\ l.name = "length" => l.value \in Nat \cup {-1, BadLength}
    <2>1. /\ k.arrived \in Nat /\ Len(r) \in Nat /\ k.total \in Nat
          /\ k.length \in Nat \cup {-1, BadLength, NoLength}
        BY DEF Connection, IsRequest
    <2>2. n + 1 \in 1..Len(r)
        BY <2>1
    <2>3. l.size \in Nat /\ (l.name = "length" => l.value \in Nat \cup {-1, BadLength})
        BY <2>2 DEF IsRequest
    <2> QED
        BY <2>1, <2>2, <2>3
<1>2. size \in Nat /\ lengthNow \in Nat \cup {-1, BadLength, NoLength}
    <2> HIDE DEF l
    <2> QED
        BY <1>1
<1>3. /\ HeadOf(r, n) = 1..n /\ HeadOf(r, n + 1) = 1..(n + 1)
      /\ HeadSize(r, n + 1) = size
      /\ Lengths(r, n + 1) = Lengths(r, n) \cup (IF l.name = "length" THEN {l.value} ELSE {})
    BY HeadGrows
<1>4. /\ next \in Connection(c) /\ next.phase = "headers" /\ next.total = size
      /\ next.sends = r /\ next.read = n + 1 /\ next.body = 0 /\ next.length = lengthNow
      /\ next.arrived = k.arrived /\ next.answer = <<>>
    <2> HIDE DEF size, lengthNow
    <2> QED
        BY <1>2 DEF Connection
<1>5. HeaderRead(k, l) =
          CASE size > HeaderMax -> Answer(k, 431)
            [] size <= HeaderMax /\ l.name = "end" -> HeadersEnd(next)
            [] size <= HeaderMax /\ Rejected(k, l) -> Answer(k, 400)
            [] OTHER -> IF size = HeaderMax THEN Answer(next, 431) ELSE next
    BY DEF HeaderRead
<1> HIDE DEF next, size, lengthNow, l
<1>6. l.name = "end" => ~Rejected(k, l)
    BY DEF Rejected
<1>7. HeadComplete(r, n + 1) <=> l.name = "end"
    <2>1. n + 1 \in 1..(n + 1) /\ \A i \in 1..(n + 1) : i = n + 1 \/ i \in 1..n
        OBVIOUS
    <2> QED
        BY <2>1, <1>3 DEF HeadComplete, l
<1>8. Malformed(r, n + 1) <=> Rejected(k, l)
    <2>1. n + 1 \in 1..(n + 1) /\ \A i \in 1..(n + 1) : i = n + 1 \/ i \in 1..n
        OBVIOUS
    <2>2. 1..n \subseteq 1..(n + 1)
        OBVIOUS
    <2>3. /\ r[1].wellFormed
          /\ \A v, w \in Lengths(r, n) : v = w
          /\ \A i \in 1..n : /\ r[i].name # "none"
                             /\ ~(r[i].name = "encoding" /\ r[i].value # "identity")
        BY <1>3 DEF Malformed
    <2>4. Malformed(r, n + 1) <=>
              \/ \E v, w \in Lengths(r, n + 1) : v # w
              \/ l.name = "none" \/ (l.name = "encoding" /\ l.value # "identity")
        BY <2>1, <2>2, <2>3, <1>3 DEF Malformed, l
    <2>5. (\E v, w \in Lengths(r, n + 1) : v # w)
              <=> (l.name = "length" /\ k.length # NoLength /\ l.value # k.length)
        BY <1>3
    <2> QED
        BY <2>4, <2>5 DEF Rejected
<1>9. TooLarge(r, n + 1) <=> size > HeaderMax \/ (size = HeaderMax /\ l.name # "end")
    BY <1>3, <1>7 DEF TooLarge
<1>10. 400 \in Statuses /\ 431 \in Statuses
    BY DEF Statuses
<1>11. /\ Rejected(k, l) => 400 \in Deserved(k)
       /\ size > HeaderMax \/ (size = HeaderMax /\ l.name # "end") => 431 \in Deserved(k)
    BY <1>1, <1>8, <1>9, DeservedRefusal
<1>12. CASE size > HeaderMax
    <2>1. ~(size <= HeaderMax)
        BY <1>2, <1>12, Limits
    <2>2. HeaderRead(k, l) = Answer(k, 431) /\ 431 \in Deserved(k)
        BY <2>1, <1>5, <1>11, <1>12
    <2> QED
        BY <2>2, <1>10, AnswersKeep DEF l
<1>13. CASE size <= HeaderMax /\ Rejected(k, l)
    <2>1. ~(size > HeaderMax)
        BY <1>2, <1>13, Limits
    <2>2. HeaderRead(k, l) = Answer(k, 400) /\ 400 \in Deserved(k)
        BY <2>1, <1>5, <1>6, <1>11, <1>13
    <2> QED
        BY <2>2, <1>10, AnswersKeep DEF l
<1>14. ASSUME ~Rejected(k, l) PROVE LengthIs(next) /\ ~Malformed(next.sends, next.read)
    <2>1. Lengths(r, n + 1) = IF lengthNow = NoLength THEN {} ELSE {lengthNow}
        <3>1. CASE l.name = "length"
            <4>1. l.value # NoLength
                BY <3>1, <1>1, Limits
            <4>2. k.length = NoLength \/ k.length = l.value
                BY <3>1, <1>14 DEF Rejected
            <4> QED
                BY <3>1, <4>1, <4>2, <1>3 DEF lengthNow
        <3>2. CASE l.name # "length"
            BY <3>2, <1>3 DEF lengthNow
        <3> QED
            BY <3>1, <3>2
    <2> QED
        BY <2>1, <1>4, <1>8, <1>14 DEF LengthIs
<1>15. CASE size <= HeaderMax /\ l.name = "end"
    <2>1. ~(size > HeaderMax) /\ ~Rejected(k, l)
        BY <1>2, <1>6, <1>15, Limits
    <2>2. HeaderRead(k, l) = HeadersEnd(next)
        BY <2>1, <1>5, <1>15
    <2>3. /\ next \in Connection(c) /\ IsRequest(next.sends) /\ next.answer = <<>>
          /\ next.phase = "headers" /\ next.read # 0 /\ next.read <= next.arrived
          /\ next.arrived <= Len(next.sends) /\ next.body = 0
          /\ HeadOf(next.sends, next.read) = 1..next.read /\ HeadComplete(next.sends, next.read)
          /\ HeadSize(next.sends, next.read) <= HeaderMax
        BY <1>1, <1>3, <1>4, <1>7, <1>15
    <2> HIDE DEF r
    <2>4. HeadersEnd(next) \in Connection(c) /\ Parsing(HeadersEnd(next)) /\ Answered(HeadersEnd(next))
        BY <2>1, <2>3, <1>14, EndKeeps
    <2> QED
        BY <2>2, <2>4 DEF l, r
<1>16. CASE size <= HeaderMax /\ l.name # "end" /\ ~Rejected(k, l)
    <2>1. HeaderRead(k, l) = IF size = HeaderMax THEN Answer(next, 431) ELSE next
        <3>1. ~(size > HeaderMax)
            BY <1>2, <1>16, Limits
        <3> QED
            BY <3>1, <1>5, <1>16
    <2>2. CASE size = HeaderMax
        <3>1. 431 \in Deserved(next)
            <4>1. TooLarge(next.sends, next.read) /\ next.read \in Nat /\ next.read # 0
                BY <2>2, <1>4, <1>9, <1>16
            <4> QED
                BY <4>1, DeservedRefusal
        <3> QED
            BY <2>1, <2>2, <3>1, <1>4, <1>10, AnswersKeep DEF l
    <2>3. CASE size # HeaderMax
        <3>1. size < HeaderMax
            BY <2>3, <1>2, <1>16, Limits
        <3>2. \A j \in 1..(n + 1) : r[j].name # "end"
            <4>1. \A i \in 1..(n + 1) : i = n + 1 \/ i \in 1..n
                OBVIOUS
            <4> QED
                BY <4>1, <1>16 DEF l
        <3>3. InHeaders(next)
            BY <3>1, <3>2, <1>1, <1>3, <1>4, <1>14, <1>16 DEF InHeaders
        <3>4. Parsing(next) /\ Answered(next)
            BY <3>3, <1>4 DEF Parsing, Answered
        <3> QED
            BY <2>1, <2>3, <3>4, <1>4 DEF l
    <2> QED
        BY <2>2, <2>3
<1>17. size > HeaderMax \/ size <= HeaderMax
    BY <1>2, Limits
<1> QED
    BY <1>12, <1>13, <1>15, <1>16, <1>17 DEF l

\* What a complete head makes of the bytes behind it.
LEMMA WholeVerdict ==
    ASSUME NEW c \in Conns, NEW k \in Connection(c), IsRequest(k.sends), k.read <= Len(k.sends),
           k.length \in 1..BodyMax, NEW h \in 0..k.read, k.read # 0,
           HeadOf(k.sends, k.read) = 1..h, HeadComplete(k.sends, k.read),
           ~Malformed(k.sends, k.read), LengthIs(k), HeadSize(k.sends, k.read) <= HeaderMax
    PROVE  Deserved(k) = IF k.read - h < k.length THEN Unfinished(k) ELSE Routes(k.sends[1])
<1>1. /\ k.read \in Nat /\ k.length \in Int /\ k.length # NoLength /\ k.read \in 0..Len(k.sends)
      /\ ~(k.length < 0) /\ ~(k.length > BodyMax) /\ k.length \in 0..BodyMax
    <2>1. k.read \in Nat /\ Len(k.sends) \in Nat
        BY DEF Connection, IsRequest
    <2> QED
        BY <2>1, Limits DEF NoLength
<1>2. ~TooLarge(k.sends, k.read)
    <2>1. HeadSize(k.sends, k.read) \in Nat
        BY <1>1, HeadSizeType
    <2> QED
        BY <2>1, Limits DEF TooLarge
<1>3. Lengths(k.sends, k.read) = {k.length}
    BY <1>1 DEF LengthIs
<1>4. Deserved(k) =
          CASE k.length < 0 -> {400}
            [] k.length > BodyMax -> {413}
            [] k.length \in 0 .. BodyMax /\ k.read - h < k.length -> Unfinished(k)
            [] OTHER -> Routes(k.sends[1])
    BY <1>1, <1>2, <1>3, DeservedWhole
<1> QED
    BY <1>1, <1>4

\* A byte of the body.
LEMMA BodyKeeps ==
    ASSUME NEW c \in Conns, NEW k \in Connection(c), IsRequest(k.sends), k.answer = <<>>,
           k.phase = "body", NEW n \in Nat, k.read = n + 1,
           k.read <= k.arrived, k.arrived <= Len(k.sends),
           k.length \in 1..BodyMax, k.body < k.length, k.body <= n,
           HeadOf(k.sends, n) = 1..(n - k.body), HeadComplete(k.sends, n), ~Malformed(k.sends, n),
           Lengths(k.sends, n) = IF k.length = NoLength THEN {} ELSE {k.length},
           HeadSize(k.sends, n) <= HeaderMax
    PROVE  LET m == BodyRead(k)
           IN  m \in Connection(c) /\ Parsing(m) /\ Answered(m)
<1> DEFINE r == k.sends
           h == n - k.body
           m == [k EXCEPT !.body = k.body + 1]
<1>1. /\ k.body \in Nat /\ h \in Nat /\ h \in 0..(n + 1) /\ k.read # 0 /\ k.read \in Nat
      /\ k.arrived \in Nat /\ Len(r) \in Nat /\ k.read <= Len(r) /\ k.length \in Nat
      /\ h = (n + 1) - (k.body + 1) /\ k.body + 1 \in Nat /\ k.body + 1 <= n + 1
      /\ n \in 0..Len(r)
    <2>1. k.body \in Nat /\ k.arrived \in Nat /\ Len(r) \in Nat
        BY DEF Connection, IsRequest
    <2>2. k.length \in Nat
        BY Limits
    <2>3. h \in Nat /\ h \in 0..(n + 1) /\ h = (n + 1) - (k.body + 1)
        BY <2>1
    <2>4. k.body + 1 \in Nat /\ k.body + 1 <= n + 1
        BY <2>1
    <2>5. k.read # 0 /\ k.read \in Nat /\ k.read <= Len(r) /\ n \in 0..Len(r)
        BY <2>1
    <2> QED
        BY <2>1, <2>2, <2>3, <2>4, <2>5
<1>2. HeadSize(r, n + 1) <= HeaderMax
    <2>1. HeadSize(r, n) \in Nat
        BY <1>1, HeadSizeType
    <2>2. HeadSize(r, n + 1) = HeadSize(r, n) + 0
        BY HeadStays
    <2> QED
        BY <2>1, <2>2
<1>3. /\ HeadOf(r, n + 1) = 1..h /\ HeadComplete(r, n + 1) /\ ~Malformed(r, n + 1)
      /\ Lengths(r, n + 1) = Lengths(r, n)
    BY HeadStays
<1>4. /\ m \in Connection(c) /\ m.phase = "body" /\ m.sends = r /\ m.read = n + 1 /\ m.answer = <<>>
      /\ m.body = k.body + 1 /\ m.length = k.length /\ m.arrived = k.arrived
    BY <1>1 DEF Connection
<1>5. BodyRead(k) = IF k.body + 1 = k.length THEN Answer(m, Routed(r[1])) ELSE m
    BY DEF BodyRead
<1> HIDE DEF m, h
<1>6. LengthIs(m)
    BY <1>3, <1>4 DEF LengthIs
<1>7. Deserved(m) = IF m.read - h < m.length THEN Unfinished(m) ELSE Routes(m.sends[1])
    <2>1. /\ IsRequest(m.sends) /\ m.read <= Len(m.sends) /\ m.length \in 1..BodyMax
          /\ h \in 0..m.read /\ m.read # 0
          /\ HeadOf(m.sends, m.read) = 1..h /\ HeadComplete(m.sends, m.read)
          /\ ~Malformed(m.sends, m.read) /\ HeadSize(m.sends, m.read) <= HeaderMax
        BY <1>1, <1>2, <1>3, <1>4
    <2> QED
        BY <2>1, <1>4, <1>6, WholeVerdict
<1>8. CASE k.body + 1 = k.length
    <2>1. ~(m.read - h < m.length)
        BY <1>1, <1>4, <1>8
    <2>2. Routed(r[1]) \in Deserved(m) /\ Routed(r[1]) \in Statuses
        BY <2>1, <1>4, <1>7, RoutedIsRoute
    <2>3. BodyRead(k) = Answer(m, Routed(r[1]))
        BY <1>5, <1>8
    <2> QED
        BY <2>2, <2>3, <1>4, AnswersKeep
<1>9. CASE k.body + 1 # k.length
    <2>1. BodyRead(k) = m
        BY <1>5, <1>9
    <2>2. k.body + 1 < k.length
        BY <1>1, <1>9
    <2>3. m.read - m.body = h
        BY <1>1, <1>4
    <2>4. InBody(m)
        BY <2>2, <2>3, <1>1, <1>2, <1>3, <1>4, <1>6 DEF InBody
    <2>5. Parsing(m) /\ Answered(m)
        BY <2>4, <1>4 DEF Parsing, Answered
    <2> QED
        BY <2>1, <2>5, <1>4
<1> QED
    BY <1>8, <1>9

\* While a request is being read something is missing of it.
LEMMA StillMissing ==
    ASSUME NEW c \in Conns, NEW k \in Connection(c), Parsing(k), k.phase \in Reading
    PROVE  408 \in Deserved(k) /\ (k.eof => 400 \in Deserved(k))
<1>1. k.read \in Nat /\ IsRequest(k.sends) /\ k.read <= Len(k.sends)
    <2>1. k.read \in Nat /\ k.arrived \in Nat /\ IsRequest(k.sends)
        BY DEF Connection, Parsing
    <2>2. k.read <= k.arrived /\ k.arrived <= Len(k.sends) /\ Len(k.sends) \in Nat
        BY DEF Parsing, IsRequest
    <2> QED
        BY <2>1, <2>2
<1>2. CASE k.phase = "line"
    BY <1>1, <1>2, DeservedMissing DEF Parsing, InLine
<1>3. CASE k.phase = "headers"
    <2>1. InHeaders(k)
        BY <1>3 DEF Parsing
    <2>2. ~HeadComplete(k.sends, k.read)
        BY <2>1, <1>1, HeadGrows DEF InHeaders
    <2>3. ~TooLarge(k.sends, k.read)
        <3>1. HeadSize(k.sends, k.read) < HeaderMax
            BY <2>1 DEF InHeaders
        <3>2. HeadSize(k.sends, k.read) \in Nat
            <4>1. k.read \in 0..Len(k.sends)
                BY <1>1 DEF IsRequest
            <4> QED
                BY <4>1, <1>1, HeadSizeType
        <3> QED
            BY <3>1, <3>2, Limits DEF TooLarge
    <2> QED
        BY <2>1, <2>2, <2>3, <1>1, DeservedMissing DEF InHeaders
<1>4. CASE k.phase = "body"
    <2> DEFINE h == k.read - k.body
    <2>1. InBody(k)
        BY <1>4 DEF Parsing
    <2>2. k.body \in Nat /\ k.body < k.length /\ k.length \in 1..BodyMax /\ k.body <= k.read
        BY <2>1 DEF InBody, Connection
    <2>3. h \in 0..k.read /\ k.read - h = k.body
        BY <2>2, <1>1
    <2>4. k.read # 0
        <3>1. PICK i \in HeadOf(k.sends, k.read) : TRUE
            BY <2>1 DEF InBody, HeadComplete
        <3> QED
            BY <3>1 DEF HeadOf
    <2>5. HeadOf(k.sends, k.read) = 1..h
        BY <2>1 DEF InBody
    <2> HIDE DEF h
    <2>6. Deserved(k) = IF k.read - h < k.length THEN Unfinished(k) ELSE Routes(k.sends[1])
        BY <2>1, <2>2, <2>3, <2>4, <2>5, <1>1, WholeVerdict DEF InBody
    <2>7. Deserved(k) = Unfinished(k)
        BY <2>2, <2>3, <2>6
    <2> QED
        BY <2>7 DEF Unfinished
<1> QED
    BY <1>2, <1>3, <1>4 DEF Reading

-----------------------------------------------------------------------------
(* The steps.                                                              *)

\* A step of one connection that leaves it in order.
LEMMA GoesKeeps ==
    ASSUME IInv, NEW c \in Conns, NEW k \in Connection(c), Parsing(k), Answered(k), Goes(c, k)
    PROVE  IInv'
<1>1. conn' = [conn EXCEPT ![c] = k] /\ UNCHANGED <<listener, lifecycle>>
    BY DEF Goes
<1>2. DOMAIN conn' = Conns /\ \A d \in Conns : conn'[d] = IF d = c THEN k ELSE conn[d]
    BY <1>1 DEF IInv, TypeOK
<1>3. TypeOK'
    BY <1>1, <1>2 DEF IInv, TypeOK
<1>4. \A d \in Conns : Parsing(conn'[d]) /\ Answered(conn'[d])
    BY <1>2 DEF IInv
<1> QED
    BY <1>3, <1>4 DEF IInv

LEMMA AtRest ==
    ASSUME NEW c \in Conns
    PROVE  /\ Absent \in Connection(c) /\ Parsing(Absent) /\ Answered(Absent)
           /\ Closed \in Connection(c) /\ Parsing(Closed) /\ Answered(Closed)
<1>1. <<>> \in Seq(Statuses)
    BY EmptySeq
<1>2. /\ Absent \in Connection(c) /\ Absent.phase = "absent" /\ Absent.answer = <<>>
      /\ Closed \in Connection(c) /\ Closed.phase = "closed" /\ Closed.answer = <<>>
    BY <1>1 DEF Absent, Closed, Connection, Reading, NoLength
<1> QED
    BY <1>2 DEF Parsing, Answered, Reading

LEMMA InitEstablishes == Init => IInv
<1> SUFFICES ASSUME Init PROVE IInv
    OBVIOUS
<1>1. DOMAIN conn = Conns /\ \A c \in Conns : conn[c] = Absent
    BY DEF Init
<1>2. TypeOK
    BY <1>1, AtRest DEF Init, TypeOK
<1> QED
    BY <1>1, <1>2, AtRest DEF IInv

LEMMA ReadsKeeps ==
    ASSUME IInv, NEW c \in Conns, Reads(c)
    PROVE  IInv'
<1> DEFINE old == conn[c]
           n == old.read
           k == [old EXCEPT !.read = n + 1]
<1>1. old \in Connection(c) /\ Parsing(old) /\ old.phase \in Reading /\ n < old.arrived
    BY DEF IInv, TypeOK, Reads
<1>2. Goes(c, Parsed(k, k.sends[k.read]))
    BY DEF Reads
<1> HIDE DEF old
<1>3. /\ n \in Nat /\ n + 1 <= old.arrived /\ IsRequest(old.sends) /\ old.answer = <<>>
      /\ old.arrived <= Len(old.sends)
    <2>1. n \in Nat /\ old.arrived \in Nat
        BY <1>1 DEF Connection
    <2> QED
        BY <2>1, <1>1 DEF Parsing
<1>4. /\ k \in Connection(c) /\ k.phase = old.phase /\ k.sends = old.sends /\ k.read = n + 1
      /\ k.arrived = old.arrived /\ k.total = old.total /\ k.length = old.length
      /\ k.body = old.body /\ k.answer = old.answer
    BY <1>1, <1>3 DEF Connection
<1> HIDE DEF n, k
<1>5. ASSUME NEW m, m = Parsed(k, k.sends[k.read])
      PROVE  m \in Connection(c) /\ Parsing(m) /\ Answered(m)
    <2>1. CASE old.phase = "line"
        <3>1. n = 0 /\ old.total = 0 /\ old.length = NoLength /\ old.body = 0
            BY <2>1, <1>1 DEF Parsing, InLine, n
        <3>2. m = LineRead(k, k.sends[1]) /\ k.read = 1
            BY <2>1, <3>1, <1>4, <1>5 DEF Parsed
        <3> QED
            BY <2>1, <3>1, <3>2, <1>3, <1>4, LineKeeps
    <2>2. CASE old.phase = "headers"
        <3>1. InHeaders(old)
            BY <2>2, <1>1 DEF Parsing
        <3>2. m = HeaderRead(k, k.sends[n + 1])
            BY <2>2, <1>4, <1>5 DEF Parsed
        <3>3. n # 0 /\ \A j \in 1..n : old.sends[j].name # "end"
            BY <3>1 DEF InHeaders, n
        <3>4. /\ old.body = 0 /\ ~Malformed(old.sends, n) /\ old.total = HeadSize(old.sends, n)
              /\ old.total < HeaderMax
              /\ Lengths(old.sends, n) = IF old.length = NoLength THEN {} ELSE {old.length}
            BY <3>1 DEF InHeaders, LengthIs, n
        <3>5. /\ k \in Connection(c) /\ IsRequest(k.sends) /\ k.answer = <<>> /\ k.phase = "headers"
              /\ k.read = n + 1 /\ k.read <= k.arrived /\ k.arrived <= Len(k.sends) /\ k.body = 0
              /\ \A j \in 1..n : k.sends[j].name # "end"
              /\ ~Malformed(k.sends, n) /\ k.total = HeadSize(k.sends, n) /\ k.total < HeaderMax
              /\ Lengths(k.sends, n) = IF k.length = NoLength THEN {} ELSE {k.length}
            BY <2>2, <3>3, <3>4, <1>3, <1>4
        <3> QED
            BY <3>2, <3>3, <3>5, <1>3, HeaderKeeps
    <2>3. CASE old.phase = "body"
        <3>1. InBody(old)
            BY <2>3, <1>1 DEF Parsing
        <3>2. m = BodyRead(k)
            BY <2>3, <1>4, <1>5 DEF Parsed
        <3> QED
            BY <2>3, <3>1, <3>2, <1>3, <1>4, BodyKeeps DEF InBody, LengthIs, n
    <2> QED
        BY <2>1, <2>2, <2>3, <1>1 DEF Reading
<1> QED
    BY <1>2, <1>5, GoesKeeps

LEMMA TimesOutKeeps ==
    ASSUME IInv, NEW c \in Conns, TimesOut(c)
    PROVE  IInv'
<1>1. conn[c] \in Connection(c) /\ Parsing(conn[c]) /\ conn[c].phase \in Reading
    BY DEF IInv, TypeOK, TimesOut
<1>2. 408 \in Deserved(conn[c]) /\ 408 \in Statuses /\ conn[c].answer = <<>>
    BY <1>1, StillMissing DEF Statuses, Parsing
<1> QED
    BY <1>1, <1>2, AnswersKeep, GoesKeeps DEF TimesOut

LEMMA EndsEarlyKeeps ==
    ASSUME IInv, NEW c \in Conns, EndsEarly(c)
    PROVE  IInv'
<1>1. conn[c] \in Connection(c) /\ Parsing(conn[c]) /\ conn[c].phase \in Reading /\ conn[c].eof
    BY DEF IInv, TypeOK, EndsEarly
<1>2. 400 \in Deserved(conn[c]) /\ 400 \in Statuses /\ conn[c].answer = <<>>
    BY <1>1, StillMissing DEF Statuses, Parsing
<1> QED
    BY <1>1, <1>2, AnswersKeep, GoesKeeps DEF EndsEarly

LEMMA ConnectsKeeps ==
    ASSUME IInv, NEW c \in Conns, Connects(c)
    PROVE  IInv'
<1>1. PICK r \in Requests[c] : Goes(c, [Absent EXCEPT !.phase = "line", !.sends = r])
    BY DEF Connects
<1> DEFINE k == [Absent EXCEPT !.phase = "line", !.sends = r]
<1>2. IsRequest(r) /\ Len(r) \in Nat
    BY RequestsAssumption DEF IsRequest
<1>3. <<>> \in Seq(Statuses)
    BY EmptySeq
<1>4. /\ k \in Connection(c) /\ k.phase = "line" /\ k.sends = r /\ k.answer = <<>>
      /\ k.read = 0 /\ k.arrived = 0 /\ k.total = 0 /\ k.length = NoLength /\ k.body = 0
    BY <1>3 DEF Absent, Connection, Reading, NoLength
<1> HIDE DEF k
<1>5. Parsing(k) /\ Answered(k)
    BY <1>2, <1>4 DEF Parsing, Answered, InLine
<1> QED
    BY <1>1, <1>4, <1>5, GoesKeeps DEF k

\* What the client does changes neither what was read nor what was answered.
LEMMA ClientKeeps ==
    ASSUME IInv, NEW c \in Conns, Sends(c) \/ HangsUp(c)
    PROVE  IInv'
<1> DEFINE old == conn[c]
<1>1. old \in Connection(c) /\ Parsing(old) /\ old.phase \in Reading
    BY DEF IInv, TypeOK, Sends, HangsUp
<1>2. PICK k : /\ Goes(c, k)
               /\ \/ old.arrived < Len(old.sends) /\ k = [old EXCEPT !.arrived = old.arrived + 1]
                  \/ k = [old EXCEPT !.eof = TRUE]
    BY DEF Sends, HangsUp
<1> HIDE DEF old
<1>3. /\ old.read \in Nat /\ old.arrived \in Nat /\ IsRequest(old.sends) /\ old.answer = <<>>
      /\ old.read <= old.arrived /\ old.arrived <= Len(old.sends) /\ Len(old.sends) \in Nat
    BY <1>1 DEF Connection, Parsing, IsRequest
<1>4. /\ k \in Connection(c) /\ k.phase = old.phase /\ k.sends = old.sends /\ k.read = old.read
      /\ k.total = old.total /\ k.length = old.length /\ k.body = old.body /\ k.answer = old.answer
      /\ k.read <= k.arrived /\ k.arrived <= Len(k.sends)
    <2>1. CASE old.arrived < Len(old.sends) /\ k = [old EXCEPT !.arrived = old.arrived + 1]
        <3>1. old.arrived + 1 \in Nat /\ old.read <= old.arrived + 1 /\ old.arrived + 1 <= Len(old.sends)
            BY <2>1, <1>3
        <3> QED
            BY <2>1, <3>1, <1>1 DEF Connection
    <2>2. CASE k = [old EXCEPT !.eof = TRUE]
        BY <2>2, <1>1, <1>3 DEF Connection
    <2> QED
        BY <1>2, <2>1, <2>2
<1>5. Parsing(k)
    BY <1>1, <1>3, <1>4 DEF Parsing, InLine, InHeaders, InBody, LengthIs
<1>6. Answered(k)
    BY <1>1, <1>4 DEF Answered, Reading
<1> QED
    BY <1>2, <1>4, <1>5, <1>6, GoesKeeps

LEMMA StepKeeps == IInv /\ [Next]_vars => IInv'
<1> SUFFICES ASSUME IInv, [Next]_vars PROVE IInv'
    OBVIOUS
<1>1. ASSUME NEW c \in Conns, Serve(c) PROVE IInv'
    <2>1. CASE Reads(c)
        BY <2>1, ReadsKeeps
    <2>2. CASE EndsEarly(c)
        BY <2>2, EndsEarlyKeeps
    <2>3. CASE Closes(c)
        BY <2>3, AtRest, GoesKeeps DEF Closes
    <2> QED
        BY <1>1, <2>1, <2>2, <2>3 DEF Serve
<1>2. ASSUME NEW c \in Conns, TimesOut(c) PROVE IInv'
    BY <1>2, TimesOutKeeps
<1>3. ASSUME NEW c \in Conns, Connects(c) PROVE IInv'
    BY <1>3, ConnectsKeeps
<1>4. ASSUME NEW c \in Conns, Sends(c) \/ HangsUp(c) PROVE IInv'
    BY <1>4, ClientKeeps
<1>5. ASSUME NEW c \in Conns, Resets(c) PROVE IInv'
    BY <1>5, AtRest, GoesKeeps DEF Resets
<1>6. ASSUME UNCHANGED conn, TypeOK' PROVE IInv'
    BY <1>6 DEF IInv
<1>7. CASE LifecycleMoves
    BY <1>6, <1>7 DEF LifecycleMoves, IInv, TypeOK
<1>8. CASE Stop
    BY <1>6, <1>8 DEF Stop, IInv, TypeOK
<1>9. CASE StopReturns
    BY <1>6, <1>9 DEF StopReturns, IInv, TypeOK
<1>10. CASE UNCHANGED vars
    BY <1>6, <1>10 DEF vars, IInv, TypeOK
<1> QED
    BY <1>1, <1>2, <1>3, <1>4, <1>5, <1>7, <1>8, <1>9, <1>10 DEF Next

-----------------------------------------------------------------------------
(* The theorems.                                                           *)

LEMMA Invariance == Spec => []IInv
BY InitEstablishes, StepKeeps, PTL DEF Spec

\* Every variable of the server keeps its type, and every connection the
\* fields of its parser.
THEOREM TypeCorrect == Spec => []TypeOK
<1>1. IInv => TypeOK
    BY DEF IInv
<1> QED
    BY <1>1, Invariance, PTL

\* A connection gets at most one answer, and it is the one its request
\* deserves, for requests of any length and number of headers and for any
\* limits (admin_http.py parse_http_request, _handle_connection).
THEOREM AnswerDeservedHolds == Spec => []AnswerDeserved
<1>1. ASSUME IInv PROVE AnswerDeserved
    <2> SUFFICES ASSUME NEW c \in Conns
                 PROVE  /\ Len(conn[c].answer) <= 1
                        /\ \A i \in DOMAIN conn[c].answer : conn[c].answer[i] \in Deserved(conn[c])
        BY DEF AnswerDeserved
    <2> DEFINE k == conn[c]
    <2>1. k \in Connection(c) /\ Parsing(k) /\ Answered(k)
        BY <1>1 DEF IInv, TypeOK
    <2> HIDE DEF k
    <2>2. k.answer = <<>> \/ \E status \in Deserved(k) : k.answer = <<status>>
        BY <2>1 DEF Parsing, Answered, Connection
    <2>3. CASE k.answer = <<>>
        <3>1. Len(<<>>) = 0 /\ DOMAIN <<>> = {}
            OBVIOUS
        <3> QED
            BY <2>3, <3>1 DEF k
    <2>4. ASSUME NEW status \in Deserved(k), k.answer = <<status>> PROVE
              /\ Len(k.answer) <= 1
              /\ \A i \in DOMAIN k.answer : k.answer[i] \in Deserved(k)
        <3>1. Len(<<status>>) = 1 /\ DOMAIN <<status>> = {1} /\ <<status>>[1] = status
            OBVIOUS
        <3> QED
            BY <2>4, <3>1
    <2> QED
        BY <2>2, <2>3, <2>4 DEF k
<1> QED
    BY <1>1, Invariance, PTL
=============================================================================
