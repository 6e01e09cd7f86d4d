------------------------ MODULE SpeechSchedulerProofs ------------------------
(***************************************************************************)
(* Theorems about SpeechScheduler that hold for every set of requests and  *)
(* connections and every capacity, in three parts: the worker, the deque   *)
(* and the capacity; how requests leave run(), how their outcomes are      *)
(* counted and what shutdown() has waited for; the refinement of the       *)
(* bounded first-in first-out gate of SpeechGate.                          *)
(***************************************************************************)
EXTENDS SpeechScheduler, WellFoundedInduction, FiniteSetTheorems, SequenceTheorems, TLAPS

-----------------------------------------------------------------------------
(* Filtering a sequence.                                                   *)

\* Every nonempty set of naturals has a least element.
LEMMA LeastElement ==
    ASSUME NEW T, T \subseteq Nat, T # {}
    PROVE  \E m \in T : \A k \in T : ~(k < m)
<1>1. IsWellFoundedOn(OpToRel(<, Nat), Nat)
    BY NatLessThanWellFounded
<1>2. \E m \in T : \A k \in T : <<k, m>> \notin OpToRel(<, Nat)
    BY <1>1, WFMin
<1> QED
    BY <1>2 DEF OpToRel

\* Induction over the naturals, for a set of numbers.
LEMMA SetInduction ==
    ASSUME NEW T, 0 \in T, \A n \in Nat : n \in T => n + 1 \in T
    PROVE  Nat \subseteq T
<1> SUFFICES ASSUME ~(Nat \subseteq T) PROVE FALSE
    OBVIOUS
<1> DEFINE U == Nat \ T
<1>1. PICK m \in U : \A k \in U : ~(k < m)
    BY LeastElement
<1>2. m # 0 /\ m - 1 \in Nat
    OBVIOUS
<1>3. m - 1 \in T
    BY <1>1, <1>2
<1>4. m \in T
    BY <1>2, <1>3
<1> QED
    BY <1>4

\* The function by which Keep(s, T) is defined.
Prefixes(s, T) ==
    CHOOSE f : f = [i \in 0..Len(s) |->
                       IF i = 0 THEN << >>
                       ELSE IF s[i] \in T THEN Append(f[i-1], s[i])
                       ELSE f[i-1]]

LEMMA KeepIsPrefixes ==
    ASSUME NEW s, NEW T
    PROVE  Keep(s, T) = Prefixes(s, T)[Len(s)]
BY DEF Keep, Prefixes

\* Prefixes(s, T) satisfies its recursive equation: a function that does so
\* exists, by induction on the length of its domain.
LEMMA PrefixesEquation ==
    ASSUME NEW S, NEW s \in Seq(S), NEW T
    PROVE  Prefixes(s, T) = [i \in 0..Len(s) |->
                                IF i = 0 THEN << >>
                                ELSE IF s[i] \in T THEN Append(Prefixes(s, T)[i-1], s[i])
                                ELSE Prefixes(s, T)[i-1]]
<1> DEFINE Eqn(f, n) == f = [i \in 0..n |->
                               IF i = 0 THEN << >>
                               ELSE IF s[i] \in T THEN Append(f[i-1], s[i])
                               ELSE f[i-1]]
           Solvable == {n \in Nat : \E f : Eqn(f, n)}
<1>1. 0 \in Solvable
    <2>1. Eqn([i \in 0..0 |-> << >>], 0)
        OBVIOUS
    <2> QED
        BY <2>1
<1>2. ASSUME NEW n \in Nat, n \in Solvable PROVE n + 1 \in Solvable
    <2>1. PICK f : Eqn(f, n)
        BY <1>2
    <2> DEFINE last == IF s[n+1] \in T THEN Append(f[n], s[n+1]) ELSE f[n]
               g == [i \in 0..(n+1) |-> IF i = n + 1 THEN last ELSE f[i]]
    <2>2. \A i \in 0..n : g[i] = f[i]
        OBVIOUS
    <2>3. \A i \in 0..n : f[i] = IF i = 0 THEN << >>
                                 ELSE IF s[i] \in T THEN Append(f[i-1], s[i])
                                 ELSE f[i-1]
        BY <2>1
    <2>4. \A i \in 0..(n+1) : g[i] = IF i = 0 THEN << >>
                                     ELSE IF s[i] \in T THEN Append(g[i-1], s[i])
                                     ELSE g[i-1]
        <3> TAKE i \in 0..(n+1)
        <3>1. CASE i = n + 1
            BY <3>1, <2>2
        <3>2. CASE i # n + 1
            <4>1. i \in 0..n
                BY <3>2
            <4>2. CASE i = 0
                BY <4>1, <4>2, <2>2, <2>3
            <4>3. CASE i # 0
                <5>1. i - 1 \in 0..n
                    BY <4>1, <4>3
                <5> HIDE DEF g
                <5> QED
                    BY <4>1, <4>3, <5>1, <2>2, <2>3
            <4> QED
                BY <4>2, <4>3
        <3> QED
            BY <3>1, <3>2
    <2>5. g = [i \in 0..(n+1) |-> g[i]]
        OBVIOUS
    <2> HIDE DEF g
    <2>6. Eqn(g, n + 1)
        BY <2>4, <2>5
    <2> QED
        BY <2>6, SMTT(30)
<1>3. Len(s) \in Solvable
    <2> HIDE DEF Solvable
    <2> QED
        BY <1>1, <1>2, SetInduction, LenProperties
<1> QED
    BY <1>3 DEF Prefixes

\* What Keep returns: a sequence of the elements of s that are in T, with no
\* repetition if s has none.
LEMMA KeepProperties ==
    ASSUME NEW S, NEW s \in Seq(S), NEW T
    PROVE  /\ Keep(s, T) \in Seq(S)
           /\ Range(Keep(s, T)) = Range(s) \cap T
           /\ (\A i, j \in DOMAIN s : s[i] = s[j] => i = j) =>
                  \A i, j \in DOMAIN Keep(s, T) :
                      Keep(s, T)[i] = Keep(s, T)[j] => i = j
<1> DEFINE f == Prefixes(s, T)
           Seen(n) == {s[i] : i \in 1..n} \cap T
           Distinct(t) == \A i, j \in DOMAIN t : t[i] = t[j] => i = j
           Good == {n \in Nat : n <= Len(s) =>
                       /\ f[n] \in Seq(S)
                       /\ Range(f[n]) = Seen(n)
                       /\ Distinct(s) => Distinct(f[n])}
<1>1. \A i \in 0..Len(s) : f[i] = IF i = 0 THEN << >>
                                  ELSE IF s[i] \in T THEN Append(f[i-1], s[i])
                                  ELSE f[i-1]
    <2>1. f = [i \in 0..Len(s) |-> IF i = 0 THEN << >>
                                  ELSE IF s[i] \in T THEN Append(f[i-1], s[i])
                                  ELSE f[i-1]]
        BY PrefixesEquation
    <2> HIDE DEF f
    <2> QED
        BY <2>1
<1> HIDE DEF f
<1>2. 0 \in Good
    <2>1. f[0] = << >>
        BY <1>1, LenProperties
    <2>2. Range(<< >>) = {} /\ Seen(0) = {} /\ Distinct(<< >>)
        BY DEF Range
    <2>3. << >> \in Seq(S)
        BY EmptySeq
    <2> HIDE DEF Seen, Distinct
    <2> QED
        BY <2>1, <2>2, <2>3
<1>3. ASSUME NEW n \in Nat, n \in Good PROVE n + 1 \in Good
    <2> SUFFICES ASSUME n + 1 <= Len(s)
                 PROVE  /\ f[n+1] \in Seq(S)
                        /\ Range(f[n+1]) = Seen(n+1)
                        /\ Distinct(s) => Distinct(f[n+1])
        OBVIOUS
    <2>1. /\ f[n] \in Seq(S)
          /\ Range(f[n]) = Seen(n)
          /\ Distinct(s) => Distinct(f[n])
        BY <1>3, LenProperties
    <2>2. /\ Len(s) \in Nat /\ DOMAIN s = 1..Len(s)
          /\ n + 1 \in 1..Len(s) /\ s[n+1] \in S
        BY LenProperties, ElementOfSeq
    <2>3. f[n+1] = IF s[n+1] \in T THEN Append(f[n], s[n+1]) ELSE f[n]
        BY <1>1, <2>2
    <2>4. Seen(n+1) = IF s[n+1] \in T THEN Seen(n) \cup {s[n+1]} ELSE Seen(n)
        <3>1. 1..(n+1) = 1..n \cup {n+1}
            OBVIOUS
        <3> QED
            BY <3>1
    <2>5. CASE s[n+1] \in T
        <3> DEFINE t == Append(f[n], s[n+1])
        <3>1. /\ t \in Seq(S) /\ Len(t) = Len(f[n]) + 1
              /\ DOMAIN t = 1..(Len(f[n]) + 1)
              /\ \A i \in 1..Len(f[n]) : t[i] = f[n][i]
              /\ t[Len(f[n]) + 1] = s[n+1]
              /\ Len(f[n]) \in Nat /\ DOMAIN f[n] = 1..Len(f[n])
            BY <2>1, <2>2, AppendProperties, LenProperties
        <3> HIDE DEF t
        <3>2. DOMAIN t = DOMAIN f[n] \cup {Len(f[n]) + 1}
            BY <3>1
        <3>3. Range(t) = Range(f[n]) \cup {s[n+1]}
            BY <3>1, <3>2, SMTT(30) DEF Range
        <3>4. ASSUME Distinct(s) PROVE Distinct(t)
            <4>1. s[n+1] \notin {s[i] : i \in 1..n}
                BY <3>4, <2>2
            <4>2. \A i \in DOMAIN f[n] : f[n][i] # s[n+1]
                BY <4>1, <2>1 DEF Range
            <4> QED
                BY <3>1, <3>2, <3>4, <2>1, <4>2
        <3> QED
            BY <2>1, <2>3, <2>4, <2>5, <3>1, <3>3, <3>4 DEF t
    <2>6. CASE s[n+1] \notin T
        BY <2>1, <2>3, <2>4, <2>6
    <2> QED
        BY <2>5, <2>6
<1>4. Len(s) \in Good
    <2> HIDE DEF Good
    <2> QED
        BY <1>2, <1>3, SetInduction, LenProperties
<1>5. Keep(s, T) = f[Len(s)]
    BY KeepIsPrefixes DEF f
<1>6. Range(s) = {s[i] : i \in 1..Len(s)}
    BY LenProperties DEF Range
<1> QED
    BY <1>4, <1>5, <1>6, LenProperties

-----------------------------------------------------------------------------
(* Type correctness.                                                       *)

LEMMA KeepType ==
    ASSUME TypeOK, NEW T
    PROVE  Keep(waiters, T) \in Seq(Requests)
BY KeepProperties DEF TypeOK

LEMMA CancelFuturesType ==
    ASSUME TypeOK, NEW rs
    PROVE  CancelFutures(rs) \in [Requests -> {"none", "pending", "resolved", "cancelled"}]
BY DEF TypeOK, CancelFutures

LEMMA RecordType ==
    ASSUME TypeOK, NEW r \in Requests, NEW why \in Reasons, RecordTerminalOnce(r, why)
    PROVE  counted' \subseteq Requests /\ counters' \in [Tallies -> Nat]
<1>1. TallyOf(why) \in Tallies
    BY DEF TallyOf, Tallies
<1> QED
    BY <1>1 DEF TypeOK, RecordTerminalOnce

LEMMA LeaveQueueType ==
    ASSUME TypeOK, NEW r \in Requests, NEW outcome \in SpeechStates,
           NEW why \in Reasons, NEW raises \in Results,
           LeaveQueue(r, outcome, why, raises)
    PROVE  TypeOK'
<1>1. counted' \subseteq Requests /\ counters' \in [Tallies -> Nat]
    BY RecordType DEF LeaveQueue
<1>2. waiters' \in Seq(Requests)
    BY KeepType DEF LeaveQueue
<1>3. drainRemaining' \in Int /\ events' \subseteq Events
    BY DEF TypeOK, LeaveQueue, SignalDrainDone, LastDrained, LastOut, Events
<1> QED
    BY <1>1, <1>2, <1>3 DEF TypeOK, LeaveQueue, shutdownVars

LEMMA OperationEndsType ==
    ASSUME TypeOK, NEW r \in Requests, OperationEnds(r)
    PROVE  TypeOK'
<1>1. PICK ending \in Endings :
          /\ pc' = [pc EXCEPT ![r] = "done"]
          /\ reason' = [reason EXCEPT ![r] = ending.why]
          /\ depth' = depth - 1
          /\ RecordTerminalOnce(r, ending.why)
          /\ IF waiters # <<>> THEN HandOver(r, ending) ELSE GoIdle(r, ending)
          /\ UNCHANGED <<expired, cancelReq, drainRemaining, closed, shutdownVars>>
    BY DEF OperationEnds
<1>2. /\ ending.outcome \in SpeechStates /\ ending.why \in Reasons
      /\ ending.raises \in Results
    BY DEF Endings, SpeechStates, Reasons, Results
<1>3. counted' \subseteq Requests /\ counters' \in [Tallies -> Nat]
    BY <1>1, <1>2, RecordType
<1>4. CASE waiters # <<>>
    <2> DEFINE next == Head(waiters)
    <2>1. next \in Requests /\ Tail(waiters) \in Seq(Requests)
        BY <1>4, HeadTailProperties DEF TypeOK
    <2>2. /\ activeEntry' = next /\ activeTask' = NoRequest /\ waiters' = Tail(waiters)
          /\ state' = [state EXCEPT ![r] = ending.outcome, ![next] = "ACTIVE"]
          /\ fut' \in {fut, [fut EXCEPT ![next] = "resolved"]}
          /\ result' \in {[result EXCEPT ![r] = ending.raises],
                          [result EXCEPT ![r] = "InvalidStateError"]}
          /\ events' \in {events, events \cup LastOut}
        BY <1>1, <1>4 DEF HandOver, NextInLine
    <2> HIDE DEF next
    <2>3. state' \in [Requests -> SpeechStates]
        BY <1>2, <2>1, <2>2 DEF TypeOK, SpeechStates
    <2>4. result' \in [Requests -> Results]
        BY <1>2, <2>2 DEF TypeOK, Results
    <2>5. events' \subseteq Events
        BY <2>2 DEF TypeOK, LastOut, Events
    <2>6. fut' \in [Requests -> {"none", "pending", "resolved", "cancelled"}]
        BY <2>2 DEF TypeOK
    <2>7. /\ pc' \in [Requests -> {"idle", "waiting", "operating", "done"}]
          /\ reason' \in [Requests -> Reasons]
          /\ depth' \in Int
        BY <1>1, <1>2 DEF TypeOK
    <2> QED
        BY <1>1, <1>3, <2>1, <2>2, <2>3, <2>4, <2>5, <2>6, <2>7 DEF TypeOK, shutdownVars
<1>5. CASE waiters = <<>>
    <2>1. /\ activeEntry' \in {activeEntry, NoRequest}
          /\ activeTask' \in {activeTask, NoRequest}
          /\ state' = [state EXCEPT ![r] = ending.outcome]
          /\ result' = [result EXCEPT ![r] = ending.raises]
          /\ events' \in {events \cup LastOut \cup {"active_complete"}, events \cup LastOut}
          /\ UNCHANGED <<waiters, fut>>
        <3>1. GoIdle(r, ending)
            BY <1>1, <1>5
        <3> QED
            BY <3>1 DEF GoIdle
    <2>2. events' \subseteq Events
        BY <2>1 DEF TypeOK, LastOut, Events
    <2> QED
        BY <1>1, <1>2, <1>3, <2>1, <2>2 DEF TypeOK, shutdownVars
<1> QED
    BY <1>4, <1>5

LEMMA ShutdownType ==
    ASSUME TypeOK, Shutdown
    PROVE  TypeOK'
<1>1. fut' \in [Requests -> {"none", "pending", "resolved", "cancelled"}]
    BY CancelFuturesType DEF Shutdown
<1>2. waiters' \in Seq(Requests)
    BY EmptySeq DEF Shutdown
<1>3. reason' \in [Requests -> Reasons]
    BY DEF TypeOK, Shutdown, Reasons
<1>4. drainRemaining' \in Int
    <2>1. Len(waiters) \in Nat
        BY LenProperties DEF TypeOK
    <2> QED
        BY <2>1 DEF TypeOK, Shutdown
<1>5. events' \subseteq Events
    BY DEF TypeOK, Shutdown, Events
<1>6. shutdownPc' \in {"draining", "returned", "grace"} /\ UNCHANGED shutdownTarget
    BY DEF TypeOK, Shutdown, AfterDrain
<1> QED
    BY <1>1, <1>2, <1>3, <1>4, <1>5, <1>6 DEF TypeOK, Shutdown

\* Every step preserves the types.
LEMMA TypeStep ==
    ASSUME TypeOK, [Next]_vars
    PROVE  TypeOK'
<1>1. ASSUME NEW r \in Requests, Reject(r) PROVE TypeOK'
    BY <1>1 DEF TypeOK, Reject, Results, Tallies, gateVars, eventVars, shutdownVars
<1>2. ASSUME NEW r \in Requests, AdmitActive(r) PROVE TypeOK'
    BY <1>2 DEF TypeOK, AdmitActive, Admit, SpeechStates, Tallies, shutdownVars
<1>3. ASSUME NEW r \in Requests, AdmitWaiting(r) PROVE TypeOK'
    <2>1. waiters' \in Seq(Requests)
        BY <1>3, AppendProperties DEF TypeOK, AdmitWaiting
    <2> QED
        BY <1>3, <2>1 DEF TypeOK, AdmitWaiting, Admit, SpeechStates, Tallies, shutdownVars
<1>4. ASSUME NEW r \in Requests, WaitTimeout(r) PROVE TypeOK'
    BY <1>4, CancelFuturesType
       DEF TypeOK, WaitTimeout, gateVars, eventVars, shutdownVars
<1>5. ASSUME NEW r \in Requests, Resume(r) PROVE TypeOK'
    BY <1>5 DEF TypeOK, Resume, SpeechStates, eventVars, shutdownVars
<1>6. ASSUME NEW r \in Requests, LeaveTimedOut(r) PROVE TypeOK'
    BY <1>6, LeaveQueueType DEF LeaveTimedOut, SpeechStates, Reasons, Results
<1>7. ASSUME NEW r \in Requests, LeaveCancelled(r) PROVE TypeOK'
    <2> DEFINE why == IF reason[r] = "none" THEN "cancelled_while_waiting" ELSE reason[r]
    <2>1. why \in Reasons
        BY DEF TypeOK, Reasons
    <2>2. LeaveQueue(r, "CANCELLED", why, "CancelledError")
        BY <1>7 DEF LeaveCancelled
    <2> HIDE DEF why
    <2> QED
        BY <2>1, <2>2, LeaveQueueType DEF SpeechStates, Results
<1>8. ASSUME NEW r \in Requests, OperationEnds(r) PROVE TypeOK'
    BY <1>8, OperationEndsType
<1>9. ASSUME NEW c \in Connections, Disconnect(c) PROVE TypeOK'
    BY <1>9, KeepType, CancelFuturesType
       DEF TypeOK, Disconnect, ActiveTasksOf, OwnTasksOf, InFlight, eventVars, shutdownVars
<1>10. ASSUME NEW c \in Connections, CancelNewRequest(c) PROVE TypeOK'
    BY <1>10, KeepType, CancelFuturesType
       DEF TypeOK, CancelNewRequest, eventVars, shutdownVars
<1>11. CASE Shutdown
    BY <1>11, ShutdownType
<1>12. CASE ShutdownStep
    BY <1>12 DEF TypeOK, ShutdownStep, DrainFinishes, AfterDrain, ActiveFinishesInGrace,
       AwaitQuiescence, GraceExpires, CancelledTaskEnds, QuiescenceReached,
       requestVars, gateVars, eventVars
<1>13. CASE UNCHANGED vars
    BY <1>13 DEF TypeOK, vars, requestVars, gateVars, eventVars, shutdownVars
<1> QED
    BY <1>1, <1>2, <1>3, <1>4, <1>5, <1>6, <1>7, <1>8, <1>9, <1>10, <1>11, <1>12,
       <1>13 DEF Next

LEMMA TypeInit == Init => TypeOK
BY EmptySeq DEF Init, TypeOK, SpeechStates, Reasons, Results, Tallies, Events

\* Every reachable state is well typed.
THEOREM TypeCorrect == Spec => []TypeOK
<1> QED
    BY TypeInit, TypeStep, PTL DEF Spec

-----------------------------------------------------------------------------
(* One worker.  SingleWorker is not inductive: a waiter whose future is    *)
(* resolved is about to operate, so it must own the active entry as well.  *)

Ownership ==
    \A r \in Requests :
        pc[r] = "operating" \/ (pc[r] = "waiting" /\ fut[r] = "resolved")
            => activeEntry = r

LEMMA OwnershipStep ==
    ASSUME TypeOK, Ownership, [Next]_vars
    PROVE  Ownership'
<1> USE NoRequestAssumption
<1>1. ASSUME NEW r \in Requests, Reject(r) PROVE Ownership'
    BY <1>1 DEF TypeOK, Ownership, Reject, gateVars
<1>2. ASSUME NEW r \in Requests, AdmitActive(r) PROVE Ownership'
    BY <1>2 DEF TypeOK, Ownership, AdmitActive, Admit, WorkerFree, CanCall
<1>3. ASSUME NEW r \in Requests, AdmitWaiting(r) PROVE Ownership'
    BY <1>3 DEF TypeOK, Ownership, AdmitWaiting, Admit, WorkerFree, CanCall
<1>4. ASSUME NEW r \in Requests, WaitTimeout(r) PROVE Ownership'
    BY <1>4 DEF TypeOK, Ownership, WaitTimeout, CancelFutures, gateVars
<1>5. ASSUME NEW r \in Requests, Resume(r) PROVE Ownership'
    BY <1>5 DEF TypeOK, Ownership, Resume
<1>6. ASSUME NEW r \in Requests, LeaveTimedOut(r) \/ LeaveCancelled(r) PROVE Ownership'
    BY <1>6 DEF TypeOK, Ownership, LeaveTimedOut, LeaveCancelled, LeaveQueue
<1>7. ASSUME NEW r \in Requests, OperationEnds(r) PROVE Ownership'
    <2>1. PICK ending \in Endings :
              /\ pc[r] = "operating"
              /\ pc' = [pc EXCEPT ![r] = "done"]
              /\ IF waiters # <<>> THEN HandOver(r, ending) ELSE GoIdle(r, ending)
        BY <1>7 DEF OperationEnds
    <2>2. \A q \in Requests \ {r} :
              pc[q] # "operating" /\ ~(pc[q] = "waiting" /\ fut[q] = "resolved")
        BY <2>1 DEF Ownership
    <2>3. CASE waiters # <<>>
        <3>1. activeEntry' = Head(waiters) /\ Head(waiters) \in Requests
            BY <2>1, <2>3, HeadTailProperties DEF TypeOK, HandOver, NextInLine
        <3>2. \A q \in Requests : fut'[q] = "resolved" =>
                  q = Head(waiters) \/ fut[q] = "resolved"
            BY <2>1, <2>3 DEF TypeOK, HandOver, NextInLine
        <3> QED
            BY <2>1, <2>2, <3>1, <3>2 DEF TypeOK, Ownership
    <2>4. CASE waiters = <<>>
        BY <2>1, <2>2, <2>4 DEF TypeOK, Ownership, GoIdle
    <2> QED
        BY <2>3, <2>4
<1>8. ASSUME NEW c \in Connections, Disconnect(c) \/ CancelNewRequest(c) PROVE Ownership'
    BY <1>8 DEF TypeOK, Ownership, Disconnect, CancelNewRequest, CancelFutures
<1>9. CASE Shutdown
    BY <1>9 DEF TypeOK, Ownership, Shutdown, CancelFutures
<1>10. CASE ShutdownStep
    BY <1>10 DEF Ownership, ShutdownStep, DrainFinishes, ActiveFinishesInGrace,
       GraceExpires, CancelledTaskEnds, QuiescenceReached, requestVars, gateVars
<1>11. CASE UNCHANGED vars
    BY <1>11 DEF Ownership, vars, requestVars, gateVars
<1> QED
    BY <1>1, <1>2, <1>3, <1>4, <1>5, <1>6, <1>7, <1>8, <1>9, <1>10, <1>11 DEF Next

\* At most one operation runs at a time, under every interleaving of hand-over,
\* timeout, cancellation, drain and forced shutdown.
THEOREM SingleWorkerHolds == Spec => []SingleWorker
<1>1. Init => Ownership
    BY DEF Init, Ownership
<1>2. Ownership => SingleWorker
    BY DEF Ownership, SingleWorker
<1> QED
    BY <1>1, <1>2, TypeInit, TypeStep, OwnershipStep, PTL DEF Spec

-----------------------------------------------------------------------------
(* The deque.  Only waiting requests whose future is not resolved are in   *)
(* it, so a hand-over takes its request out for good.                      *)

Queued ==
    /\ NoLostWaiter
    /\ \A r \in Range(waiters) : pc[r] = "waiting" /\ fut[r] # "resolved"

Distinct(s) == \A i, j \in DOMAIN s : s[i] = s[j] => i = j

LEMMA RangeOfHeadTail ==
    ASSUME NEW S, NEW s \in Seq(S), s # << >>
    PROVE  /\ Range(s) = {Head(s)} \cup Range(Tail(s))
           /\ Distinct(s) => Distinct(Tail(s)) /\ Head(s) \notin Range(Tail(s))
<1>1. /\ Len(s) \in Nat \ {0} /\ DOMAIN s = 1..Len(s)
      /\ Tail(s) \in Seq(S) /\ Len(Tail(s)) = Len(s) - 1
      /\ DOMAIN Tail(s) = 1..(Len(s) - 1)
      /\ \A i \in 1..(Len(s) - 1) : Tail(s)[i] = s[i+1]
      /\ Head(s) = s[1]
    <2>1. Len(s) \in Nat /\ DOMAIN s = 1..Len(s) /\ Len(s) # 0
        BY LenProperties, EmptySeq
    <2>2. /\ Tail(s) \in Seq(S) /\ Len(Tail(s)) = Len(s) - 1
          /\ \A i \in 1..Len(Tail(s)) : Tail(s)[i] = s[i+1]
        BY HeadTailProperties
    <2>3. DOMAIN Tail(s) = 1..Len(Tail(s))
        BY <2>2, LenProperties
    <2>4. Head(s) = s[1]
        OBVIOUS
    <2> QED
        BY <2>1, <2>2, <2>3, <2>4
<1>3. Range(s) = {Head(s)} \cup Range(Tail(s))
    <2>1. ASSUME NEW x \in Range(s) PROVE x \in {Head(s)} \cup Range(Tail(s))
        <3>1. PICK i \in DOMAIN s : x = s[i]
            BY <2>1 DEF Range
        <3>2. CASE i = 1
            BY <1>1, <3>1, <3>2
        <3>3. CASE i # 1
            <4>1. i - 1 \in DOMAIN Tail(s) /\ Tail(s)[i-1] = x
                BY <1>1, <3>1, <3>3
            <4> QED
                BY <4>1 DEF Range
        <3> QED
            BY <3>2, <3>3
    <2>2. ASSUME NEW x \in {Head(s)} \cup Range(Tail(s)) PROVE x \in Range(s)
        <3>1. CASE x = Head(s)
            BY <1>1, <3>1 DEF Range
        <3>2. CASE x \in Range(Tail(s))
            <4>1. PICK i \in DOMAIN Tail(s) : x = Tail(s)[i]
                BY <3>2 DEF Range
            <4>2. i + 1 \in DOMAIN s /\ s[i+1] = x
                BY <1>1, <4>1
            <4> QED
                BY <4>2 DEF Range
        <3> QED
            BY <2>2, <3>1, <3>2
    <2> QED
        BY <2>1, <2>2
<1>4. ASSUME Distinct(s) PROVE Distinct(Tail(s)) /\ Head(s) \notin Range(Tail(s))
    BY <1>1, <1>4 DEF Distinct, Range
<1> QED
    BY <1>3, <1>4

LEMMA EmptyRange ==
    ASSUME NEW S, NEW s \in Seq(S), Range(s) = {}
    PROVE  s = << >>
BY RangeOfHeadTail

LEMMA RangeOfAppend ==
    ASSUME NEW S, NEW s \in Seq(S), NEW x \in S
    PROVE  /\ Range(Append(s, x)) = Range(s) \cup {x}
           /\ Distinct(s) /\ x \notin Range(s) => Distinct(Append(s, x))
<1> DEFINE t == Append(s, x)
<1>1. /\ Len(s) \in Nat /\ DOMAIN s = 1..Len(s)
      /\ DOMAIN t = DOMAIN s \cup {Len(s) + 1}
      /\ \A i \in DOMAIN s : t[i] = s[i]
      /\ t[Len(s) + 1] = x
    BY AppendProperties, LenProperties
<1> HIDE DEF t
<1>2. Range(t) = Range(s) \cup {x}
    BY <1>1 DEF Range
<1>3. Distinct(s) /\ x \notin Range(s) => Distinct(t)
    BY <1>1 DEF Distinct, Range
<1> QED
    BY <1>2, <1>3 DEF t

LEMMA KeepQueued ==
    ASSUME TypeOK, Queued, NEW T
    PROVE  /\ Range(Keep(waiters, T)) = Range(waiters) \cap T
           /\ Distinct(Keep(waiters, T))
BY KeepProperties DEF TypeOK, Queued, NoLostWaiter, Distinct

LEMMA EmptyFacts == Range(<< >>) = {} /\ Distinct(<< >>)
BY DEF Range, Distinct

LEMMA QueuedInit == Init => Queued
BY EmptyFacts DEF Init, Queued, NoLostWaiter, Distinct

\* The request at the head of the deque takes over: it leaves the deque and
\* nobody else who waits is touched.
LEMMA HandOverQueued ==
    ASSUME TypeOK, Ownership, Queued, NEW r \in Requests, OperationEnds(r),
           waiters # << >>
    PROVE  Queued'
<1> DEFINE next == Head(waiters)
<1>1. /\ pc[r] = "operating"
      /\ pc' = [pc EXCEPT ![r] = "done"]
      /\ activeEntry' = next /\ waiters' = Tail(waiters)
      /\ fut' \in {fut, [fut EXCEPT ![next] = "resolved"]}
      /\ fut[next] = "pending" => fut' = [fut EXCEPT ![next] = "resolved"]
    BY DEF OperationEnds, HandOver, NextInLine
<1>2. next \in Requests
    BY HeadTailProperties DEF TypeOK
<1>3. /\ Range(waiters) = {next} \cup Range(waiters')
      /\ Distinct(waiters') /\ next \notin Range(waiters')
    BY <1>1, RangeOfHeadTail DEF TypeOK, Queued, NoLostWaiter, Distinct
<1>4. activeEntry' # NoRequest
    BY <1>1, <1>2, NoRequestAssumption
<1> HIDE DEF next
<1>5. \A q \in Requests : pc'[q] = "waiting" /\ fut'[q] = "pending" => q \in Range(waiters')
    <2> SUFFICES ASSUME NEW q \in Requests, pc'[q] = "waiting", fut'[q] = "pending"
                 PROVE  q \in Range(waiters')
        OBVIOUS
    <2>1. q # next /\ pc[q] = "waiting" /\ fut[q] = "pending"
        BY <1>1, <1>2 DEF TypeOK
    <2>2. q \in Range(waiters)
        BY <2>1 DEF Queued, NoLostWaiter
    <2> QED
        BY <1>3, <2>1, <2>2
<1>6. \A q \in Range(waiters') : pc'[q] = "waiting" /\ fut'[q] # "resolved"
    <2> SUFFICES ASSUME NEW q \in Range(waiters')
                 PROVE  pc'[q] = "waiting" /\ fut'[q] # "resolved"
        OBVIOUS
    <2>1. q # next /\ q \in Requests /\ pc[q] = "waiting" /\ fut[q] # "resolved"
        BY <1>3, SMTT(30) DEF Queued, Range, TypeOK
    <2> QED
        BY <1>1, <1>2, <2>1 DEF TypeOK
<1> QED
    BY <1>3, <1>4, <1>5, <1>6 DEF Queued, NoLostWaiter, Distinct

\* Requests leave the deque; the futures of those who leave it, and only
\* futures, are cancelled.
LEMMA FilterQueued ==
    ASSUME TypeOK, Queued, NEW T,
           waiters' = Keep(waiters, T),
           UNCHANGED <<pc, activeEntry>>,
           \A r \in Requests : fut'[r] \in {fut[r], "cancelled"},
           \A r \in Range(waiters) \ T : fut'[r] # "pending"
    PROVE  Queued'
<1>1. Range(waiters') = Range(waiters) \cap T /\ Distinct(waiters')
    BY KeepQueued
<1>2. activeEntry' = NoRequest => waiters' = << >>
    <2>1. waiters = << >> => Range(waiters') = {}
        BY <1>1, EmptyFacts
    <2>2. waiters' \in Seq(Requests)
        BY KeepType
    <2>3. Range(waiters') = {} => waiters' = << >>
        BY <2>2, EmptyRange
    <2> QED
        BY <2>1, <2>3 DEF Queued, NoLostWaiter
<1>3. Range(waiters) \subseteq Requests
    BY DEF Range, TypeOK
<1> QED
    BY <1>1, <1>2, <1>3 DEF Queued, NoLostWaiter, Distinct

LEMMA QueuedStep ==
    ASSUME TypeOK, Ownership, Queued, [Next]_vars
    PROVE  Queued'
<1> USE NoRequestAssumption
<1>0. Range(waiters) \subseteq Requests
    BY DEF Range, TypeOK
<1>1. ASSUME NEW r \in Requests, Reject(r) PROVE Queued'
    BY <1>1 DEF TypeOK, Queued, NoLostWaiter, Reject, CanCall, gateVars
<1>2. ASSUME NEW r \in Requests, AdmitActive(r) PROVE Queued'
    BY <1>2, EmptyFacts DEF TypeOK, Queued, NoLostWaiter, AdmitActive, Admit, WorkerFree, CanCall
<1>3. ASSUME NEW r \in Requests, AdmitWaiting(r) PROVE Queued'
    <2>1. /\ pc[r] = "idle" /\ pc' = [pc EXCEPT ![r] = "waiting"]
          /\ fut' = [fut EXCEPT ![r] = "pending"]
          /\ waiters' = Append(waiters, r)
          /\ activeEntry' = activeEntry /\ activeEntry # NoRequest
        BY <1>3 DEF AdmitWaiting, Admit, WorkerFree, CanCall
    <2>2. r \notin Range(waiters)
        BY <2>1 DEF Queued
    <2>3. Range(waiters') = Range(waiters) \cup {r} /\ Distinct(waiters')
        BY <2>1, <2>2, RangeOfAppend, SMTT(30) DEF TypeOK, Queued, NoLostWaiter, Distinct
    <2>4. \A q \in Range(waiters') : pc'[q] = "waiting" /\ fut'[q] # "resolved"
        BY <1>0, <2>1, <2>3 DEF TypeOK, Queued
    <2>5. \A q \in Requests : pc'[q] = "waiting" /\ fut'[q] = "pending" => q \in Range(waiters')
        BY <2>1, <2>3 DEF TypeOK, Queued, NoLostWaiter
    <2> QED
        BY <2>1, <2>3, <2>4, <2>5 DEF Queued, NoLostWaiter, Distinct
<1>4. ASSUME NEW r \in Requests, WaitTimeout(r) PROVE Queued'
    BY <1>0, <1>4 DEF TypeOK, Queued, NoLostWaiter, WaitTimeout, CancelFutures, gateVars
<1>5. ASSUME NEW r \in Requests, Resume(r) PROVE Queued'
    BY <1>0, <1>5 DEF TypeOK, Queued, NoLostWaiter, Resume
<1>6. ASSUME NEW r \in Requests, LeaveTimedOut(r) \/ LeaveCancelled(r) PROVE Queued'
    <2>1. /\ pc' = [pc EXCEPT ![r] = "done"]
          /\ waiters' = Keep(waiters, Requests \ {r})
          /\ UNCHANGED <<fut, activeEntry>>
        BY <1>6 DEF LeaveTimedOut, LeaveCancelled, LeaveQueue
    <2>2. Range(waiters') = Range(waiters) \ {r} /\ Distinct(waiters')
        BY <1>0, <2>1, KeepQueued
    <2>3. activeEntry' = NoRequest => waiters' = << >>
        <3>1. waiters = << >> => Range(waiters') = {}
            BY <2>2, EmptyFacts
        <3>2. waiters' \in Seq(Requests)
            BY <2>1, KeepType
        <3>3. Range(waiters') = {} => waiters' = << >>
            BY <3>2, EmptyRange
        <3> QED
            BY <2>1, <3>1, <3>3 DEF Queued, NoLostWaiter
    <2>4. \A q \in Range(waiters') : pc'[q] = "waiting" /\ fut'[q] # "resolved"
        BY <1>0, <2>1, <2>2 DEF TypeOK, Queued
    <2>5. \A q \in Requests : pc'[q] = "waiting" /\ fut'[q] = "pending" => q \in Range(waiters')
        BY <2>1, <2>2 DEF TypeOK, Queued, NoLostWaiter
    <2> QED
        BY <2>2, <2>3, <2>4, <2>5 DEF Queued, NoLostWaiter, Distinct
<1>7. ASSUME NEW r \in Requests, OperationEnds(r) PROVE Queued'
    <2>1. CASE waiters # << >>
        BY <1>7, <2>1, HandOverQueued
    <2>2. CASE waiters = << >>
        BY <1>0, <1>7, <2>2, EmptyFacts
           DEF TypeOK, Queued, NoLostWaiter, OperationEnds, GoIdle
    <2> QED
        BY <2>1, <2>2
<1>8. ASSUME NEW c \in Connections, Disconnect(c) PROVE Queued'
    <2> DEFINE T == {r \in Requests : ConnOf[r] # c}
    <2>1. /\ waiters' = Keep(waiters, T)
          /\ fut' = CancelFutures(WaitersOf(c) \cup OwnTasksOf(c))
          /\ UNCHANGED <<pc, activeEntry>>
        BY <1>8 DEF Disconnect
    <2>2. \A r \in Range(waiters) \ T : r \in WaitersOf(c)
        BY <1>0 DEF WaitersOf
    <2>3. \A r \in Requests : fut'[r] \in {fut[r], "cancelled"}
        BY <2>1 DEF CancelFutures
    <2>4. \A r \in Range(waiters) \ T : fut'[r] # "pending"
        BY <1>0, <2>1, <2>2 DEF CancelFutures
    <2> HIDE DEF T
    <2> QED
        BY <2>1, <2>3, <2>4, FilterQueued
<1>9. ASSUME NEW c \in Connections, CancelNewRequest(c) PROVE Queued'
    <2> DEFINE T == {r \in Requests : ConnOf[r] # c}
    <2>1. /\ waiters' = Keep(waiters, T)
          /\ fut' = CancelFutures(WaitersOf(c))
          /\ UNCHANGED <<pc, activeEntry>>
        BY <1>9 DEF CancelNewRequest
    <2>2. \A r \in Range(waiters) \ T : r \in WaitersOf(c)
        BY <1>0 DEF WaitersOf
    <2>3. \A r \in Requests : fut'[r] \in {fut[r], "cancelled"}
        BY <2>1 DEF CancelFutures
    <2>4. \A r \in Range(waiters) \ T : fut'[r] # "pending"
        BY <1>0, <2>1, <2>2 DEF CancelFutures
    <2> HIDE DEF T
    <2> QED
        BY <2>1, <2>3, <2>4, FilterQueued
<1>10. CASE Shutdown
    <2>1. /\ waiters' = << >> /\ fut' = CancelFutures(Range(waiters))
          /\ UNCHANGED pc
        BY <1>10 DEF Shutdown
    <2>2. \A r \in Requests : fut'[r] = "pending" => fut[r] = "pending" /\ r \notin Range(waiters)
        BY <2>1 DEF CancelFutures
    <2> QED
        BY <2>1, <2>2, EmptyFacts DEF Queued, NoLostWaiter, Distinct
<1>11. CASE ShutdownStep
    BY <1>11 DEF Queued, NoLostWaiter, ShutdownStep, DrainFinishes, ActiveFinishesInGrace,
       GraceExpires, CancelledTaskEnds, QuiescenceReached, requestVars, gateVars
<1>12. CASE UNCHANGED vars
    BY <1>12 DEF Queued, NoLostWaiter, vars, requestVars, gateVars
<1> QED
    BY <1>1, <1>2, <1>3, <1>4, <1>5, <1>6, <1>7, <1>8, <1>9, <1>10, <1>11, <1>12 DEF Next

\* A free worker never coexists with a queue, and every request that still
\* waits for a hand-over is in the deque, once.
THEOREM NoLostWaiterHolds == Spec => []NoLostWaiter
<1>1. Init => Ownership
    BY DEF Init, Ownership
<1>2. Queued => NoLostWaiter
    BY DEF Queued
<1> QED
    BY <1>1, <1>2, QueuedInit, TypeInit, TypeStep, OwnershipStep, QueuedStep, PTL DEF Spec

-----------------------------------------------------------------------------
(* Capacity.  The quiescence event needs Queued: the branch of a hand-over *)
(* that ends in an exception skips setting the event, which is right only  *)
(* because the request handed over to is still inside run().               *)

Accounting ==
    /\ IsFiniteSet(InFlight)
    /\ depth = Cardinality(InFlight)
    /\ depth <= MaxSize
    /\ "quiescence" \in events <=> depth = 0

LEMMA AccountingGivesCapacity == Accounting => CapacityAccounting
BY FS_CardinalityType, MaxSizeAssumption DEF Accounting, CapacityAccounting

LEMMA AccountingInit == Init => Accounting
<1> SUFFICES ASSUME Init PROVE Accounting
    OBVIOUS
<1>1. InFlight = {}
    BY DEF Init, InFlight
<1>2. "quiescence" \in events /\ depth = 0
    BY DEF Init, Events
<1> QED
    BY <1>1, <1>2, FS_EmptySet, MaxSizeAssumption DEF Accounting

\* A request enters run().
LEMMA EnterAccounting ==
    ASSUME TypeOK, Accounting, NEW r \in Requests, Admit(r),
           pc' \in {[pc EXCEPT ![r] = "waiting"], [pc EXCEPT ![r] = "operating"]},
           "quiescence" \notin events'
    PROVE  Accounting'
<1>1. pc[r] = "idle" /\ depth < MaxSize /\ depth' = depth + 1
    BY MaxSizeAssumption DEF Admit, CanCall, AdmissionClosed, TypeOK
<1>2. r \notin InFlight /\ InFlight' = InFlight \cup {r}
    BY <1>1 DEF InFlight, TypeOK
<1>3. IsFiniteSet(InFlight') /\ Cardinality(InFlight') = Cardinality(InFlight) + 1
    BY <1>2, FS_AddElement DEF Accounting
<1>4. Cardinality(InFlight) \in Nat
    BY FS_CardinalityType DEF Accounting
<1> QED
    BY <1>1, <1>3, <1>4, MaxSizeAssumption DEF Accounting

\* A request leaves run(): the event must be set if it was the last one.
LEMMA ExitAccounting ==
    ASSUME TypeOK, Accounting, NEW r \in InFlight,
           pc' = [pc EXCEPT ![r] = "done"], depth' = depth - 1,
           \/ "quiescence" \in events' <=> "quiescence" \in events \cup LastOut
           \/ /\ "quiescence" \in events' <=> "quiescence" \in events
              /\ \E q \in InFlight : q # r
    PROVE  Accounting'
<1>1. r \in Requests /\ InFlight' = InFlight \ {r}
    BY DEF InFlight, TypeOK
<1>2. IsFiniteSet(InFlight') /\ Cardinality(InFlight') = Cardinality(InFlight) - 1
    BY <1>1, FS_RemoveElement DEF Accounting
<1>3. Cardinality(InFlight) \in Nat /\ Cardinality(InFlight') \in Nat
    BY <1>2, FS_CardinalityType DEF Accounting
<1>4. depth # 0 /\ "quiescence" \notin events
    BY <1>2, <1>3 DEF Accounting
<1>5. "quiescence" \in LastOut <=> depth = 1
    BY DEF LastOut
<1>6. ASSUME NEW q \in InFlight, q # r PROVE depth' # 0
    <2>1. InFlight' # {}
        BY <1>1, <1>6
    <2>2. Cardinality(InFlight') # 0
        BY <1>2, <2>1, FS_EmptySet
    <2> QED
        BY <1>2, <2>2 DEF Accounting
<1>7. "quiescence" \in events' <=> depth' = 0
    BY <1>4, <1>5, <1>6 DEF TypeOK
<1> QED
    BY <1>2, <1>3, <1>7, MaxSizeAssumption DEF Accounting

\* Nobody enters or leaves.
LEMMA StayAccounting ==
    ASSUME Accounting, InFlight' = InFlight, depth' = depth,
           "quiescence" \in events' <=> "quiescence" \in events
    PROVE  Accounting'
BY DEF Accounting

LEMMA AccountingStep ==
    ASSUME TypeOK, Queued, Accounting, [Next]_vars
    PROVE  Accounting'
<1>1. ASSUME NEW r \in Requests, Reject(r) PROVE Accounting'
    <2>1. InFlight' = InFlight
        BY <1>1 DEF Reject, CanCall, InFlight, TypeOK
    <2> QED
        BY <1>1, <2>1, StayAccounting DEF Reject, gateVars, eventVars
<1>2. ASSUME NEW r \in Requests, AdmitActive(r) \/ AdmitWaiting(r) PROVE Accounting'
    <2>1. /\ Admit(r)
          /\ pc' \in {[pc EXCEPT ![r] = "waiting"], [pc EXCEPT ![r] = "operating"]}
          /\ "quiescence" \notin events'
        BY <1>2 DEF AdmitActive, AdmitWaiting
    <2> QED
        BY <2>1, EnterAccounting
<1>3. ASSUME NEW r \in Requests, LeaveTimedOut(r) \/ LeaveCancelled(r) PROVE Accounting'
    <2>1. PICK why : /\ pc' = [pc EXCEPT ![r] = "done"]
                     /\ depth' = depth - 1
                     /\ events' = events \cup LastDrained(why) \cup LastOut
        BY <1>3 DEF LeaveTimedOut, LeaveCancelled, LeaveQueue
    <2>2. "quiescence" \notin LastDrained(why)
        BY DEF LastDrained
    <2>3. r \in InFlight
        BY <1>3 DEF LeaveTimedOut, LeaveCancelled, InFlight
    <2> QED
        BY <2>1, <2>2, <2>3, ExitAccounting
<1>4. ASSUME NEW r \in Requests, Resume(r) PROVE Accounting'
    <2>1. InFlight' = InFlight
        BY <1>4 DEF Resume, InFlight, TypeOK
    <2> QED
        BY <1>4, <2>1, StayAccounting DEF Resume, eventVars
<1>5. ASSUME NEW r \in Requests, OperationEnds(r) PROVE Accounting'
    <2>1. PICK ending \in Endings :
              /\ pc[r] = "operating"
              /\ pc' = [pc EXCEPT ![r] = "done"]
              /\ depth' = depth - 1
              /\ IF waiters # << >> THEN HandOver(r, ending) ELSE GoIdle(r, ending)
        BY <1>5 DEF OperationEnds
    <2>2. r \in InFlight
        BY <2>1 DEF InFlight
    <2>3. CASE waiters = << >>
        <3>1. "quiescence" \in events' <=> "quiescence" \in events \cup LastOut
            BY <2>1, <2>3 DEF GoIdle
        <3> QED
            BY <2>1, <2>2, <3>1, ExitAccounting
    <2>4. CASE waiters # << >>
        <3>1. Head(waiters) \in Range(waiters)
            BY <2>4, RangeOfHeadTail DEF TypeOK
        <3>2. Head(waiters) \in InFlight /\ Head(waiters) # r
            BY <2>1, <3>1 DEF Queued, InFlight, Range, TypeOK
        <3>3. \/ events' = events \cup LastOut
              \/ events' = events
            BY <2>1, <2>4 DEF HandOver, NextInLine
        <3> QED
            BY <2>1, <2>2, <3>2, <3>3, ExitAccounting
    <2> QED
        BY <2>3, <2>4
<1>6. CASE Shutdown
    <2>1. InFlight' = InFlight /\ depth' = depth
        BY <1>6 DEF Shutdown, InFlight
    <2>2. "quiescence" \in events' <=> "quiescence" \in events
        BY <1>6 DEF Shutdown
    <2> QED
        BY <2>1, <2>2, StayAccounting
<1>7. ASSUME UNCHANGED <<pc, depth, events>> PROVE Accounting'
    BY <1>7, StayAccounting DEF InFlight
<1>8. ASSUME NEW r \in Requests, WaitTimeout(r) PROVE Accounting'
    BY <1>7, <1>8 DEF WaitTimeout, gateVars, eventVars
<1>9. ASSUME NEW c \in Connections, Disconnect(c) \/ CancelNewRequest(c) PROVE Accounting'
    BY <1>7, <1>9 DEF Disconnect, CancelNewRequest, eventVars
<1>10. CASE ShutdownStep
    BY <1>7, <1>10 DEF ShutdownStep, DrainFinishes, ActiveFinishesInGrace, GraceExpires,
       CancelledTaskEnds, QuiescenceReached, requestVars, gateVars, eventVars
<1>11. CASE UNCHANGED vars
    BY <1>7, <1>11 DEF vars, requestVars, gateVars, eventVars
<1> QED
    BY <1>1, <1>2, <1>3, <1>4, <1>5, <1>6, <1>8, <1>9, <1>10, <1>11 DEF Next

\* The scheduler never holds more requests than max_size, its depth is the
\* number it holds, and the quiescence event is set exactly at depth 0.
THEOREM CapacityAccountingHolds == Spec => []CapacityAccounting
<1>1. Init => Ownership
    BY DEF Init, Ownership
<1> QED
    BY <1>1, TypeInit, TypeStep, OwnershipStep, QueuedInit, QueuedStep, AccountingInit,
       AccountingStep, AccountingGivesCapacity, PTL DEF Spec

-----------------------------------------------------------------------------
(* Drain.                                                                  *)

\* Once draining has begun, the only request whose operation may still start
\* is the one that already owns the active entry.
THEOREM NoStartAfterDrainHolds == Spec => NoStartAfterDrain
<1>1. Init => Ownership
    BY DEF Init, Ownership
<1>2. ASSUME TypeOK, Ownership, [Next]_vars
      PROVE  [\A r \in Requests :
                 Draining /\ pc[r] # "operating" /\ pc'[r] = "operating"
                     => activeEntry = r]_vars
    <2> SUFFICES ASSUME NEW r \in Requests,
                        Draining, pc[r] # "operating", pc'[r] = "operating"
                 PROVE  activeEntry = r
        OBVIOUS
    <2>1. ASSUME NEW q \in Requests, AdmitActive(q) \/ AdmitWaiting(q) PROVE FALSE
        BY <2>1 DEF AdmitActive, AdmitWaiting, Admit, AdmissionClosed
    <2>2. ASSUME NEW q \in Requests, Resume(q) PROVE activeEntry = r
        BY <1>2, <2>2 DEF Resume, Ownership, TypeOK
    <2>3. ASSUME pc' = pc PROVE FALSE
        BY <2>3
    <2>4. ASSUME NEW q \in Requests, pc' = [pc EXCEPT ![q] = "done"] PROVE FALSE
        BY <1>2, <2>4 DEF TypeOK
    <2>5. ASSUME NEW q \in Requests,
                 Reject(q) \/ LeaveTimedOut(q) \/ LeaveCancelled(q) \/ OperationEnds(q)
          PROVE  FALSE
        BY <2>4, <2>5 DEF Reject, LeaveTimedOut, LeaveCancelled, LeaveQueue, OperationEnds
    <2>6. ASSUME NEW q \in Requests, WaitTimeout(q) PROVE FALSE
        BY <2>3, <2>6 DEF WaitTimeout
    <2>7. ASSUME NEW c \in Connections, Disconnect(c) \/ CancelNewRequest(c) PROVE FALSE
        BY <2>3, <2>7 DEF Disconnect, CancelNewRequest
    <2>8. CASE Shutdown
        BY <2>3, <2>8 DEF Shutdown
    <2>9. CASE ShutdownStep
        BY <2>3, <2>9 DEF ShutdownStep, DrainFinishes, ActiveFinishesInGrace,
           GraceExpires, CancelledTaskEnds, QuiescenceReached, requestVars
    <2>10. CASE UNCHANGED vars
        BY <2>3, <2>10 DEF vars, requestVars
    <2> QED
        BY <1>2, <2>1, <2>2, <2>5, <2>6, <2>7, <2>8, <2>9, <2>10 DEF Next
<1> QED
    BY <1>1, <1>2, TypeInit, TypeStep, OwnershipStep, PTL DEF Spec, NoStartAfterDrain

-----------------------------------------------------------------------------
(***************************************************************************)
(* The second part: leaving run(), the counters, the end of shutdown().    *)
(***************************************************************************)

\* What the first part has shown of every state.
Base == TypeOK /\ Ownership /\ Queued /\ Accounting

LEMMA BaseInit == Init => Base
<1>1. Init => Ownership
    BY DEF Init, Ownership
<1> QED
    BY <1>1, TypeInit, QueuedInit, AccountingInit DEF Base

LEMMA BaseStep == Base /\ [Next]_vars => Base'
BY TypeStep, OwnershipStep, QueuedStep, AccountingStep DEF Base

-----------------------------------------------------------------------------
(* The end of shutdown().                                                  *)

\* While draining the deque is empty, so that nobody is handed the worker
\* who does not have it already.
Stopping ==
    /\ Draining <=> shutdownPc # "idle"
    /\ Draining => waiters = << >>
    /\ \A r \in Requests : pc[r] = "waiting" => fut[r] # "none"

Stopped ==
    \A r \in Requests : pc[r] # "operating" /\ (pc[r] = "waiting" => Interrupted(r))

\* With a free worker and an empty deque nobody operates or is about to.
LEMMA FreeWorkerStopped ==
    ASSUME Base, \A r \in Requests : pc[r] = "waiting" => fut[r] # "none",
           waiters = << >>, activeEntry = NoRequest
    PROVE  Stopped
<1> SUFFICES ASSUME NEW r \in Requests
             PROVE  pc[r] # "operating" /\ (pc[r] = "waiting" => Interrupted(r))
    BY DEF Stopped
<1>1. pc[r] # "operating" /\ ~(pc[r] = "waiting" /\ fut[r] = "resolved")
    BY NoRequestAssumption DEF Base, Ownership
<1>2. ~(pc[r] = "waiting" /\ fut[r] = "pending")
    BY EmptyFacts DEF Base, Queued, NoLostWaiter
<1> QED
    BY <1>1, <1>2 DEF Base, TypeOK, Interrupted

\* At quiescence nobody is inside run().
LEMMA QuiescenceStopped ==
    ASSUME Base, "quiescence" \in events
    PROVE  Stopped
<1>1. InFlight = {}
    BY FS_EmptySet DEF Base, Accounting
<1> QED
    BY <1>1 DEF InFlight, Stopped

LEMMA StoppingStep ==
    ASSUME Base, Stopping, [Next]_vars
    PROVE  Stopping'
<1> USE DEF Stopping, Draining
<1>1. ASSUME NEW r \in Requests, Reject(r) PROVE Stopping'
    BY <1>1 DEF Reject, CanCall, gateVars, eventVars, shutdownVars, Base, TypeOK
<1>2. ASSUME NEW r \in Requests, AdmitActive(r) PROVE Stopping'
    BY <1>2 DEF AdmitActive, Admit, AdmissionClosed, CanCall, shutdownVars, Base, TypeOK
<1>3. ASSUME NEW r \in Requests, AdmitWaiting(r) PROVE Stopping'
    BY <1>3 DEF AdmitWaiting, Admit, AdmissionClosed, CanCall, shutdownVars, Base, TypeOK
<1>4. ASSUME NEW r \in Requests, WaitTimeout(r) PROVE Stopping'
    BY <1>4 DEF WaitTimeout, CancelFutures, gateVars, eventVars, shutdownVars, Base, TypeOK
<1>5. ASSUME NEW r \in Requests, Resume(r) PROVE Stopping'
    BY <1>5 DEF Resume, eventVars, shutdownVars, Base, TypeOK
<1>6. ASSUME NEW r \in Requests, LeaveTimedOut(r) \/ LeaveCancelled(r) PROVE Stopping'
    <2>1. PICK why : /\ pc' = [pc EXCEPT ![r] = "done"]
                     /\ waiters' = Keep(waiters, Requests \ {r})
                     /\ events' = events \cup LastDrained(why) \cup LastOut
                     /\ UNCHANGED <<fut, shutdownPc>>
        BY <1>6 DEF LeaveTimedOut, LeaveCancelled, LeaveQueue, shutdownVars
    <2>2. "drain" \in events' <=> "drain" \in events
        BY <2>1 DEF LastDrained, LastOut
    <2>3. waiters = << >> => waiters' = << >>
        BY <2>1, EmptyFacts, KeepQueued, KeepType, EmptyRange DEF Base
    <2> QED
        BY <2>1, <2>2, <2>3 DEF Base, TypeOK
<1>7. ASSUME NEW r \in Requests, OperationEnds(r) PROVE Stopping'
    <2>1. PICK ending \in Endings :
              /\ pc[r] = "operating"
              /\ pc' = [pc EXCEPT ![r] = "done"]
              /\ IF waiters # <<>> THEN HandOver(r, ending) ELSE GoIdle(r, ending)
              /\ UNCHANGED shutdownPc
        BY <1>7 DEF OperationEnds, shutdownVars
    <2>2. "drain" \in events' <=> "drain" \in events
        BY <2>1 DEF HandOver, GoIdle, LastOut
    <2>3. CASE waiters # << >>
        <3>1. fut' \in {fut, [fut EXCEPT ![Head(waiters)] = "resolved"]}
            BY <2>1, <2>3 DEF HandOver, NextInLine
        <3> QED
            BY <2>1, <2>2, <2>3, <3>1 DEF Base, TypeOK
    <2>4. CASE waiters = << >>
        BY <2>1, <2>2, <2>4 DEF GoIdle, Base, TypeOK
    <2> QED
        BY <2>3, <2>4
<1>8. ASSUME NEW c \in Connections, Disconnect(c) \/ CancelNewRequest(c) PROVE Stopping'
    <2>1. PICK T, rs : /\ waiters' = Keep(waiters, T)
                       /\ fut' = CancelFutures(rs)
                       /\ UNCHANGED <<pc, events, shutdownPc>>
        BY <1>8 DEF Disconnect, CancelNewRequest, eventVars, shutdownVars
    <2>2. waiters = << >> => waiters' = << >>
        BY <2>1, EmptyFacts, KeepQueued, KeepType, EmptyRange DEF Base
    <2> QED
        BY <2>1, <2>2 DEF CancelFutures, Base, TypeOK
<1>9. CASE Shutdown
    BY <1>9 DEF Shutdown, AfterDrain, CancelFutures, Base, TypeOK
<1>10. CASE ShutdownStep
    BY <1>10 DEF ShutdownStep, DrainFinishes, AfterDrain, ActiveFinishesInGrace, AwaitQuiescence,
       GraceExpires, CancelledTaskEnds, QuiescenceReached, requestVars, gateVars, eventVars, Base, TypeOK
<1>11. CASE UNCHANGED vars
    BY <1>11 DEF vars, requestVars, gateVars, eventVars, shutdownVars
<1> QED
    BY <1>1, <1>2, <1>3, <1>4, <1>5, <1>6, <1>7, <1>8, <1>9, <1>10, <1>11 DEF Next

\* A stopped scheduler stays stopped when nobody is admitted: only an
\* undisturbed waiter resumes.
LEMMA StoppedStays ==
    ASSUME Base, Stopping, Draining, Stopped, [Next]_vars
    PROVE  Stopped'
<1> USE DEF Stopped, Interrupted
<1>1. ASSUME NEW r \in Requests,
             Reject(r) \/ LeaveTimedOut(r) \/ LeaveCancelled(r)
      PROVE  Stopped'
    BY <1>1 DEF Reject, LeaveTimedOut, LeaveCancelled, LeaveQueue, Base, TypeOK
<1>2. ASSUME NEW r \in Requests, AdmitActive(r) \/ AdmitWaiting(r) \/ OperationEnds(r) \/ Resume(r)
      PROVE  FALSE
    BY <1>2 DEF AdmitActive, AdmitWaiting, Admit, AdmissionClosed, OperationEnds, Resume
<1>3. ASSUME NEW r \in Requests, WaitTimeout(r) PROVE Stopped'
    BY <1>3 DEF WaitTimeout, CancelFutures, Base, TypeOK
<1>4. ASSUME NEW c \in Connections, Disconnect(c) \/ CancelNewRequest(c) PROVE Stopped'
    BY <1>4 DEF Disconnect, CancelNewRequest, CancelFutures, Base, TypeOK
<1>5. CASE Shutdown
    BY <1>5 DEF Shutdown, Stopping
<1>6. CASE ShutdownStep
    BY <1>6 DEF ShutdownStep, DrainFinishes, ActiveFinishesInGrace,
       GraceExpires, CancelledTaskEnds, QuiescenceReached, requestVars
<1>7. CASE UNCHANGED vars
    BY <1>7 DEF vars, requestVars
<1> QED
    BY <1>1, <1>2, <1>3, <1>4, <1>5, <1>6, <1>7 DEF Next

LEMMA ReturnedStep ==
    ASSUME Base, Stopping, ShutdownStopsSynthesis, [Next]_vars
    PROVE  ShutdownStopsSynthesis'
<1> SUFFICES ASSUME shutdownPc' = "returned" PROVE Stopped'
    BY DEF ShutdownStopsSynthesis, Stopped, Interrupted
<1>1. CASE shutdownPc = "returned"
    <2>1. Stopped /\ Draining
        BY <1>1 DEF ShutdownStopsSynthesis, Stopped, Stopping
    <2> QED
        BY <2>1, StoppedStays
<1>2. CASE shutdownPc # "returned"
    <2>1. CASE Shutdown
        <3>1. waiters = << >> /\ activeEntry = NoRequest
            BY <1>2, <2>1 DEF Shutdown, AfterDrain
        <3>2. Stopped
            BY <3>1, FreeWorkerStopped DEF Stopping
        <3> QED
            BY <2>1, <3>2 DEF Shutdown, CancelFutures, Stopped, Interrupted, Base, TypeOK
    <2>2. CASE DrainFinishes
        <3>1. waiters = << >> /\ activeEntry = NoRequest
            BY <2>2 DEF DrainFinishes, AfterDrain, Stopping
        <3>2. Stopped
            BY <3>1, FreeWorkerStopped DEF Stopping
        <3> QED
            BY <2>2, <3>2 DEF DrainFinishes, requestVars, Stopped, Interrupted
    <2>3. CASE ActiveFinishesInGrace \/ GraceExpires \/ CancelledTaskEnds \/ QuiescenceReached
        <3>1. "quiescence" \in events /\ UNCHANGED <<pc, fut, expired>> /\ cancelReq \subseteq cancelReq'
            BY <2>3 DEF ActiveFinishesInGrace, AwaitQuiescence, GraceExpires, CancelledTaskEnds,
                        QuiescenceReached, requestVars
        <3>2. Stopped
            BY <3>1, QuiescenceStopped
        <3> QED
            BY <3>1, <3>2 DEF Stopped, Interrupted
    <2>4. CASE UNCHANGED shutdownPc
        BY <1>2, <2>4
    <2> QED
        <3>1. \A r \in Requests :
                 Reject(r) \/ AdmitActive(r) \/ AdmitWaiting(r) \/ WaitTimeout(r) \/ Resume(r)
                    \/ LeaveTimedOut(r) \/ LeaveCancelled(r) \/ OperationEnds(r)
                 => UNCHANGED shutdownPc
            BY DEF Reject, AdmitActive, AdmitWaiting, Admit, WaitTimeout, Resume, LeaveTimedOut,
                   LeaveCancelled, LeaveQueue, OperationEnds, shutdownVars
        <3>2. \A c \in Connections : Disconnect(c) \/ CancelNewRequest(c) => UNCHANGED shutdownPc
            BY DEF Disconnect, CancelNewRequest, shutdownVars
        <3>3. UNCHANGED vars => UNCHANGED shutdownPc
            BY DEF vars, shutdownVars
        <3> QED
            BY <2>1, <2>2, <2>3, <2>4, <3>1, <3>2, <3>3 DEF Next, ShutdownStep
<1> QED
    BY <1>1, <1>2

\* When shutdown() has returned no operation runs and none can start, for any
\* number of requests and whichever of its gates it passed.
THEOREM ShutdownStopsSynthesisHolds == Spec => []ShutdownStopsSynthesis
<1>1. Init => Stopping /\ ShutdownStopsSynthesis
    BY DEF Init, Stopping, Draining, Events, ShutdownStopsSynthesis
<1>2. Stopping /\ Base /\ [Next]_vars => Stopping'
    BY StoppingStep
<1>3. ShutdownStopsSynthesis /\ Stopping /\ Base /\ [Next]_vars => ShutdownStopsSynthesis'
    BY ReturnedStep
<1> QED
    BY <1>1, <1>2, <1>3, BaseInit, BaseStep, PTL DEF Spec

-----------------------------------------------------------------------------
(* The drain gate.  The counter may exceed the number of the drained       *)
(* waiters, because one that times out leaves without decrementing it; it  *)
(* never falls below, and that is what the gate needs.                     *)

Drained == {r \in Requests : pc[r] = "waiting" /\ reason[r] = "drain_cancelled"}

Gated ==
    /\ shutdownPc = "idle" => \A r \in Requests : reason[r] # "drain_cancelled"
    /\ Cardinality(Drained) <= drainRemaining
    /\ "drain_done" \in events => Drained = {}
    /\ shutdownPc \notin {"idle", "draining"} => Drained = {}

LEMMA DrainedIsFinite ==
    ASSUME Base
    PROVE  IsFiniteSet(Drained) /\ Cardinality(Drained) \in Nat
<1>1. Drained \subseteq InFlight
    BY DEF Drained, InFlight
<1> QED
    BY <1>1, FS_Subset, FS_CardinalityType DEF Base, Accounting

\* A sequence has no more elements than places.
LEMMA RangeCardinality ==
    ASSUME NEW S, NEW s \in Seq(S)
    PROVE  IsFiniteSet(Range(s)) /\ Cardinality(Range(s)) <= Len(s)
<1>1. /\ Len(s) \in Nat /\ DOMAIN s = 1..Len(s)
      /\ s \in [DOMAIN s -> Range(s)] /\ \A x \in Range(s) : \E i \in DOMAIN s : s[i] = x
    BY LenProperties DEF Range
<1>2. s \in Surjection(1..Len(s), Range(s))
    BY <1>1 DEF Surjection
<1>3. ExistsSurjection(1..Len(s), Range(s))
    BY <1>2 DEF ExistsSurjection
<1> QED
    BY <1>1, <1>3, FS_NatSurjection, FS_SurjCardinalityBound

\* Nobody is drained anew, and the counter is left alone.
LEMMA FewerDrained ==
    ASSUME Base, Gated, Drained' \subseteq Drained, drainRemaining' = drainRemaining,
           "drain_done" \in events' => "drain_done" \in events,
           shutdownPc' = shutdownPc,
           shutdownPc = "idle" => \A r \in Requests : reason'[r] # "drain_cancelled"
    PROVE  Gated'
<1>1. Cardinality(Drained') <= Cardinality(Drained) /\ Cardinality(Drained') \in Nat
    BY DrainedIsFinite, FS_Subset, FS_CardinalityType
<1> QED
    BY <1>1, DrainedIsFinite DEF Gated, Base, TypeOK

\* A drained waiter leaves, and is counted down.
LEMMA DrainedLeaves ==
    ASSUME Base, Gated, NEW r \in Drained, LeaveCancelled(r)
    PROVE  Gated'
<1>1. /\ pc' = [pc EXCEPT ![r] = "done"]
      /\ reason' = [reason EXCEPT ![r] = "drain_cancelled"]
      /\ SignalDrainDone("drain_cancelled")
      /\ events' = events \cup LastDrained("drain_cancelled") \cup LastOut
      /\ UNCHANGED shutdownPc
    BY DEF Drained, LeaveCancelled, LeaveQueue, shutdownVars
<1>2. r \in Requests /\ Drained' = Drained \ {r}
    BY <1>1 DEF Drained, Base, TypeOK
<1>3. Cardinality(Drained') = Cardinality(Drained) - 1
      /\ IsFiniteSet(Drained') /\ Cardinality(Drained') \in Nat
    BY <1>2, DrainedIsFinite, FS_RemoveElement, FS_CardinalityType
<1>4. drainRemaining' = drainRemaining - 1
    BY <1>1, <1>3, DrainedIsFinite DEF Gated, SignalDrainDone, Base, TypeOK
<1>5. "drain_done" \in events' => Drained' = {}
    <2>1. "drain_done" \notin events
        BY DEF Gated
    <2>2. "drain_done" \in events' => drainRemaining = 1
        BY <1>1, <2>1 DEF LastDrained, LastOut
    <2>3. drainRemaining = 1 => Cardinality(Drained') = 0
        BY <1>3, DrainedIsFinite DEF Gated
    <2> QED
        BY <1>3, <2>2, <2>3, FS_EmptySet
<1>6. shutdownPc = "draining"
    BY DEF Gated, Drained
<1> QED
    BY <1>1, <1>3, <1>4, <1>5, <1>6, DrainedIsFinite DEF Gated, Base, TypeOK

LEMMA GatedStep ==
    ASSUME Base, Stopping, Gated, [Next]_vars
    PROVE  Gated'
<1>1. ASSUME NEW r \in Requests, Reject(r) \/ AdmitActive(r) \/ Resume(r) \/ WaitTimeout(r)
      PROVE  Gated'
    <2>1. UNCHANGED <<reason, drainRemaining, shutdownPc>> /\ events' \subseteq events
        BY <1>1 DEF Reject, AdmitActive, Admit, Resume, WaitTimeout, eventVars, shutdownVars
    <2>2. pc' \in {pc, [pc EXCEPT ![r] = "done"], [pc EXCEPT ![r] = "operating"]}
        BY <1>1 DEF Reject, AdmitActive, Resume, WaitTimeout
    <2>3. Drained' \subseteq Drained
        BY <2>1, <2>2 DEF Drained, Base, TypeOK
    <2> QED
        BY <2>1, <2>3, FewerDrained DEF Gated
<1>2. ASSUME NEW r \in Requests, AdmitWaiting(r) PROVE Gated'
    <2>1. /\ UNCHANGED <<reason, drainRemaining, shutdownPc>> /\ events' \subseteq events
          /\ pc' = [pc EXCEPT ![r] = "waiting"] /\ shutdownPc = "idle"
        BY <1>2 DEF AdmitWaiting, Admit, AdmissionClosed, Stopping, shutdownVars
    <2>2. Drained' \subseteq Drained
        BY <2>1 DEF Drained, Gated, Base, TypeOK
    <2> QED
        BY <2>1, <2>2, FewerDrained DEF Gated
<1>3. ASSUME NEW r \in Requests, LeaveTimedOut(r) \/ LeaveCancelled(r), r \notin Drained
      PROVE  Gated'
    <2>1. PICK why \in Reasons \ {"drain_cancelled"} :
              /\ pc' = [pc EXCEPT ![r] = "done"] /\ reason' = [reason EXCEPT ![r] = why]
              /\ SignalDrainDone(why) /\ UNCHANGED shutdownPc
              /\ events' = events \cup LastDrained(why) \cup LastOut
        BY <1>3 DEF LeaveTimedOut, LeaveCancelled, LeaveQueue, Drained, Reasons, shutdownVars, Base, TypeOK
    <2>2. drainRemaining' = drainRemaining /\ ("drain_done" \in events' => "drain_done" \in events)
        BY <2>1 DEF SignalDrainDone, LastDrained, LastOut
    <2>3. Drained' \subseteq Drained
        BY <2>1 DEF Drained, Base, TypeOK
    <2>4. shutdownPc = "idle" => \A q \in Requests : reason'[q] # "drain_cancelled"
        BY <2>1 DEF Gated, Base, TypeOK
    <2> QED
        BY <2>1, <2>2, <2>3, <2>4, FewerDrained
<1>4. ASSUME NEW r \in Requests, LeaveTimedOut(r), r \in Drained PROVE Gated'
    <2>1. /\ pc' = [pc EXCEPT ![r] = "done"] /\ reason' = [reason EXCEPT ![r] = "queue_wait_timeout"]
          /\ SignalDrainDone("queue_wait_timeout") /\ UNCHANGED shutdownPc
          /\ events' = events \cup LastDrained("queue_wait_timeout") \cup LastOut
        BY <1>4 DEF LeaveTimedOut, LeaveQueue, shutdownVars
    <2>2. drainRemaining' = drainRemaining /\ ("drain_done" \in events' => "drain_done" \in events)
        BY <2>1 DEF SignalDrainDone, LastDrained, LastOut
    <2>3. Drained' \subseteq Drained
        BY <2>1 DEF Drained, Base, TypeOK
    <2>4. shutdownPc = "idle" => \A q \in Requests : reason'[q] # "drain_cancelled"
        BY <2>1 DEF Gated, Base, TypeOK
    <2> QED
        BY <2>1, <2>2, <2>3, <2>4, FewerDrained
<1>5. ASSUME NEW r \in Requests, OperationEnds(r) PROVE Gated'
    <2>1. PICK ending \in Endings :
              /\ pc[r] = "operating" /\ pc' = [pc EXCEPT ![r] = "done"]
              /\ reason' = [reason EXCEPT ![r] = ending.why]
              /\ IF waiters # <<>> THEN HandOver(r, ending) ELSE GoIdle(r, ending)
              /\ UNCHANGED <<drainRemaining, shutdownPc>>
        BY <1>5 DEF OperationEnds, shutdownVars
    <2>2. "drain_done" \in events' => "drain_done" \in events
        BY <2>1 DEF HandOver, GoIdle, LastOut
    <2>3. Drained' \subseteq Drained
        BY <2>1 DEF Drained, Base, TypeOK
    <2>4. ending.why # "drain_cancelled"
        BY DEF Endings
    <2>5. shutdownPc = "idle" => \A q \in Requests : reason'[q] # "drain_cancelled"
        BY <2>1, <2>4 DEF Gated, Base, TypeOK
    <2> QED
        BY <2>1, <2>2, <2>3, <2>5, FewerDrained
<1>6. ASSUME UNCHANGED <<pc, reason, drainRemaining, events, shutdownPc>> PROVE Gated'
    BY <1>6, FewerDrained DEF Drained, Gated
<1>7. ASSUME NEW c \in Connections, Disconnect(c) \/ CancelNewRequest(c) PROVE Gated'
    BY <1>6, <1>7 DEF Disconnect, CancelNewRequest, eventVars, shutdownVars
<1>8. CASE Shutdown
    <2>1. shutdownPc = "idle" /\ UNCHANGED pc
        BY <1>8 DEF Shutdown
    <2>2. Drained = {} /\ Drained' \subseteq Range(waiters)
        BY <1>8, <2>1 DEF Shutdown, Gated, Drained
    <2>3. CASE waiters # << >>
        <3>1. Cardinality(Drained') <= Len(waiters)
            <4>1. /\ IsFiniteSet(Range(waiters)) /\ Cardinality(Range(waiters)) <= Len(waiters)
                  /\ Len(waiters) \in Nat
                BY RangeCardinality, LenProperties DEF Base, TypeOK
            <4>2. Cardinality(Drained') <= Cardinality(Range(waiters)) /\ IsFiniteSet(Drained')
                BY <2>2, <4>1, FS_Subset
            <4> QED
                BY <4>1, <4>2, FS_CardinalityType
        <3> QED
            BY <1>8, <2>3, <3>1 DEF Shutdown, Gated
    <2>4. CASE waiters = << >>
        <3>1. Drained' = {}
            BY <2>2, <2>4, EmptyFacts
        <3>2. drainRemaining' = drainRemaining /\ shutdownPc' \in {"returned", "grace"}
            BY <1>8, <2>4 DEF Shutdown, AfterDrain
        <3>3. Cardinality(Drained') <= drainRemaining'
            BY <2>2, <3>1, <3>2 DEF Gated
        <3> QED
            BY <3>1, <3>2, <3>3 DEF Gated
    <2> QED
        BY <2>3, <2>4
<1>9. CASE ShutdownStep
    <2>1. UNCHANGED <<pc, reason, drainRemaining, events>> /\ Drained = {} /\ shutdownPc' # "idle"
        BY <1>9 DEF ShutdownStep, DrainFinishes, AfterDrain, ActiveFinishesInGrace, AwaitQuiescence,
           GraceExpires, CancelledTaskEnds, QuiescenceReached, requestVars, eventVars, Gated
    <2>2. Drained' = Drained
        BY <2>1 DEF Drained
    <2> QED
        BY <2>1, <2>2 DEF Gated
<1>10. CASE UNCHANGED vars
    BY <1>6, <1>10 DEF vars, requestVars, eventVars, shutdownVars
<1> QED
    BY <1>1, <1>2, <1>3, <1>4, <1>5, <1>7, <1>8, <1>9, <1>10, DrainedLeaves DEF Next

\* shutdown() is past the drain gate only when every waiter that the drain
\* cancelled has left run(), whatever timeouts and cancellations race with it.
THEOREM DrainGateHolds == Spec => []DrainGate
<1>1. Init => Stopping /\ Gated
    <2> SUFFICES ASSUME Init PROVE Stopping /\ Gated
        OBVIOUS
    <2>1. Drained = {} /\ Cardinality({}) = 0
        BY FS_EmptySet DEF Init, Drained
    <2> QED
        BY <2>1 DEF Init, Stopping, Draining, Events, Gated
<1>2. Gated => DrainGate
    BY DEF Gated, Drained, DrainGate
<1>3. Stopping /\ Base /\ [Next]_vars => Stopping'
    BY StoppingStep
<1>4. Gated /\ Stopping /\ Base /\ [Next]_vars => Gated'
    BY GatedStep
<1> QED
    BY <1>1, <1>2, <1>3, <1>4, BaseInit, BaseStep, PTL DEF Spec

-----------------------------------------------------------------------------
(* The counters.  An entry is counted in the step in which its request     *)
(* leaves run(), and keeps the reason it is counted under.                 *)

Rejected == {r \in Requests : result[r] = "QueueFullError"}

CountedAs(t) == {r \in counted : TallyOf(reason[r]) = t}

Outcomes == Tallies \ {"admitted", "admission_rejected"}

Counting ==
    /\ counted = {r \in Requests : pc[r] = "done" /\ result[r] # "QueueFullError"}
    /\ \A r \in Requests : pc[r] # "done" => result[r] = "none"
    /\ IsFiniteSet(counted) /\ IsFiniteSet(Rejected)
    /\ counters["admission_rejected"] = Cardinality(Rejected)
    /\ counters["admitted"] = Cardinality(InFlight) + Cardinality(counted)
    /\ \A t \in Outcomes : counters[t] = Cardinality(CountedAs(t))

LEMMA TallyIsOutcome ==
    ASSUME NEW why \in Reasons
    PROVE  TallyOf(why) \in Outcomes
BY DEF TallyOf, Outcomes, Tallies, Reasons

LEMMA CountedAsIsFinite ==
    ASSUME Counting, NEW t
    PROVE  IsFiniteSet(CountedAs(t)) /\ Cardinality(CountedAs(t)) \in Nat
BY FS_Subset, FS_CardinalityType DEF Counting, CountedAs

\* A request leaves run() and is counted.
LEMMA ExitCounts ==
    ASSUME Base, Counting, NEW r \in InFlight, NEW why \in Reasons \ {"none"},
           pc' = [pc EXCEPT ![r] = "done"],
           reason' = [reason EXCEPT ![r] = why],
           NEW raised \in Results \ {"QueueFullError"},
           result' = [result EXCEPT ![r] = raised],
           RecordTerminalOnce(r, why)
    PROVE  Counting'
<1>1. r \in Requests /\ pc[r] # "done" /\ r \notin counted
    BY DEF InFlight, Counting
<1>2. /\ counted' = counted \cup {r}
      /\ counters' = [counters EXCEPT ![TallyOf(why)] = @ + 1]
    BY <1>1 DEF RecordTerminalOnce
<1>3. TallyOf(why) \in Outcomes
    BY TallyIsOutcome
<1>4. counted' = {q \in Requests : pc'[q] = "done" /\ result'[q] # "QueueFullError"}
    BY <1>1, <1>2 DEF Counting, Base, TypeOK
<1>5. \A q \in Requests : pc'[q] # "done" => result'[q] = "none"
    BY <1>1 DEF Counting, Base, TypeOK
<1>6. Rejected' = Rejected
    BY <1>1 DEF Rejected, Counting, Base, TypeOK
<1>7. /\ IsFiniteSet(counted') /\ Cardinality(counted') = Cardinality(counted) + 1
      /\ Cardinality(counted) \in Nat
    BY <1>1, <1>2, FS_AddElement, FS_CardinalityType DEF Counting
<1>8. Cardinality(InFlight') = Cardinality(InFlight) - 1 /\ Cardinality(InFlight) \in Nat
    <2>1. InFlight' = InFlight \ {r}
        BY <1>1 DEF InFlight, Base, TypeOK
    <2> QED
        BY <2>1, FS_RemoveElement, FS_CardinalityType DEF Base, Accounting
<1>9. counters'["admitted"] = counters["admitted"]
      /\ counters'["admission_rejected"] = counters["admission_rejected"]
    BY <1>2, <1>3 DEF Outcomes, Tallies, Base, TypeOK
<1>10. ASSUME NEW t \in Outcomes PROVE counters'[t] = Cardinality(CountedAs(t)')
    <2>1. CASE t = TallyOf(why)
        <3>1. CountedAs(t)' = CountedAs(t) \cup {r} /\ r \notin CountedAs(t)
            BY <1>1, <1>2, <2>1 DEF CountedAs, Base, TypeOK
        <3>2. Cardinality(CountedAs(t)') = Cardinality(CountedAs(t)) + 1
            BY <3>1, CountedAsIsFinite, FS_AddElement
        <3>3. counters'[t] = counters[t] + 1
            BY <1>2, <2>1 DEF Outcomes, Base, TypeOK
        <3> QED
            BY <3>2, <3>3 DEF Counting
    <2>2. CASE t # TallyOf(why)
        <3>1. CountedAs(t)' = CountedAs(t)
            BY <1>1, <1>2, <2>2 DEF CountedAs, Base, TypeOK
        <3>2. counters'[t] = counters[t]
            BY <1>2, <2>2 DEF Outcomes, Base, TypeOK
        <3> QED
            BY <3>1, <3>2 DEF Counting
    <2> QED
        BY <2>1, <2>2
<1>11. counters'["admitted"] = Cardinality(InFlight') + Cardinality(counted')
    BY <1>7, <1>8, <1>9 DEF Counting
<1> QED
    BY <1>4, <1>5, <1>6, <1>7, <1>9, <1>10, <1>11 DEF Counting

\* A request enters run().
LEMMA EnterCounts ==
    ASSUME Base, Counting, NEW r \in Requests, Admit(r),
           pc' \in {[pc EXCEPT ![r] = "waiting"], [pc EXCEPT ![r] = "operating"]}
    PROVE  Counting'
<1>1. /\ pc[r] = "idle" /\ UNCHANGED <<reason, counted, result>>
      /\ counters' = [counters EXCEPT !["admitted"] = @ + 1]
    BY DEF Admit, CanCall
<1>2. InFlight' = InFlight \cup {r} /\ r \notin InFlight
    BY <1>1 DEF InFlight, Base, TypeOK
<1>3. Cardinality(InFlight') = Cardinality(InFlight) + 1
      /\ Cardinality(InFlight) \in Nat /\ Cardinality(counted) \in Nat
    BY <1>2, FS_AddElement, FS_CardinalityType DEF Counting, Base, Accounting
<1>4. /\ counted' = {q \in Requests : pc'[q] = "done" /\ result'[q] # "QueueFullError"}
      /\ \A q \in Requests : pc'[q] # "done" => result'[q] = "none"
    BY <1>1 DEF Counting, Base, TypeOK
<1>5. Rejected' = Rejected /\ \A t : CountedAs(t)' = CountedAs(t)
    BY <1>1 DEF Rejected, CountedAs
<1>6. /\ counters'["admitted"] = counters["admitted"] + 1
      /\ \A t \in Tallies \ {"admitted"} : counters'[t] = counters[t]
    BY <1>1 DEF Tallies, Base, TypeOK
<1>7. /\ counters'["admitted"] = Cardinality(InFlight') + Cardinality(counted')
      /\ counters'["admission_rejected"] = Cardinality(Rejected')
    BY <1>1, <1>3, <1>5, <1>6 DEF Counting, Tallies
<1>8. \A t \in Outcomes : counters'[t] = Cardinality(CountedAs(t)')
    BY <1>5, <1>6 DEF Counting, Outcomes
<1> QED
    BY <1>1, <1>4, <1>5, <1>7, <1>8 DEF Counting

LEMMA RejectCounts ==
    ASSUME Base, Counting, NEW r \in Requests, Reject(r)
    PROVE  Counting'
<1>1. /\ pc[r] = "idle" /\ pc' = [pc EXCEPT ![r] = "done"]
      /\ result' = [result EXCEPT ![r] = "QueueFullError"]
      /\ counters' = [counters EXCEPT !["admission_rejected"] = @ + 1]
      /\ UNCHANGED <<reason, counted>>
    BY DEF Reject, CanCall
<1>2. InFlight' = InFlight
    BY <1>1 DEF InFlight, Base, TypeOK
<1>3. Rejected' = Rejected \cup {r} /\ r \notin Rejected
    BY <1>1 DEF Rejected, Counting, Base, TypeOK
<1>4. IsFiniteSet(Rejected') /\ Cardinality(Rejected') = Cardinality(Rejected) + 1
    BY <1>3, FS_AddElement DEF Counting
<1>5. /\ counted' = {q \in Requests : pc'[q] = "done" /\ result'[q] # "QueueFullError"}
      /\ \A q \in Requests : pc'[q] # "done" => result'[q] = "none"
    BY <1>1 DEF Counting, Base, TypeOK
<1>6. \A t : CountedAs(t)' = CountedAs(t)
    BY <1>1 DEF CountedAs
<1>7. /\ counters'["admission_rejected"] = counters["admission_rejected"] + 1
      /\ \A t \in Tallies \ {"admission_rejected"} : counters'[t] = counters[t]
    BY <1>1 DEF Tallies, Base, TypeOK
<1>8. /\ counters'["admitted"] = Cardinality(InFlight') + Cardinality(counted')
      /\ counters'["admission_rejected"] = Cardinality(Rejected')
    BY <1>1, <1>2, <1>4, <1>7 DEF Counting, Tallies
<1>9. \A t \in Outcomes : counters'[t] = Cardinality(CountedAs(t)')
    BY <1>6, <1>7 DEF Counting, Outcomes
<1> QED
    BY <1>1, <1>4, <1>5, <1>8, <1>9 DEF Counting

\* Nobody enters or leaves, and no counted entry changes its reason.
LEMMA StayCounts ==
    ASSUME Base, Counting, UNCHANGED <<counted, result, counters>>,
           InFlight' = InFlight,
           \A r \in Requests : pc'[r] = "done" <=> pc[r] = "done",
           \A r \in counted : reason'[r] = reason[r]
    PROVE  Counting'
<1>1. Rejected' = Rejected /\ \A t : CountedAs(t)' = CountedAs(t)
    BY DEF Rejected, CountedAs
<1> QED
    BY <1>1 DEF Counting

LEMMA CountingStep ==
    ASSUME Base, Counting, [Next]_vars
    PROVE  Counting'
<1>1. ASSUME NEW r \in Requests, AdmitActive(r) \/ AdmitWaiting(r) PROVE Counting'
    BY <1>1, EnterCounts DEF AdmitActive, AdmitWaiting
<1>2. ASSUME NEW r \in Requests, LeaveTimedOut(r) \/ LeaveCancelled(r) PROVE Counting'
    <2>1. PICK why \in Reasons \ {"none"}, raised \in Results \ {"QueueFullError"} :
              /\ pc' = [pc EXCEPT ![r] = "done"] /\ reason' = [reason EXCEPT ![r] = why]
              /\ result' = [result EXCEPT ![r] = raised]
              /\ RecordTerminalOnce(r, why)
        <3>1. CASE LeaveTimedOut(r)
            BY <3>1 DEF LeaveTimedOut, LeaveQueue, Reasons, Results
        <3>2. CASE LeaveCancelled(r)
            BY <3>2 DEF LeaveCancelled, LeaveQueue, Reasons, Results, Base, TypeOK
        <3> QED
            BY <1>2, <3>1, <3>2
    <2>2. r \in InFlight
        BY <1>2 DEF LeaveTimedOut, LeaveCancelled, InFlight
    <2> QED
        BY <2>1, <2>2, ExitCounts
<1>3. ASSUME NEW r \in Requests, OperationEnds(r) PROVE Counting'
    <2>1. PICK ending \in Endings :
              /\ pc[r] = "operating" /\ pc' = [pc EXCEPT ![r] = "done"]
              /\ reason' = [reason EXCEPT ![r] = ending.why]
              /\ RecordTerminalOnce(r, ending.why)
              /\ IF waiters # <<>> THEN HandOver(r, ending) ELSE GoIdle(r, ending)
        BY <1>3 DEF OperationEnds
    <2>2. ending.why \in Reasons \ {"none"} /\ ending.raises \in Results \ {"QueueFullError"}
        BY DEF Endings, Reasons, Results
    <2>3. result' \in {[result EXCEPT ![r] = ending.raises],
                       [result EXCEPT ![r] = "InvalidStateError"]}
        BY <2>1 DEF HandOver, GoIdle
    <2>4. PICK raised \in Results \ {"QueueFullError"} : result' = [result EXCEPT ![r] = raised]
        BY <2>2, <2>3 DEF Results
    <2>5. r \in InFlight
        BY <2>1 DEF InFlight
    <2> QED
        BY <2>1, <2>2, <2>4, <2>5, ExitCounts
<1>4. ASSUME NEW r \in Requests, Resume(r) PROVE Counting'
    <2>1. /\ InFlight' = InFlight /\ UNCHANGED <<reason, counted, result, counters>>
          /\ \A q \in Requests : pc'[q] = "done" <=> pc[q] = "done"
        BY <1>4 DEF Resume, InFlight, Base, TypeOK
    <2> QED
        BY <2>1, StayCounts
<1>5. CASE Shutdown
    <2>1. UNCHANGED <<pc, counted, result, counters>>
        BY <1>5 DEF Shutdown
    <2>2. \A r \in counted : reason'[r] = reason[r]
        <3>1. \A r \in Range(waiters) : pc[r] = "waiting"
            BY DEF Base, Queued
        <3>2. \A r \in counted : r \in Requests /\ r \notin Range(waiters)
            BY <3>1 DEF Counting
        <3> QED
            BY <1>5, <3>2 DEF Shutdown
    <2> QED
        BY <2>1, <2>2, StayCounts DEF InFlight
<1>6. ASSUME UNCHANGED <<pc, reason, counted, result, counters>> PROVE Counting'
    BY <1>6, StayCounts DEF InFlight
<1>7. ASSUME NEW r \in Requests, WaitTimeout(r) PROVE Counting'
    BY <1>6, <1>7 DEF WaitTimeout
<1>8. ASSUME NEW c \in Connections, Disconnect(c) \/ CancelNewRequest(c) PROVE Counting'
    BY <1>6, <1>8 DEF Disconnect, CancelNewRequest
<1>9. CASE ShutdownStep
    BY <1>6, <1>9 DEF ShutdownStep, DrainFinishes, ActiveFinishesInGrace, GraceExpires,
       CancelledTaskEnds, QuiescenceReached, requestVars
<1>10. CASE UNCHANGED vars
    BY <1>6, <1>10 DEF vars, requestVars
<1> QED
    BY <1>1, <1>2, <1>3, <1>4, <1>5, <1>7, <1>8, <1>9, <1>10, RejectCounts DEF Next

\* Every admitted request is counted once, under the reason its entry ends
\* with, and every refused one as refused, whichever exits race.
THEOREM OutcomesCountedOnceHolds == Spec => []OutcomesCountedOnce
<1>1. Init => Counting
    <2> SUFFICES ASSUME Init PROVE Counting
        OBVIOUS
    <2>1. Rejected = {} /\ InFlight = {} /\ counted = {} /\ \A t : CountedAs(t) = {}
        BY DEF Init, Rejected, InFlight, CountedAs
    <2>2. \A t \in Tallies : counters[t] = 0
        BY DEF Init
    <2>3. \A r \in Requests : pc[r] = "idle" /\ result[r] = "none"
        BY DEF Init
    <2>4. IsFiniteSet({}) /\ Cardinality({}) = 0
        BY FS_EmptySet
    <2> QED
        BY <2>1, <2>2, <2>3, <2>4 DEF Counting, Outcomes, Tallies
<1>2. Counting => OutcomesCountedOnce
    BY DEF Counting, OutcomesCountedOnce, Outcomes, CountedAs, Rejected
<1>3. Counting /\ Base /\ [Next]_vars => Counting'
    BY CountingStep
<1> QED
    BY <1>1, <1>2, <1>3, BaseInit, BaseStep, PTL DEF Spec

-----------------------------------------------------------------------------
(***************************************************************************)
(* The third part: each step of the scheduler is a step of the gate, or    *)
(* leaves the gate as it was.                                              *)
(***************************************************************************)

(* More about filtering a sequence.                                        *)

LEMMA PrefixesAt ==
    ASSUME NEW S, NEW s \in Seq(S), NEW T
    PROVE  \A i \in 0..Len(s) :
              Prefixes(s, T)[i] = IF i = 0 THEN << >>
                                  ELSE IF s[i] \in T THEN Append(Prefixes(s, T)[i-1], s[i])
                                  ELSE Prefixes(s, T)[i-1]
<1> DEFINE f == Prefixes(s, T)
<1>1. f = [i \in 0..Len(s) |-> IF i = 0 THEN << >>
                               ELSE IF s[i] \in T THEN Append(f[i-1], s[i])
                               ELSE f[i-1]]
    BY PrefixesEquation
<1> HIDE DEF f
<1>2. \A i \in 0..Len(s) : f[i] = IF i = 0 THEN << >>
                                  ELSE IF s[i] \in T THEN Append(f[i-1], s[i])
                                  ELSE f[i-1]
    BY <1>1
<1> QED
    BY <1>2 DEF f

\* What is kept depends on the members of the sequence only.
LEMMA KeepSame ==
    ASSUME NEW S, NEW s \in Seq(S), NEW T, NEW U,
           \A x \in Range(s) : x \in T <=> x \in U
    PROVE  Keep(s, T) = Keep(s, U)
<1> DEFINE f == Prefixes(s, T)
           g == Prefixes(s, U)
           Same == {n \in Nat : n <= Len(s) => f[n] = g[n]}
<1>0. Len(s) \in Nat /\ DOMAIN s = 1..Len(s)
    BY LenProperties
<1>1. /\ \A i \in 0..Len(s) : f[i] = IF i = 0 THEN << >>
                                     ELSE IF s[i] \in T THEN Append(f[i-1], s[i])
                                     ELSE f[i-1]
      /\ \A i \in 0..Len(s) : g[i] = IF i = 0 THEN << >>
                                     ELSE IF s[i] \in U THEN Append(g[i-1], s[i])
                                     ELSE g[i-1]
    BY PrefixesAt
<1>2. \A i \in 1..Len(s) : s[i] \in T <=> s[i] \in U
    BY <1>0 DEF Range
<1>3. Keep(s, T) = f[Len(s)] /\ Keep(s, U) = g[Len(s)]
    BY KeepIsPrefixes
<1> HIDE DEF f, g
<1>4. 0 \in Same
    BY <1>0, <1>1
<1>5. ASSUME NEW n \in Nat, n \in Same PROVE n + 1 \in Same
    <2> SUFFICES ASSUME n + 1 <= Len(s) PROVE f[n+1] = g[n+1]
        OBVIOUS
    <2>1. f[n] = g[n] /\ n + 1 \in 1..Len(s) /\ n + 1 \in 0..Len(s)
        BY <1>0, <1>5
    <2>2. f[n+1] = IF s[n+1] \in T THEN Append(f[n], s[n+1]) ELSE f[n]
        BY <1>1, <2>1
    <2>3. g[n+1] = IF s[n+1] \in U THEN Append(g[n], s[n+1]) ELSE g[n]
        BY <1>1, <2>1
    <2> QED
        BY <1>2, <2>1, <2>2, <2>3
<1>6. Len(s) \in Same
    <2> HIDE DEF Same
    <2> QED
        BY <1>0, <1>4, <1>5, SetInduction
<1> QED
    BY <1>0, <1>3, <1>6

LEMMA ConsAppend ==
    ASSUME NEW S, NEW x \in S, NEW s \in Seq(S), NEW a \in S
    PROVE  Append(<<x>> \o s, a) = <<x>> \o Append(s, a)
<1>0. <<x>> \in Seq(S) /\ Len(<<x>>) = 1 /\ Len(s) \in Nat
    BY LenProperties
<1>1. /\ <<x>> \o s \in Seq(S) /\ Len(<<x>> \o s) = 1 + Len(s)
      /\ \A i \in 1..(1 + Len(s)) : (<<x>> \o s)[i] = IF i <= 1 THEN <<x>>[i] ELSE s[i - 1]
    BY <1>0, ConcatProperties
<1>2. /\ Append(s, a) \in Seq(S) /\ Len(Append(s, a)) = Len(s) + 1
      /\ \A i \in 1..Len(s) : Append(s, a)[i] = s[i]
      /\ Append(s, a)[Len(s) + 1] = a
    BY AppendProperties
<1>3. /\ <<x>> \o Append(s, a) \in Seq(S) /\ Len(<<x>> \o Append(s, a)) = 1 + (Len(s) + 1)
      /\ \A i \in 1..(1 + (Len(s) + 1)) :
            (<<x>> \o Append(s, a))[i] = IF i <= 1 THEN <<x>>[i] ELSE Append(s, a)[i - 1]
    BY <1>0, <1>2, ConcatProperties
<1> DEFINE u == <<x>> \o s
           v == <<x>> \o Append(s, a)
           w == Append(u, a)
<1>4. /\ w \in Seq(S) /\ Len(w) = Len(u) + 1
      /\ \A i \in 1..Len(u) : w[i] = u[i]
      /\ w[Len(u) + 1] = a
    BY <1>1, AppendProperties
<1>5. v \in Seq(S) /\ Len(v) = Len(w)
    BY <1>0, <1>1, <1>3, <1>4
<1>6. ASSUME NEW i \in 1..Len(w) PROVE w[i] = v[i]
    <2>1. Len(w) = Len(s) + 2 /\ Len(u) = Len(s) + 1
        BY <1>0, <1>1, <1>4
    <2>2. v[i] = IF i <= 1 THEN <<x>>[i] ELSE Append(s, a)[i - 1]
        BY <1>0, <1>3, <2>1
    <2>3. CASE i = Len(s) + 2
        BY <1>0, <1>2, <1>4, <2>1, <2>2, <2>3
    <2>4. CASE i # Len(s) + 2
        <3>1. i \in 1..(1 + Len(s)) /\ w[i] = u[i]
            BY <1>0, <1>4, <2>1, <2>4
        <3>2. u[i] = IF i <= 1 THEN <<x>>[i] ELSE s[i - 1]
            BY <1>1, <3>1
        <3>3. i > 1 => i - 1 \in 1..Len(s)
            BY <1>0, <3>1
        <3> QED
            BY <1>0, <1>2, <2>2, <3>1, <3>2, <3>3
    <2> QED
        BY <2>3, <2>4
<1> HIDE DEF v, w
<1>7. w = v
    BY <1>4, <1>5, <1>6, SeqEqual
<1> QED
    BY <1>7 DEF v, w, u

\* Filtering a sequence with one more element in front.
LEMMA KeepCons ==
    ASSUME NEW S, NEW x \in S, NEW s \in Seq(S), NEW T
    PROVE  Keep(<<x>> \o s, T) = IF x \in T THEN <<x>> \o Keep(s, T) ELSE Keep(s, T)
<1> DEFINE u == <<x>> \o s
           f == Prefixes(s, T)
           g == Prefixes(u, T)
           Front(t) == IF x \in T THEN <<x>> \o t ELSE t
           Same == {n \in Nat : n <= Len(s) => f[n] \in Seq(S) /\ g[n+1] = Front(f[n])}
<1>0. /\ Len(s) \in Nat /\ <<x>> \in Seq(S) /\ Len(<<x>>) = 1 /\ <<x>>[1] = x
      /\ \A i \in 1..Len(s) : s[i] \in S
    BY LenProperties, ElementOfSeq
<1>1. /\ u \in Seq(S) /\ Len(u) = Len(s) + 1
      /\ u[1] = x /\ \A i \in 1..Len(s) : u[i + 1] = s[i]
    <2>1. /\ u \in Seq(S) /\ Len(u) = 1 + Len(s)
          /\ \A i \in 1..(1 + Len(s)) : u[i] = IF i <= 1 THEN <<x>>[i] ELSE s[i - 1]
        BY <1>0, ConcatProperties
    <2> HIDE DEF u
    <2>2. u[1] = x
        BY <1>0, <2>1
    <2>3. \A i \in 1..Len(s) : u[i + 1] = s[i]
        BY <1>0, <2>1
    <2> QED
        BY <1>0, <2>1, <2>2, <2>3
<1> HIDE DEF u
<1>2. /\ \A i \in 0..Len(s) : f[i] = IF i = 0 THEN << >>
                                     ELSE IF s[i] \in T THEN Append(f[i-1], s[i])
                                     ELSE f[i-1]
      /\ \A i \in 0..Len(u) : g[i] = IF i = 0 THEN << >>
                                     ELSE IF u[i] \in T THEN Append(g[i-1], u[i])
                                     ELSE g[i-1]
    <2>1. \A i \in 0..Len(s) : f[i] = IF i = 0 THEN << >>
                                      ELSE IF s[i] \in T THEN Append(f[i-1], s[i])
                                      ELSE f[i-1]
        BY PrefixesAt
    <2>2. \A i \in 0..Len(u) : g[i] = IF i = 0 THEN << >>
                                      ELSE IF u[i] \in T THEN Append(g[i-1], u[i])
                                      ELSE g[i-1]
        BY <1>1, PrefixesAt
    <2> QED
        BY <2>1, <2>2
<1>3. Keep(s, T) = f[Len(s)] /\ Keep(u, T) = g[Len(u)]
    BY KeepIsPrefixes
<1> HIDE DEF f, g
<1>4. 0 \in Same
    <2>1. f[0] = << >> /\ g[0] = << >>
        BY <1>0, <1>1, <1>2
    <2>2. g[1] = IF x \in T THEN Append(<< >>, x) ELSE << >>
        <3>1. 1 \in 0..Len(u) /\ 1 - 1 = 0 /\ 1 # 0
            BY <1>0, <1>1
        <3>2. g[1] = IF u[1] \in T THEN Append(g[1-1], u[1]) ELSE g[1-1]
            BY <1>2, <3>1
        <3> QED
            BY <1>1, <2>1, <3>1, <3>2
    <2>3. Append(<< >>, x) = <<x>> /\ <<x>> \o << >> = <<x>>
        BY <1>0, ConcatEmptySeq
    <2>4. g[1] = Front(f[0]) /\ f[0] \in Seq(S)
        BY <2>1, <2>2, <2>3, EmptySeq
    <2> HIDE DEF Front
    <2> QED
        BY <2>4
<1>5. ASSUME NEW n \in Nat, n \in Same PROVE n + 1 \in Same
    <2> SUFFICES ASSUME n + 1 <= Len(s)
                 PROVE  f[n+1] \in Seq(S) /\ g[(n+1)+1] = Front(f[n+1])
        OBVIOUS
    <2>1. f[n] \in Seq(S) /\ g[n+1] = Front(f[n])
        BY <1>0, <1>5
    <2>2. f[n+1] = IF s[n+1] \in T THEN Append(f[n], s[n+1]) ELSE f[n]
        BY <1>0, <1>2
    <2>3. g[(n+1)+1] = IF s[n+1] \in T THEN Append(g[n+1], s[n+1]) ELSE g[n+1]
        <3>1. (n+1)+1 \in 0..Len(u) /\ ((n+1)+1)-1 = n+1 /\ (n+1)+1 # 0
            BY <1>0, <1>1
        <3>2. u[(n+1)+1] = s[n+1]
            BY <1>0, <1>1
        <3> QED
            BY <1>2, <3>1, <3>2
    <2>4. s[n+1] \in S
        BY <1>0
    <2>5. Append(<<x>> \o f[n], s[n+1]) = <<x>> \o Append(f[n], s[n+1])
        BY <2>1, <2>4, ConsAppend
    <2>6. f[n+1] \in Seq(S)
        BY <2>1, <2>2, <2>4, AppendProperties
    <2>7. CASE s[n+1] \in T
        <3>1. f[n+1] = Append(f[n], s[n+1]) /\ g[(n+1)+1] = Append(g[n+1], s[n+1])
            BY <2>2, <2>3, <2>7
        <3> QED
            BY <2>1, <2>5, <2>6, <3>1
    <2>8. CASE s[n+1] \notin T
        BY <2>1, <2>2, <2>3, <2>6, <2>8
    <2> QED
        BY <2>7, <2>8
<1>6. Len(s) \in Same
    <2> HIDE DEF Same
    <2> QED
        BY <1>0, <1>4, <1>5, SetInduction
<1>7. g[Len(u)] = Front(f[Len(s)])
    <2> HIDE DEF Front
    <2> QED
        BY <1>0, <1>1, <1>6
<1> QED
    BY <1>3, <1>7 DEF u

LEMMA ConsRange ==
    ASSUME NEW S, NEW x \in S, NEW s \in Seq(S)
    PROVE  /\ <<x>> \o s \in Seq(S)
           /\ Range(<<x>> \o s) = {x} \cup Range(s)
           /\ <<x>> \o s # << >>
           /\ Head(<<x>> \o s) = x /\ Tail(<<x>> \o s) = s
<1> DEFINE u == <<x>> \o s
<1>0. /\ Len(s) \in Nat /\ DOMAIN s = 1..Len(s)
      /\ <<x>> \in Seq(S) /\ Len(<<x>>) = 1 /\ <<x>>[1] = x
    BY LenProperties
<1>1. /\ u \in Seq(S) /\ Len(u) = Len(s) + 1 /\ DOMAIN u = 1..(Len(s) + 1)
      /\ u[1] = x /\ \A i \in 1..Len(s) : u[i + 1] = s[i]
    <2>1. /\ u \in Seq(S) /\ Len(u) = 1 + Len(s)
          /\ \A i \in 1..(1 + Len(s)) : u[i] = IF i <= 1 THEN <<x>>[i] ELSE s[i - 1]
        BY <1>0, ConcatProperties
    <2> HIDE DEF u
    <2>2. DOMAIN u = 1..Len(u)
        BY <2>1, LenProperties
    <2> QED
        BY <1>0, <2>1, <2>2
<1> HIDE DEF u
<1>2. u # << >> /\ Head(u) = x
    BY <1>0, <1>1, EmptySeq
<1>3. Tail(u) = s
    <2>1. /\ Tail(u) \in Seq(S) /\ Len(Tail(u)) = Len(u) - 1
          /\ \A i \in 1..Len(Tail(u)) : Tail(u)[i] = u[i+1]
        BY <1>1, <1>2, HeadTailProperties
    <2>2. Len(Tail(u)) = Len(s) /\ \A i \in 1..Len(s) : Tail(u)[i] = s[i]
        BY <1>0, <1>1, <2>1
    <2> QED
        BY <2>1, <2>2, SeqEqual
<1>4. Range(u) = {x} \cup Range(s)
    BY <1>1, <1>2, <1>3, RangeOfHeadTail
<1> QED
    BY <1>1, <1>2, <1>3, <1>4 DEF u

LEMMA HeadTailCons ==
    ASSUME NEW S, NEW s \in Seq(S), s # << >>
    PROVE  <<Head(s)>> \o Tail(s) = s
<1>0. /\ Head(s) \in S /\ Tail(s) \in Seq(S) /\ Len(Tail(s)) = Len(s) - 1
      /\ \A i \in 1..Len(Tail(s)) : Tail(s)[i] = s[i+1]
      /\ Head(s) = s[1] /\ Len(s) \in Nat \ {0}
    BY HeadTailProperties, LenProperties, EmptySeq
<1> DEFINE x == Head(s)
           u == <<x>> \o Tail(s)
<1>1. <<x>> \in Seq(S) /\ Len(<<x>>) = 1 /\ <<x>>[1] = x
    BY <1>0
<1>2. /\ u \in Seq(S) /\ Len(u) = 1 + Len(Tail(s))
      /\ \A i \in 1..(1 + Len(Tail(s))) : u[i] = IF i <= 1 THEN <<x>>[i] ELSE Tail(s)[i - 1]
    BY <1>0, <1>1, ConcatProperties
<1> HIDE DEF u
<1>3. \A i \in 1..Len(s) : u[i] = s[i]
    BY <1>0, <1>1, <1>2
<1>4. Len(u) = Len(s)
    BY <1>0, <1>2
<1> QED
    BY <1>2, <1>3, <1>4, SeqEqual DEF u

-----------------------------------------------------------------------------
(* The owner of the active entry has entered run() and is not queued any   *)
(* more: it stands in front of the deque, or behind nobody.                *)

Entered ==
    activeEntry # NoRequest => /\ pc[activeEntry] # "idle"
                               /\ activeEntry \notin Range(waiters)

LEMMA EnteredStep ==
    ASSUME Base, Entered, [Next]_vars
    PROVE  Entered'
<1> USE NoRequestAssumption DEF Base
<1>1. ASSUME NEW r \in Requests, Reject(r) PROVE Entered'
    BY <1>1 DEF Reject, gateVars, TypeOK, Entered
<1>2. ASSUME NEW r \in Requests, AdmitActive(r) PROVE Entered'
    <2>1. waiters' = << >> /\ activeEntry' = r /\ pc'[r] = "operating"
        BY <1>2 DEF AdmitActive, WorkerFree, Queued, NoLostWaiter, TypeOK
    <2> QED
        BY <2>1, EmptyFacts DEF Entered
<1>3. ASSUME NEW r \in Requests, AdmitWaiting(r) PROVE Entered'
    <2>1. Range(waiters') = Range(waiters) \cup {r}
        BY <1>3, RangeOfAppend DEF AdmitWaiting, TypeOK
    <2>2. r # activeEntry
        BY <1>3 DEF AdmitWaiting, Admit, CanCall, WorkerFree, Entered
    <2> QED
        BY <1>3, <2>1, <2>2 DEF AdmitWaiting, TypeOK, Entered
<1>4. ASSUME NEW r \in Requests, WaitTimeout(r) PROVE Entered'
    BY <1>4 DEF WaitTimeout, gateVars, Entered
<1>5. ASSUME NEW r \in Requests, Resume(r) PROVE Entered'
    BY <1>5 DEF Resume, Ownership, TypeOK, Entered
<1>6. ASSUME NEW r \in Requests, LeaveTimedOut(r) \/ LeaveCancelled(r) PROVE Entered'
    <2>1. /\ pc' = [pc EXCEPT ![r] = "done"] /\ UNCHANGED activeEntry
          /\ waiters' = Keep(waiters, Requests \ {r})
        BY <1>6 DEF LeaveTimedOut, LeaveCancelled, LeaveQueue
    <2>2. Range(waiters') \subseteq Range(waiters)
        BY <2>1, KeepQueued
    <2> QED
        BY <2>1, <2>2 DEF TypeOK, Entered
<1>7. ASSUME NEW r \in Requests, OperationEnds(r) PROVE Entered'
    <2>1. PICK ending \in Endings :
              /\ pc[r] = "operating"
              /\ pc' = [pc EXCEPT ![r] = "done"]
              /\ IF waiters # <<>> THEN HandOver(r, ending) ELSE GoIdle(r, ending)
        BY <1>7 DEF OperationEnds
    <2>2. CASE waiters # << >>
        <3>1. activeEntry' = Head(waiters) /\ waiters' = Tail(waiters)
            BY <2>1, <2>2 DEF HandOver, NextInLine
        <3>2. Head(waiters) \in Range(waiters) /\ Head(waiters) \notin Range(Tail(waiters))
            BY <2>2, RangeOfHeadTail DEF TypeOK, Queued, NoLostWaiter, Distinct
        <3>3. Head(waiters) \in Requests /\ pc[Head(waiters)] = "waiting"
            BY <3>2 DEF Queued, Range, TypeOK
        <3> QED
            BY <2>1, <3>1, <3>2, <3>3 DEF TypeOK, Entered
    <2>3. CASE waiters = << >>
        BY <2>1, <2>3 DEF GoIdle, TypeOK, Entered
    <2> QED
        BY <2>2, <2>3
<1>8. ASSUME NEW c \in Connections, Disconnect(c) \/ CancelNewRequest(c) PROVE Entered'
    <2>1. PICK T : waiters' = Keep(waiters, T) /\ UNCHANGED <<pc, activeEntry>>
        BY <1>8 DEF Disconnect, CancelNewRequest
    <2>2. Range(waiters') \subseteq Range(waiters)
        BY <2>1, KeepQueued
    <2> QED
        BY <2>1, <2>2 DEF Entered
<1>9. CASE Shutdown
    BY <1>9, EmptyFacts DEF Shutdown, Entered
<1>10. CASE ShutdownStep
    BY <1>10 DEF ShutdownStep, DrainFinishes, ActiveFinishesInGrace, GraceExpires,
       CancelledTaskEnds, QuiescenceReached, requestVars, gateVars, Entered
<1>11. CASE UNCHANGED vars
    BY <1>11 DEF vars, requestVars, gateVars, Entered
<1> QED
    BY <1>1, <1>2, <1>3, <1>4, <1>5, <1>6, <1>7, <1>8, <1>9, <1>10, <1>11 DEF Next

-----------------------------------------------------------------------------
(* The gate's variables, in a state of the scheduler.                      *)

Holder == IF Operating = {} THEN NoRequest ELSE CHOOSE r \in Operating : TRUE

Past == {r \in Requests : pc[r] = "done"}

LEMMA StayingIsKeep == \A s, T : Gate!Staying(s, T) = Keep(s, T)
BY DEF Gate!Staying, Keep

LEMMA SameRange == \A s : Gate!Range(s) = Range(s)
BY DEF Gate!Range, Range

LEMMA SameCardinality == \A S : Gate!Cardinality(S) = Cardinality(S)
BY DEF Gate!Cardinality, Cardinality

LEMMA HolderOf ==
    Base => /\ \A r \in Requests : pc[r] = "operating" => Holder = r
            /\ (\A r \in Requests : pc[r] # "operating") => Holder = NoRequest
<1> SUFFICES ASSUME Base
             PROVE  /\ \A r \in Requests : pc[r] = "operating" => Holder = r
                    /\ (\A r \in Requests : pc[r] # "operating") => Holder = NoRequest
    OBVIOUS
<1>1. ASSUME NEW r \in Requests, pc[r] = "operating" PROVE Holder = r
    <2>1. Operating = {r}
        BY <1>1 DEF Base, Ownership, Operating
    <2> QED
        BY <2>1 DEF Holder
<1>2. ASSUME \A r \in Requests : pc[r] # "operating" PROVE Holder = NoRequest
    BY <1>2 DEF Operating, Holder
<1> QED
    BY <1>1, <1>2

LEMMA HolderOfNext ==
    Base' => /\ \A r \in Requests : pc'[r] = "operating" => Holder' = r
             /\ (\A r \in Requests : pc'[r] # "operating") => Holder' = NoRequest
<1> DEFINE H == /\ \A r \in Requests : pc[r] = "operating" => Holder = r
                /\ (\A r \in Requests : pc[r] # "operating") => Holder = NoRequest
<1>1. Base => H
    BY HolderOf
<1> HIDE DEF H
<1>2. Base' => H'
    BY <1>1, PTL
<1> QED
    BY <1>2 DEF H

\* The line is the deque, behind a request that has been handed the worker.
LEMMA LineForm ==
    Base => /\ Line \in Seq(Requests)
            /\ Range(Line) \subseteq {r \in Requests : pc[r] = "waiting"}
<1> SUFFICES ASSUME Base
             PROVE  /\ Line \in Seq(Requests)
                    /\ Range(Line) \subseteq {r \in Requests : pc[r] = "waiting"}
    OBVIOUS
<1>1. Range(waiters) \subseteq {r \in Requests : pc[r] = "waiting"}
    BY DEF Base, Queued, Range, TypeOK
<1>2. CASE activeEntry # NoRequest /\ pc[activeEntry] = "waiting"
    <2>1. activeEntry \in Requests /\ waiters \in Seq(Requests)
        BY <1>2 DEF Base, TypeOK
    <2>2. Line = <<activeEntry>> \o waiters
        BY <1>2 DEF Line
    <2> QED
        BY <1>1, <1>2, <2>1, <2>2, ConsRange
<1>3. CASE ~(activeEntry # NoRequest /\ pc[activeEntry] = "waiting")
    BY <1>1, <1>3 DEF Line, Base, TypeOK
<1> QED
    BY <1>2, <1>3

-----------------------------------------------------------------------------
(* Each step of the scheduler is a step of the gate, or none.              *)

LEMMA RejectTurnsAway ==
    ASSUME Base, Base', Entered, NEW r \in Requests, Reject(r)
    PROVE  Gate!TurnAway(r)
<1>1. /\ pc[r] = "idle" /\ pc' = [pc EXCEPT ![r] = "done"]
      /\ UNCHANGED <<activeEntry, waiters, events>>
      /\ Draining \/ depth >= MaxSize
    BY DEF Reject, CanCall, AdmissionClosed, gateVars, eventVars
<1>2. r \notin InFlight \cup Past /\ InFlight' = InFlight /\ Past' = Past \cup {r}
    BY <1>1 DEF InFlight, Past, Base, TypeOK
<1>3. Draining \/ Cardinality(InFlight) = MaxSize
    BY <1>1, MaxSizeAssumption DEF Base, TypeOK, Accounting
<1>4. Line' = Line
    <2>1. activeEntry # NoRequest => activeEntry \in Requests /\ activeEntry # r
        BY <1>1 DEF Base, TypeOK, Entered
    <2> QED
        BY <1>1, <2>1 DEF Line, Base, TypeOK
<1>5. Holder' = Holder
    <2>1. Operating' = Operating
        BY <1>1 DEF Operating, Base, TypeOK
    <2> QED
        BY <2>1 DEF Holder
<1>6. Draining' = Draining
    BY <1>1 DEF Draining
<1> QED
    BY <1>2, <1>3, <1>4, <1>5, <1>6, SameCardinality DEF Gate!TurnAway, Gate!Full, Holder, Past

LEMMA AdmissionArrives ==
    ASSUME Base, Base', Entered, NEW r \in Requests, AdmitActive(r) \/ AdmitWaiting(r)
    PROVE  Gate!Arrive(r)
<1>1. /\ pc[r] = "idle" /\ ~Draining /\ depth < MaxSize
      /\ pc' \in {[pc EXCEPT ![r] = "waiting"], [pc EXCEPT ![r] = "operating"]}
      /\ events' \in {events \ {"quiescence", "active_complete"}, events \ {"quiescence"}}
    BY MaxSizeAssumption
       DEF AdmitActive, AdmitWaiting, Admit, CanCall, AdmissionClosed, Base, TypeOK
<1>2. /\ r \notin InFlight \cup Past
      /\ InFlight' = InFlight \cup {r} /\ Past' = Past
    BY <1>1 DEF InFlight, Past, Base, TypeOK
<1>3. Cardinality(InFlight) # MaxSize
    BY <1>1, MaxSizeAssumption DEF Base, TypeOK, Accounting
<1>4. Draining' = Draining
    BY <1>1 DEF Draining
<1>5. CASE AdmitActive(r)
    <2>1. /\ activeEntry = NoRequest /\ waiters = << >>
          /\ pc' = [pc EXCEPT ![r] = "operating"] /\ activeEntry' = r
          /\ waiters' = waiters
        BY <1>5 DEF AdmitActive, WorkerFree, Base, Queued, NoLostWaiter
    <2>2. Line = << >> /\ Line' = << >>
        BY <2>1 DEF Line, Base, TypeOK
    <2>3. \A q \in Requests : pc[q] # "operating"
        BY <2>1, NoRequestAssumption DEF Base, Ownership
    <2>4. Holder = NoRequest
        BY <2>3, HolderOf
    <2>5. Holder' = r
        BY <2>1, HolderOfNext DEF Base, TypeOK
    <2> QED
        BY <1>1, <1>2, <1>3, <1>4, <2>2, <2>4, <2>5, SameCardinality DEF Gate!Arrive, Gate!Full, Holder, Past
<1>6. CASE AdmitWaiting(r)
    <2>1. /\ activeEntry # NoRequest /\ activeEntry \in Requests
          /\ pc' = [pc EXCEPT ![r] = "waiting"] /\ activeEntry' = activeEntry
          /\ waiters' = Append(waiters, r) /\ waiters \in Seq(Requests)
        BY <1>6 DEF AdmitWaiting, WorkerFree, Base, TypeOK
    <2>2. r # activeEntry
        BY <1>1, <2>1 DEF Entered
    <2>3. Line' = Append(Line, r)
        <3>1. CASE pc[activeEntry] = "waiting"
            <4>1. Line = <<activeEntry>> \o waiters /\ Line' = <<activeEntry>> \o Append(waiters, r)
                BY <2>1, <2>2, <3>1 DEF Line, Base, TypeOK
            <4> QED
                BY <2>1, <4>1, ConsAppend
        <3>2. CASE pc[activeEntry] # "waiting"
            BY <2>1, <2>2, <3>2 DEF Line, Base, TypeOK
        <3> QED
            BY <3>1, <3>2
    <2>4. Holder' = Holder
        <3>1. Operating' = Operating
            BY <1>1, <2>1 DEF Operating, Base, TypeOK
        <3> QED
            BY <3>1 DEF Holder
    <2> QED
        BY <1>1, <1>2, <1>3, <1>4, <2>3, <2>4, SameCardinality DEF Gate!Arrive, Gate!Full, Holder, Past
<1> QED
    BY <1>5, <1>6

LEMMA ResumeServes ==
    ASSUME Base, Base', NEW r \in Requests, Resume(r)
    PROVE  Gate!Serve
<1>1. /\ pc[r] = "waiting" /\ fut[r] = "resolved" /\ activeEntry = r
      /\ pc' = [pc EXCEPT ![r] = "operating"]
      /\ UNCHANGED <<activeEntry, waiters, events>>
    BY DEF Resume, Base, Ownership, eventVars
<1>2. \A q \in Requests : pc[q] # "operating"
    BY <1>1 DEF Base, Ownership
<1>3. Holder = NoRequest
    BY <1>2, HolderOf
<1>4. Holder' = r
    BY <1>1, HolderOfNext DEF Base, TypeOK
<1>5. Line = <<r>> \o waiters /\ Line' = waiters
    BY <1>1, NoRequestAssumption DEF Line, Base, TypeOK
<1>6. Line # << >> /\ Head(Line) = r /\ Tail(Line) = waiters
    BY <1>5, ConsRange DEF Base, TypeOK
<1>7. InFlight' = InFlight /\ Past' = Past /\ Draining' = Draining
    BY <1>1 DEF InFlight, Past, Draining, Base, TypeOK
<1> QED
    BY <1>3, <1>4, <1>5, <1>6, <1>7 DEF Gate!Serve, Holder, Past

LEMMA EndReleases ==
    ASSUME Base, Base', NEW r \in Requests, OperationEnds(r)
    PROVE  Gate!Release
<1>1. PICK ending \in Endings :
          /\ pc[r] = "operating"
          /\ pc' = [pc EXCEPT ![r] = "done"]
          /\ IF waiters # <<>> THEN HandOver(r, ending) ELSE GoIdle(r, ending)
    BY DEF OperationEnds
<1>2. /\ activeEntry = r
      /\ \A q \in Requests : q # r => pc[q] # "operating"
    BY <1>1 DEF Base, Ownership
<1>3. Holder = r /\ r # NoRequest
    BY <1>1, HolderOf, NoRequestAssumption
<1>4. Holder' = NoRequest
    <2>1. \A q \in Requests : pc'[q] # "operating"
        BY <1>1, <1>2 DEF Base, TypeOK
    <2> QED
        BY <2>1, HolderOfNext
<1>5. InFlight' = InFlight \ {r} /\ Past' = Past \cup {r}
    BY <1>1 DEF InFlight, Past, Base, TypeOK
<1>6. Draining' = Draining
    BY <1>1 DEF HandOver, GoIdle, LastOut, Draining
<1>7. Line = waiters
    BY <1>1, <1>2 DEF Line
<1>8. Line' = waiters
    <2>1. CASE waiters # << >>
        <3>1. activeEntry' = Head(waiters) /\ waiters' = Tail(waiters)
            BY <1>1, <2>1 DEF HandOver, NextInLine
        <3>2. Head(waiters) \in Range(waiters)
            BY <2>1, RangeOfHeadTail DEF Base, TypeOK
        <3>3. Head(waiters) \in Requests /\ pc[Head(waiters)] = "waiting"
            BY <3>2 DEF Base, Queued, Range, TypeOK
        <3>4. Head(waiters) # NoRequest /\ pc'[Head(waiters)] = "waiting"
            BY <1>1, <3>3, NoRequestAssumption DEF Base, TypeOK
        <3>5. Line' = <<Head(waiters)>> \o Tail(waiters)
            BY <3>1, <3>4 DEF Line
        <3> QED
            BY <2>1, <3>5, HeadTailCons DEF Base, TypeOK
    <2>2. CASE waiters = << >>
        <3>1. activeEntry' \in {activeEntry, NoRequest} /\ waiters' = waiters
            BY <1>1, <2>2 DEF GoIdle
        <3> QED
            BY <1>1, <1>2, <3>1 DEF Line, Base, TypeOK
    <2> QED
        BY <2>1, <2>2
<1> QED
    BY <1>3, <1>4, <1>5, <1>6, <1>7, <1>8 DEF Gate!Release, Holder, Past

LEMMA LeaveLeaves ==
    ASSUME Base, Base', NEW r \in Requests, LeaveTimedOut(r) \/ LeaveCancelled(r)
    PROVE  Gate!Leave(r)
<1>1. /\ pc[r] = "waiting" /\ pc' = [pc EXCEPT ![r] = "done"]
      /\ waiters' = Keep(waiters, Requests \ {r})
      /\ activeEntry' = activeEntry
    BY DEF LeaveTimedOut, LeaveCancelled, LeaveQueue
<1>2. /\ r \in InFlight
      /\ InFlight' = InFlight \ {r} /\ Past' = Past \cup {r}
    BY <1>1 DEF InFlight, Past, Base, TypeOK
<1>3. Holder # r
    <2>1. CASE \E q \in Requests : pc[q] = "operating"
        BY <1>1, <2>1, HolderOf
    <2>2. CASE \A q \in Requests : pc[q] # "operating"
        BY <2>2, HolderOf, NoRequestAssumption
    <2> QED
        BY <2>1, <2>2
<1>4. Holder' = Holder
    <2>1. Operating' = Operating
        BY <1>1 DEF Operating, Base, TypeOK
    <2> QED
        BY <2>1 DEF Holder
<1>5. Draining' = Draining
    <2>1. PICK why : events' = events \cup LastDrained(why) \cup LastOut
        BY DEF LeaveTimedOut, LeaveCancelled, LeaveQueue
    <2> QED
        BY <2>1 DEF LastDrained, LastOut, Draining
<1>6. Line' = Keep(Line, Requests \ {r})
    <2>1. CASE activeEntry # NoRequest /\ pc[activeEntry] = "waiting"
        <3>1. activeEntry \in Requests /\ waiters \in Seq(Requests)
            BY <2>1 DEF Base, TypeOK
        <3>2. Line = <<activeEntry>> \o waiters
            BY <2>1 DEF Line
        <3>3. Keep(Line, Requests \ {r}) = IF activeEntry \in Requests \ {r}
                                           THEN <<activeEntry>> \o waiters' ELSE waiters'
            <4> DEFINE T == Requests \ {r}
            <4> HIDE DEF T
            <4>1. Keep(<<activeEntry>> \o waiters, T) = IF activeEntry \in T
                       THEN <<activeEntry>> \o Keep(waiters, T) ELSE Keep(waiters, T)
                BY <3>1, KeepCons
            <4> QED
                BY <1>1, <3>2, <4>1 DEF T
        <3>4. Line' = IF activeEntry # r THEN <<activeEntry>> \o waiters' ELSE waiters'
            BY <1>1, <2>1, <3>1 DEF Line, Base, TypeOK
        <3> QED
            BY <3>1, <3>3, <3>4
    <2>2. CASE ~(activeEntry # NoRequest /\ pc[activeEntry] = "waiting")
        BY <1>1, <2>2 DEF Line, Base, TypeOK
    <2> QED
        BY <2>1, <2>2
<1> QED
    BY <1>2, <1>3, <1>4, <1>5, <1>6, StayingIsKeep
       DEF Gate!Leave, Gate!GiveUp, Holder, Past

\* Requests leave the deque; one that has been handed the worker stays in
\* front of the line.
LEMMA FrontStays ==
    ASSUME Base, Entered, NEW rs, rs \subseteq Range(waiters),
           waiters' = Keep(waiters, Requests \ rs),
           UNCHANGED <<pc, activeEntry>>
    PROVE  /\ Line' = Keep(Line, Requests \ rs)
           /\ rs \subseteq Range(Line)
<1>1. CASE activeEntry # NoRequest /\ pc[activeEntry] = "waiting"
    <2>1. activeEntry \in Requests \ rs /\ waiters \in Seq(Requests)
        BY <1>1 DEF Base, TypeOK, Entered
    <2>2. Line = <<activeEntry>> \o waiters /\ Line' = <<activeEntry>> \o waiters'
        BY <1>1 DEF Line
    <2>3. Keep(Line, Requests \ rs) = <<activeEntry>> \o waiters'
        <3> DEFINE T == Requests \ rs
        <3> HIDE DEF T
        <3>1. Keep(<<activeEntry>> \o waiters, T) = IF activeEntry \in T
                   THEN <<activeEntry>> \o Keep(waiters, T) ELSE Keep(waiters, T)
            BY <2>1, KeepCons
        <3> QED
            BY <2>1, <2>2, <3>1 DEF T
    <2>4. rs \subseteq Range(Line)
        BY <2>1, <2>2, ConsRange
    <2> QED
        BY <2>2, <2>3, <2>4
<1>2. CASE ~(activeEntry # NoRequest /\ pc[activeEntry] = "waiting")
    BY <1>2 DEF Line
<1> QED
    BY <1>1, <1>2

LEMMA CancelWithdraws ==
    ASSUME Base, Entered, NEW c \in Connections, Disconnect(c) \/ CancelNewRequest(c)
    PROVE  Gate!Withdraw
<1> DEFINE rs == WaitersOf(c)
           T == {r \in Requests : ConnOf[r] # c}
<1>1. /\ waiters' = Keep(waiters, T)
      /\ UNCHANGED <<pc, activeEntry, events>>
    BY DEF Disconnect, CancelNewRequest, eventVars
<1>2. rs \subseteq Range(waiters) /\ \A r \in Range(waiters) : r \in T <=> r \in Requests \ rs
    BY DEF WaitersOf, Range, Base, TypeOK
<1> HIDE DEF rs, T
<1>3. waiters' = Keep(waiters, Requests \ rs)
    BY <1>1, <1>2, KeepSame DEF Base, TypeOK
<1>4. Line' = Keep(Line, Requests \ rs) /\ rs \subseteq Range(Line)
    BY <1>1, <1>2, <1>3, FrontStays
<1>5. InFlight' = InFlight /\ Past' = Past /\ Holder' = Holder /\ Draining' = Draining
    BY <1>1 DEF InFlight, Past, Holder, Operating, Draining
<1> QED
    BY <1>4, <1>5, StayingIsKeep, SameRange DEF Gate!Withdraw, Gate!GiveUp, Holder, Past

LEMMA ShutdownShuts ==
    ASSUME Base, Entered, Shutdown, ~Draining
    PROVE  Gate!Shut
<1> DEFINE rs == Range(waiters)
<1>1. /\ waiters' = << >> /\ Draining'
      /\ UNCHANGED <<pc, activeEntry>>
    BY DEF Shutdown, Draining
<1>2. waiters' = Keep(waiters, Requests \ rs)
    <2>1. Range(Keep(waiters, Requests \ rs)) = {}
        BY KeepQueued DEF Base
    <2>2. Keep(waiters, Requests \ rs) \in Seq(Requests)
        BY KeepType DEF Base
    <2> QED
        BY <1>1, <2>1, <2>2, EmptyRange
<1>3. Line' = Keep(Line, Requests \ rs)
    BY <1>1, <1>2, FrontStays
<1>4. InFlight' = InFlight /\ Past' = Past /\ Holder' = Holder
    BY <1>1 DEF InFlight, Past, Holder, Operating
<1>5. \/ rs = Range(Line)
      \/ /\ Holder = NoRequest /\ Line # << >>
         /\ rs = Range(Line) \ {Head(Line)}
    <2>1. CASE activeEntry # NoRequest /\ pc[activeEntry] = "waiting"
        <3>1. activeEntry \in Requests \ rs /\ waiters \in Seq(Requests)
            BY <2>1 DEF Base, TypeOK, Entered
        <3>2. Line = <<activeEntry>> \o waiters
            BY <2>1 DEF Line
        <3>3. Line # << >> /\ Head(Line) = activeEntry /\ Range(Line) = {activeEntry} \cup rs
            BY <3>1, <3>2, ConsRange
        <3>4. \A q \in Requests : pc[q] # "operating"
            BY <2>1 DEF Base, Ownership
        <3> QED
            BY <3>1, <3>3, <3>4, HolderOf
    <2>2. CASE ~(activeEntry # NoRequest /\ pc[activeEntry] = "waiting")
        BY <2>2 DEF Line
    <2> QED
        BY <2>1, <2>2
<1> HIDE DEF rs
<1> QED
    BY <1>1, <1>3, <1>4, <1>5, StayingIsKeep, SameRange
       DEF Gate!Shut, Gate!GiveUp, Holder, Past

LEMMA GateStep ==
    ASSUME Base, Base', Entered, Stopping, [Next]_vars
    PROVE  [Gate!GateNext]_(Gate!gateVars)
<1> USE DEF Gate!GateNext
<1>1. ASSUME NEW r \in Requests, Reject(r) PROVE Gate!GateNext
    BY <1>1, RejectTurnsAway
<1>2. ASSUME NEW r \in Requests, AdmitActive(r) \/ AdmitWaiting(r) PROVE Gate!GateNext
    BY <1>2, AdmissionArrives
<1>3. ASSUME NEW r \in Requests, Resume(r) PROVE Gate!GateNext
    BY <1>3, ResumeServes
<1>4. ASSUME NEW r \in Requests, LeaveTimedOut(r) \/ LeaveCancelled(r) PROVE Gate!GateNext
    BY <1>4, LeaveLeaves
<1>5. ASSUME NEW r \in Requests, OperationEnds(r) PROVE Gate!GateNext
    BY <1>5, EndReleases
<1>6. ASSUME NEW c \in Connections, Disconnect(c) \/ CancelNewRequest(c) PROVE Gate!GateNext
    BY <1>6, CancelWithdraws
<1>7. CASE Shutdown
    <2>1. ~Draining
        BY <1>7 DEF Shutdown, Stopping
    <2> QED
        BY <1>7, <2>1, ShutdownShuts
<1>8. ASSUME UNCHANGED <<pc, activeEntry, waiters, events>>
      PROVE  UNCHANGED Gate!gateVars
    <2>1. /\ InFlight' = InFlight /\ Past' = Past /\ Holder' = Holder /\ Draining' = Draining
          /\ Line' = Line
        BY <1>8 DEF InFlight, Past, Holder, Operating, Draining, Line
    <2> QED
        BY <2>1 DEF Gate!gateVars, Holder, Past
<1>9. ASSUME NEW r \in Requests, WaitTimeout(r) PROVE UNCHANGED Gate!gateVars
    BY <1>8, <1>9 DEF WaitTimeout, gateVars, eventVars
<1>10. CASE ShutdownStep
    BY <1>8, <1>10 DEF ShutdownStep, DrainFinishes, ActiveFinishesInGrace, GraceExpires,
       CancelledTaskEnds, QuiescenceReached, requestVars, gateVars, eventVars
<1>11. CASE UNCHANGED vars
    BY <1>8, <1>11 DEF vars, requestVars, gateVars, eventVars
<1> HIDE DEF Gate!GateNext
<1> QED
    BY <1>1, <1>2, <1>3, <1>4, <1>5, <1>6, <1>7, <1>9, <1>10, <1>11 DEF Next

LEMMA GateStart == Init => Gate!GateInit /\ Entered /\ Stopping
<1> SUFFICES ASSUME Init PROVE Gate!GateInit /\ Entered /\ Stopping
    OBVIOUS
<1>1. /\ InFlight = {} /\ Past = {} /\ Operating = {}
      /\ Line = << >> /\ ~Draining
    BY DEF Init, InFlight, Past, Operating, Line, Draining, Events
<1>2. Entered /\ Stopping
    BY <1>1 DEF Init, Entered, Stopping
<1> QED
    BY <1>1, <1>2 DEF Gate!GateInit, Past

\* The scheduler implements the gate: FIFO order, one request at a time,
\* bounded capacity, no service after a request has given up its place, for
\* any number of requests, connections and units of capacity.
THEOREM ImplementsGateHolds == Spec => ImplementsGate
<1>1. Stopping /\ Base /\ [Next]_vars => Stopping'
    BY StoppingStep
<1>2. Entered /\ Base /\ [Next]_vars => Entered'
    BY EnteredStep
<1>3. Base /\ Base' /\ Entered /\ Stopping /\ [Next]_vars
          => [Gate!GateNext]_(Gate!gateVars)
    BY GateStep
<1> QED
    BY <1>1, <1>2, <1>3, GateStart, BaseInit, BaseStep, PTL
       DEF Spec, ImplementsGate, Gate!GateSpec
=============================================================================
