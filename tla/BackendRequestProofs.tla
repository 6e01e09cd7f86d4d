------------------------- MODULE BackendRequestProofs -------------------------
(***************************************************************************)
(* Theorems about BackendRequest, for any number of requests and attempts. *)
(***************************************************************************)
EXTENDS BackendRequest, TLAPS, SequenceTheorems

Working == {"connect", "sleep", "read", "close", "thread", "write"}

\* Whoever works is at the head of the line, and in it is who has been asked
\* for and is not over.
Lined ==
    /\ \A i, k \in 1..Len(line) : line[i] = line[k] => i = k
    /\ \A r \in Requests :
          /\ job[r].pc \in {"new", "answer", "done"} => \A k \in 1..Len(line) : line[k] # r
          /\ job[r].pc \notin {"new", "answer", "done"} => \E k \in 1..Len(line) : line[k] = r
          /\ job[r].pc \in Working => line # <<>> /\ line[1] = r

-----------------------------------------------------------------------------
(* Leaving the line.                                                       *)

LEMMA WithoutKeeps ==
    ASSUME line \in Seq(Requests), NEW r \in Requests,
           \A i, k \in 1..Len(line) : line[i] = line[k] => i = k
    PROVE  /\ Without(r) \in Seq(Requests)
           /\ \A i, k \in 1..Len(Without(r)) : Without(r)[i] = Without(r)[k] => i = k
           /\ \A k \in 1..Len(Without(r)) :
                 Without(r)[k] # r /\ \E i \in 1..Len(line) : line[i] = Without(r)[k]
           /\ \A s \in Requests \ {r} :
                 /\ (\E k \in 1..Len(line) : line[k] = s) =>
                        \E k \in 1..Len(Without(r)) : Without(r)[k] = s
                 /\ line # <<>> /\ line[1] = s => Without(r) # <<>> /\ Without(r)[1] = s
<1>1. CASE \A k \in 1..Len(line) : line[k] # r
  <2>1. Without(r) = line
    BY <1>1 DEF Without
  <2> QED  BY <1>1, <2>1
<1>2. CASE \E k \in 1..Len(line) : line[k] = r
  <2> DEFINE place == CHOOSE k \in DOMAIN line : line[k] = r
             rest == [k \in 1..(Len(line) - 1) |-> line[IF k < place THEN k ELSE k + 1]]
  <2>1. place \in 1..Len(line) /\ line[place] = r
    BY <1>2
  <2>2. Without(r) = rest
    BY <1>2 DEF Without
  <2> HIDE DEF place
  <2>3. /\ Len(line) - 1 \in Nat
        /\ \A k \in 1..(Len(line) - 1) :
              /\ (IF k < place THEN k ELSE k + 1) \in 1..Len(line)
              /\ rest[k] = line[IF k < place THEN k ELSE k + 1]
    BY <2>1
  <2>4. rest \in Seq(Requests) /\ Len(rest) = Len(line) - 1
    BY <2>3
  <2>5. \A i, k \in 1..Len(rest) : rest[i] = rest[k] => i = k
    BY <2>1, <2>3, <2>4
  <2>6. \A k \in 1..Len(rest) : rest[k] # r /\ \E i \in 1..Len(line) : line[i] = rest[k]
    BY <2>1, <2>3, <2>4
  <2>7. ASSUME NEW s \in Requests \ {r}, line # <<>>, line[1] = s
        PROVE  rest # <<>> /\ rest[1] = s
    <3>1. place > 1 /\ Len(line) > 1
      BY <2>1, <2>7
    <3>2. 1 \in 1..(Len(line) - 1)
      BY <3>1, <2>1
    <3>3. rest[1] = line[1]
      BY <3>1, <3>2, <2>3
    <3>4. Len(rest) # 0
      BY <2>4, <3>1
    <3> HIDE DEF rest
    <3> QED  BY <2>4, <2>7, <3>3, <3>4
  <2>8. ASSUME NEW s \in Requests \ {r}, NEW k \in 1..Len(line), line[k] = s
        PROVE  \E i \in 1..Len(rest) : rest[i] = s
    <3>1. k # place
      BY <2>1, <2>8
    <3>2. CASE k < place
      <4>1. k \in 1..(Len(line) - 1) /\ rest[k] = line[k]
        BY <2>1, <2>3, <3>2
      <4> QED  BY <2>4, <2>8, <4>1
    <3>3. CASE k > place
      <4>1. k - 1 \in 1..(Len(line) - 1) /\ ~(k - 1 < place) /\ (k - 1) + 1 = k
        BY <2>1, <3>3
      <4>2. rest[k - 1] = line[k]
        BY <2>3, <4>1
      <4> QED  BY <2>4, <2>8, <4>1, <4>2
    <3>4. k \in Nat /\ place \in Nat
      BY <2>1
    <3>5. k < place \/ k > place
      BY <3>1, <3>4
    <3> QED  BY <3>2, <3>3, <3>5
  <2> HIDE DEF rest
  <2> QED  BY <2>2, <2>4, <2>5, <2>6, <2>7, <2>8
<1> QED  BY <1>1, <1>2

\* A request that is over leaves the line to the others.
LEMMA LinedWithout ==
    ASSUME TypeOK, Lined, NEW r \in Requests, NEW j \in Jobs, j.pc \in {"answer", "done"},
           line' = Without(r), job' = Put(job, r, j)
    PROVE  Lined' /\ line' \in Seq(Requests) /\ job' \in [Requests -> Jobs] /\ job'[r] = j
<1>1. line \in Seq(Requests)
  BY DEF TypeOK
<1>2. /\ line' \in Seq(Requests)
      /\ \A i, k \in 1..Len(line') : line'[i] = line'[k] => i = k
      /\ \A k \in 1..Len(line') : line'[k] # r /\ \E i \in 1..Len(line) : line[i] = line'[k]
      /\ \A s \in Requests \ {r} :
            /\ (\E k \in 1..Len(line) : line[k] = s) => \E k \in 1..Len(line') : line'[k] = s
            /\ line # <<>> /\ line[1] = s => line' # <<>> /\ line'[1] = s
  <2>1. \A i, k \in 1..Len(line) : line[i] = line[k] => i = k
    BY DEF Lined
  <2>2. /\ Without(r) \in Seq(Requests)
        /\ \A i, k \in 1..Len(Without(r)) : Without(r)[i] = Without(r)[k] => i = k
        /\ \A k \in 1..Len(Without(r)) :
              Without(r)[k] # r /\ \E i \in 1..Len(line) : line[i] = Without(r)[k]
        /\ \A s \in Requests \ {r} :
              /\ (\E k \in 1..Len(line) : line[k] = s) =>
                     \E k \in 1..Len(Without(r)) : Without(r)[k] = s
              /\ line # <<>> /\ line[1] = s => Without(r) # <<>> /\ Without(r)[1] = s
    BY <1>1, <2>1, WithoutKeeps
  <2> QED  BY <2>2
<1>3. /\ job' \in [Requests -> Jobs] /\ job'[r] = j
      /\ \A s \in Requests \ {r} : job'[s] = job[s]
  BY DEF TypeOK, Put
<1>4. \A s \in Requests :
          /\ job'[s].pc \in {"new", "answer", "done"} => \A k \in 1..Len(line') : line'[k] # s
          /\ job'[s].pc \notin {"new", "answer", "done"} => \E k \in 1..Len(line') : line'[k] = s
          /\ job'[s].pc \in Working => line' # <<>> /\ line'[1] = s
  <2> TAKE s \in Requests
  <2>1. CASE s = r
    BY <1>2, <1>3, <2>1 DEF Working
  <2>2. CASE s # r
    BY <1>2, <1>3, <2>2 DEF Lined
  <2> QED  BY <2>1, <2>2
<1> QED  BY <1>2, <1>3, <1>4 DEF Lined

\* A request that goes on working keeps its place.
LEMMA LinedStays ==
    ASSUME TypeOK, Lined, NEW r \in Requests, NEW j \in Jobs, line' = line, job' = Put(job, r, j),
           j.pc \in Working => line # <<>> /\ line[1] = r,
           j.pc \in {"new", "answer", "done"} <=> job[r].pc \in {"new", "answer", "done"}
    PROVE  Lined' /\ line' \in Seq(Requests) /\ job' \in [Requests -> Jobs] /\ job'[r] = j
<1>1. /\ job' \in [Requests -> Jobs] /\ job'[r] = j
      /\ \A s \in Requests \ {r} : job'[s] = job[s]
  BY DEF TypeOK, Put
<1>2. \A s \in Requests :
          /\ job'[s].pc \in {"new", "answer", "done"} => \A k \in 1..Len(line') : line'[k] # s
          /\ job'[s].pc \notin {"new", "answer", "done"} => \E k \in 1..Len(line') : line'[k] = s
          /\ job'[s].pc \in Working => line' # <<>> /\ line'[1] = s
  BY <1>1 DEF Lined
<1> QED  BY <1>1, <1>2 DEF Lined, TypeOK

-----------------------------------------------------------------------------
(* Types.                                                                  *)

Typed == TypeOK /\ Lined

\* What the operations the actions are made of leave to them.
Rest == mode' = mode /\ client' \in [Requests -> {"connected", "gone"}]

Streams == {"none", "open", "drained", "closed"}
Threads == {"none", "reading", "chunk", "eof", "error", "posting", "posted", "failed"}
Records == {"none", "open", "success", "error", "cancelled"}
Events  == {"start", "chunk", "stop", "error"}

LEMMA FreshIsJob ==
    ASSUME NEW p \in Pcs, NEW l \in BOOLEAN
    PROVE  /\ [Fresh EXCEPT !.pc = p] \in Jobs /\ [Fresh EXCEPT !.pc = p].pc = p
           /\ [Fresh EXCEPT !.pc = p, !.left = l] \in Jobs
           /\ [Fresh EXCEPT !.pc = p, !.left = l].pc = p
<1>1. Fresh \in Jobs
  BY AttemptsArePositive DEF Fresh, Jobs, Pcs
<1>2. [Fresh EXCEPT !.pc = p] \in Jobs /\ [Fresh EXCEPT !.pc = p].pc = p
  BY <1>1 DEF Jobs
<1>3. /\ [Fresh EXCEPT !.pc = p, !.left = l] \in Jobs
      /\ [Fresh EXCEPT !.pc = p, !.left = l].pc = p
  BY <1>1 DEF Jobs
<1> QED  BY <1>2, <1>3

LEMMA EndsTyped ==
    ASSUME Typed, NEW r \in Requests, NEW why, Ends(r, why)
    PROVE  Lined' /\ line' \in Seq(Requests) /\ job' \in [Requests -> Jobs]
<1> DEFINE j == [Fresh EXCEPT !.pc = IF why \in Answered THEN "answer" ELSE "done"]
<1>1. j \in Jobs /\ j.pc \in {"answer", "done"}
  BY FreshIsJob DEF Pcs
<1>2. line' = Without(r) /\ job' = Put(job, r, j)
  BY DEF Ends
<1> HIDE DEF j
<1> QED  BY <1>1, <1>2, LinedWithout DEF Typed

LEMMA FinishesTyped ==
    ASSUME Typed, NEW r \in Requests, NEW why, Finishes(r, why), Rest
    PROVE  Typed'
<1>1. Ends(r, why)
  BY DEF Finishes
<1>2. /\ stream' \in [Requests -> Streams] /\ thread' \in [Requests -> Threads]
      /\ metrics' \in [Requests -> Records]
  BY DEF Finishes, Put, Status, Typed, TypeOK, Streams, Threads, Records
<1> QED  BY <1>1, <1>2, EndsTyped DEF Finishes, Typed, TypeOK, Rest, Streams, Threads, Records

LEMMA EmitTyped ==
    ASSUME NEW w \in Seq(Events), NEW e \in Events
    PROVE  Emit(w, e) \in Seq(Events)
BY DEF Emit

LEMMA YieldsTyped ==
    ASSUME Typed, NEW r \in Requests, NEW j \in Jobs, job[r].pc \in Working,
           j.todo # <<>>, Yields(r, j), Rest
    PROVE  Typed'
<1> DEFINE i == [j EXCEPT !.pc = "write", !.todo = Tail(j.todo)]
<1>1. j.todo \in Seq({"start", "chunk", "stop"})
  BY DEF Jobs
<1>2. Tail(j.todo) \in Seq({"start", "chunk", "stop"}) /\ Head(j.todo) \in {"start", "chunk", "stop"}
  BY <1>1
<1>3. i \in Jobs /\ i.pc = "write"
  BY <1>2 DEF Jobs, Pcs
<1>4. job' = Put(job, r, i) /\ line' = line
  BY DEF Yields
<1> HIDE DEF i
<1>5. Lined' /\ job' \in [Requests -> Jobs]
  BY <1>3, <1>4, LinedStays DEF Typed, Lined, Working
<1>6. wire[r] \in Seq(Events)
  BY DEF Typed, TypeOK, Events
<1>7. Emit(wire[r], Head(j.todo)) \in Seq(Events)
  BY <1>2, <1>6, EmitTyped DEF Events
<1>8. wire' \in [Requests -> Seq(Events)]
  BY <1>7 DEF Yields, Put, Typed, TypeOK, Events
<1>9. thread' \in [Requests -> Threads]
  BY DEF Yields, Put, Typed, TypeOK, Threads
<1> QED  BY <1>4, <1>5, <1>8, <1>9 DEF Yields, Rest, Typed, TypeOK, Events, Threads

LEMMA ReadsTyped ==
    ASSUME Typed, NEW r \in Requests, NEW j \in Jobs, job[r].pc \in Working, Reads(r, j), Rest
    PROVE  Typed'
<1>1. CASE j.late
  BY <1>1, FinishesTyped DEF Reads
<1>2. CASE ~j.late
  <2> DEFINE i == [j EXCEPT !.pc = "read"]
  <2>1. i \in Jobs /\ i.pc = "read"
    BY DEF Jobs, Pcs
  <2>2. job' = Put(job, r, i) /\ line' = line
    BY <1>2 DEF Reads
  <2> HIDE DEF i
  <2>3. Lined' /\ job' \in [Requests -> Jobs]
    BY <2>1, <2>2, LinedStays DEF Typed, Lined, Working
  <2>4. thread' \in [Requests -> Threads]
    BY <1>2 DEF Reads, Put, Typed, TypeOK, Threads
  <2> QED  BY <1>2, <2>2, <2>3, <2>4 DEF Reads, Rest, Typed, TypeOK, Threads
<1> QED  BY <1>1, <1>2

LEMMA ProceedsTyped ==
    ASSUME Typed, NEW r \in Requests, NEW j \in Jobs, job[r].pc \in Working, Proceeds(r, j), Rest
    PROVE  Typed'
BY YieldsTyped, ReadsTyped, FinishesTyped DEF Proceeds

LEMMA LeavesTyped ==
    ASSUME Typed, NEW r \in Requests, NEW why \in {"timeout", "cancelled"},
           job[r].pc \in Working, Leaves(r, why), Rest
    PROVE  Typed'
<1>1. CASE thread[r] # "reading"
  BY <1>1, FinishesTyped DEF Leaves
<1>2. CASE thread[r] = "reading"
  <2> DEFINE i == [job[r] EXCEPT !.pc = "close", !.why = why]
  <2>1. i \in Jobs /\ i.pc = "close"
    <3>1. job[r] \in Jobs
      BY DEF Typed, TypeOK
    <3> QED  BY <3>1 DEF Jobs, Pcs
  <2>2. job' = Put(job, r, i) /\ line' = line
    BY <1>2 DEF Leaves
  <2> HIDE DEF i
  <2>3. Lined' /\ job' \in [Requests -> Jobs]
    BY <2>1, <2>2, LinedStays DEF Typed, Lined, Working
  <2> QED  BY <1>2, <2>2, <2>3 DEF Leaves, Rest, Typed, TypeOK
<1> QED  BY <1>1, <1>2

LEMMA AbandonsTyped ==
    ASSUME Typed, NEW r \in Requests, Abandons(r), Rest
    PROVE  Typed'
<1> DEFINE j == [Fresh EXCEPT !.pc = "done", !.left = mode # "buffered"]
<1>1. j \in Jobs /\ j.pc = "done"
  BY FreshIsJob DEF Pcs
<1>2. line' = Without(r) /\ job' = Put(job, r, j)
  BY DEF Abandons
<1> HIDE DEF j
<1> QED  BY <1>1, <1>2, LinedWithout DEF Abandons, Rest, Typed, TypeOK

\* A request that only changes its own locals and keeps its place.
LEMMA MovesTyped ==
    ASSUME Typed, NEW r \in Requests, NEW j \in Jobs, job' = Put(job, r, j), line' = line,
           j.pc \in Working => line # <<>> /\ line[1] = r,
           j.pc \in {"new", "answer", "done"} <=> job[r].pc \in {"new", "answer", "done"},
           stream' \in [Requests -> Streams], thread' \in [Requests -> Threads],
           metrics' \in [Requests -> Records], wire' \in [Requests -> Seq(Events)], Rest
    PROVE  Typed'
BY LinedStays DEF Typed, TypeOK, Rest, Streams, Threads, Records, Events

-----------------------------------------------------------------------------
(* The locals of a generator that goes on.                                 *)

Todos == Seq({"start", "chunk", "stop"})

LEMMA SomeIsTodo ==
    ASSUME NEW k \in 0..1
    PROVE  /\ Some(k) \in Todos /\ Append(Some(k), "stop") \in Todos
           /\ <<"start">> \o Some(k) \in Todos
           /\ Append(<<"start">> \o Some(k), "stop") \in Todos
<1>1. Some(k) \in Todos
  <2>1. <<>> \in Todos /\ <<"chunk">> \in Todos
    BY DEF Todos
  <2> QED  BY <2>1 DEF Some
<1>2. <<"start">> \in Todos
  BY DEF Todos
<1>3. <<"start">> \o Some(k) \in Todos
  BY <1>1, <1>2 DEF Todos
<1> QED  BY <1>1, <1>3 DEF Todos

\* What the generator goes on with after a transport chunk.
Fed(j, k, enough) ==
    [j EXCEPT !.seen = TRUE, !.flowing = j.flowing \/ enough,
              !.todo = IF j.flowing THEN Some(k)
                       ELSE IF enough THEN <<"start">> \o Some(k) ELSE <<>>]

\* And at the end of the stream.
Begun(j) == j.flowing \/ j.seen
LastAudio(j, k) == (IF j.flowing THEN <<>> ELSE <<"start">>) \o Some(k)
LastTodo(j, k, whole) ==
    IF ~Begun(j) THEN <<>> ELSE IF whole THEN Append(LastAudio(j, k), "stop") ELSE LastAudio(j, k)
Ended(j, k, whole) ==
    [j EXCEPT !.todo = LastTodo(j, k, whole), !.then = IF whole \/ ~Begun(j) THEN "end" ELSE "bad"]

Posted(j, k) == [j EXCEPT !.todo = <<"start">> \o Some(k) \o <<"stop">>, !.then = "end"]

LEMMA ChunkIsFed ==
    ASSUME NEW r \in Requests, ChunkArrives(r)
    PROVE  \E k \in 0..1, enough \in BOOLEAN : Proceeds(r, Fed(job[r], k, enough))
BY DEF ChunkArrives, Fed

LEMMA StreamIsEnded ==
    ASSUME NEW r \in Requests, StreamEnds(r)
    PROVE  \E k \in 0..1, whole \in BOOLEAN : Proceeds(r, Ended(job[r], k, whole))
BY DEF StreamEnds, Ended, LastTodo, LastAudio, Begun

LEMMA LastTodoTyped ==
    ASSUME NEW j \in Jobs, NEW k \in 0..1, NEW whole \in BOOLEAN
    PROVE  LastTodo(j, k, whole) \in Todos
<1>1. <<>> \in Todos
  BY DEF Todos
<1>2. LastAudio(j, k) \in Todos
  <2>1. CASE j.flowing
    <3>1. LastAudio(j, k) = Some(k)
      BY <2>1, SomeIsTodo DEF LastAudio, Todos
    <3> QED  BY <3>1, SomeIsTodo
  <2>2. CASE ~j.flowing
    BY <2>2, SomeIsTodo DEF LastAudio
  <2> QED  BY <2>1, <2>2
<1>3. Append(LastAudio(j, k), "stop") \in Todos
  BY <1>2 DEF Todos
<1> QED  BY <1>1, <1>2, <1>3 DEF LastTodo

LEMMA GoesOnTyped ==
    ASSUME NEW j \in Jobs, NEW k \in 0..1, NEW b \in BOOLEAN
    PROVE  Fed(j, k, b) \in Jobs /\ Ended(j, k, b) \in Jobs /\ Posted(j, k) \in Jobs
<1>1. Fed(j, k, b) \in Jobs
  <2> DEFINE f == j.flowing \/ b
             todo == IF j.flowing THEN Some(k) ELSE IF b THEN <<"start">> \o Some(k) ELSE <<>>
  <2>1. f \in BOOLEAN
    OBVIOUS
  <2>2. <<>> \in Todos
    BY DEF Todos
  <2>3. todo \in Todos
    BY <2>2, SomeIsTodo
  <2>4. Fed(j, k, b) = [j EXCEPT !.seen = TRUE, !.flowing = f, !.todo = todo]
    BY DEF Fed
  <2> HIDE DEF f, todo
  <2> QED  BY <2>1, <2>3, <2>4 DEF Jobs, Todos
<1>2. Ended(j, k, b) \in Jobs
  <2> DEFINE then == IF b \/ ~Begun(j) THEN "end" ELSE "bad"
  <2>1. then \in {"read", "end", "bad"}
    OBVIOUS
  <2>2. Ended(j, k, b) = [j EXCEPT !.todo = LastTodo(j, k, b), !.then = then]
    BY DEF Ended
  <2>3. LastTodo(j, k, b) \in Todos
    BY LastTodoTyped
  <2> HIDE DEF then
  <2> QED  BY <2>1, <2>2, <2>3 DEF Jobs, Todos
<1>3. Posted(j, k) \in Jobs
  <2>1. <<"stop">> \in Todos
    BY DEF Todos
  <2>2. <<"start">> \o Some(k) \o <<"stop">> \in Todos
    BY <2>1, SomeIsTodo DEF Todos
  <2> QED  BY <2>2 DEF Posted, Jobs, Todos
<1> QED  BY <1>1, <1>2, <1>3

-----------------------------------------------------------------------------
(* Every step keeps types and line.                                        *)

LEMMA AskTyped ==
    ASSUME Typed, NEW r \in Requests, Ask(r)
    PROVE  Typed'
<1> DEFINE j == [job[r] EXCEPT !.pc = "queued"]
<1>0. job[r] \in Jobs /\ line \in Seq(Requests)
  BY DEF Typed, TypeOK
<1>1. j \in Jobs /\ j.pc = "queued"
  BY <1>0 DEF Jobs, Pcs
<1>2. job' = Put(job, r, j) /\ line' = Append(line, r) /\ job[r].pc = "new"
  BY DEF Ask
<1> HIDE DEF j
<1>3. /\ job' \in [Requests -> Jobs] /\ job'[r] = j
      /\ \A s \in Requests \ {r} : job'[s] = job[s]
  BY <1>1, <1>2 DEF Put, Typed, TypeOK
<1>4. /\ line' \in Seq(Requests) /\ Len(line') = Len(line) + 1 /\ line'[Len(line) + 1] = r
      /\ \A k \in 1..Len(line) : line'[k] = line[k]
  BY <1>0, <1>2
<1>5. \A k \in 1..Len(line) : line[k] # r
  BY <1>2 DEF Typed, Lined
<1>6. \A i, k \in 1..Len(line') : line'[i] = line'[k] => i = k
  BY <1>0, <1>4, <1>5 DEF Typed, Lined
<1>7. ASSUME NEW s \in Requests
      PROVE  /\ job'[s].pc \in {"new", "answer", "done"} => \A k \in 1..Len(line') : line'[k] # s
             /\ job'[s].pc \notin {"new", "answer", "done"} => \E k \in 1..Len(line') : line'[k] = s
             /\ job'[s].pc \in Working => line' # <<>> /\ line'[1] = s
  <2>1. CASE s = r
    <3>1. Len(line) + 1 \in 1..Len(line')
      BY <1>0, <1>4
    <3> QED  BY <1>1, <1>3, <1>4, <2>1, <3>1 DEF Working
  <2>2. CASE s # r
    <3>1. job'[s] = job[s]
      BY <1>3, <2>2
    <3>2. job[s].pc \in Working => line' # <<>> /\ line'[1] = s
      <4> SUFFICES ASSUME job[s].pc \in Working PROVE line' # <<>> /\ line'[1] = s
        OBVIOUS
      <4>1. line # <<>> /\ line[1] = s
        BY DEF Typed, Lined
      <4>2. 1 \in 1..Len(line)
        BY <4>1, <1>0
      <4>3. Len(line') # 0
        BY <1>0, <1>4
      <4> QED  BY <4>1, <4>2, <4>3, <1>4
    <3>3. job[s].pc \in {"new", "answer", "done"} => \A k \in 1..Len(line') : line'[k] # s
      BY <1>0, <1>4, <2>2 DEF Typed, Lined
    <3>4. job[s].pc \notin {"new", "answer", "done"} => \E k \in 1..Len(line') : line'[k] = s
      BY <1>0, <1>4 DEF Typed, Lined
    <3> QED  BY <3>1, <3>2, <3>3, <3>4
  <2> QED  BY <2>1, <2>2
<1>8. Lined'
  BY <1>6, <1>7 DEF Lined
<1> QED  BY <1>3, <1>4, <1>8 DEF Ask, Typed, TypeOK

LEMMA StartsTyped ==
    ASSUME Typed, NEW r \in Requests, Starts(r)
    PROVE  Typed'
<1> DEFINE j == [job[r] EXCEPT !.pc = IF mode = "buffered" THEN "thread" ELSE "connect"]
<1>0. job[r] \in Jobs
  BY DEF Typed, TypeOK
<1>1. j \in Jobs /\ j.pc \in {"thread", "connect"}
  BY <1>0 DEF Jobs, Pcs
<1>2. job' = Put(job, r, j) /\ line' = line
  BY DEF Starts
<1> HIDE DEF j
<1>3. line # <<>> /\ line[1] = r /\ job[r].pc = "queued"
  <2>1. job[r].pc = "queued" /\ line[1] = r /\ line \in Seq(Requests)
    BY DEF Starts, At, Typed, TypeOK
  <2>2. \E k \in 1..Len(line) : line[k] = r
    BY <2>1 DEF Typed, Lined
  <2> QED  BY <2>1, <2>2
<1>4. thread' \in [Requests -> Threads] /\ metrics' \in [Requests -> Records]
  BY DEF Starts, Put, Typed, TypeOK, Threads, Records
<1> QED  BY <1>1, <1>2, <1>3, <1>4, MovesTyped
         DEF Starts, Rest, Typed, TypeOK, Streams, Events, Working

LEMMA OpensTyped ==
    ASSUME Typed, NEW r \in Requests, StreamOpens(r)
    PROVE  Typed'
<1>0. job[r] \in Jobs /\ job[r].pc = "connect" /\ Rest
  BY DEF StreamOpens, Rest, Typed, TypeOK
<1>1. CASE Finishes(r, "timeout")
  BY <1>0, <1>1, FinishesTyped
<1>2. CASE ~Finishes(r, "timeout")
  <2> DEFINE j == IF mode = "immediate" THEN [job[r] EXCEPT !.pc = "write", !.flowing = TRUE]
                                        ELSE [job[r] EXCEPT !.pc = "read"]
  <2>1. j \in Jobs /\ j.pc \in {"write", "read"}
    <3>1. [job[r] EXCEPT !.pc = "write", !.flowing = TRUE] \in Jobs
      BY <1>0 DEF Jobs, Pcs
    <3>2. [job[r] EXCEPT !.pc = "read"] \in Jobs
      BY <1>0 DEF Jobs, Pcs
    <3> QED  BY <1>0, <3>1, <3>2 DEF Jobs
  <2>2. job' = Put(job, r, j) /\ line' = line
    BY <1>2 DEF StreamOpens
  <2> HIDE DEF j
  <2>3. wire' \in [Requests -> Seq(Events)]
    <3>1. wire \in [Requests -> Seq(Events)] /\ "start" \in Events
      BY DEF Typed, TypeOK, Events
    <3>2. Emit(wire[r], "start") \in Seq(Events)
      BY <3>1, EmitTyped
    <3> QED  BY <1>2, <3>1, <3>2 DEF StreamOpens, Put
  <2>4. /\ stream' \in [Requests -> Streams] /\ thread' \in [Requests -> Threads]
        /\ metrics' \in [Requests -> Records]
    BY <1>2 DEF StreamOpens, Put, Typed, TypeOK, Streams, Threads, Records
  <2>5. line # <<>> /\ line[1] = r
    BY <1>0 DEF Typed, Lined, Working
  <2> QED  BY <1>0, <2>1, <2>2, <2>3, <2>4, <2>5, MovesTyped DEF Working
<1> QED  BY <1>1, <1>2

\* A step that touches the locals of r only.
LEMMA LocalsMove ==
    ASSUME Typed, NEW r \in Requests, NEW j \in Jobs, job' = Put(job, r, j),
           j.pc \in Working => job[r].pc \in Working,
           j.pc \in {"new", "answer", "done"} <=> job[r].pc \in {"new", "answer", "done"},
           UNCHANGED <<line, mode, stream, thread, metrics, wire, client>>
    PROVE  Typed'
<1>1. j.pc \in Working => line # <<>> /\ line[1] = r
  BY DEF Typed, Lined
<1> QED  BY <1>1, MovesTyped DEF Rest, Typed, TypeOK, Streams, Threads, Records, Events

LEMMA RetryTyped ==
    ASSUME Typed, NEW r \in Requests,
           BackendBusy(r) \/ ConnectFails(r) \/ SleepEnds(r) \/ DeadlinePasses(r) \/ CancelRequested(r)
    PROVE  Typed'
<1>0. job[r] \in Jobs
  BY DEF Typed, TypeOK
<1>1. CASE BackendBusy(r)
  <2> DEFINE j == [job[r] EXCEPT !.pc = "sleep", !.attempt = @ + 1]
  <2>1. job[r].attempt + 1 \in 1..MaxAttempts
    BY <1>0, <1>1, AttemptsArePositive DEF BackendBusy, Jobs
  <2>2. j \in Jobs /\ j.pc = "sleep"
    BY <1>0, <2>1 DEF Jobs, Pcs
  <2>3. job' = Put(job, r, j)
    BY <1>1 DEF BackendBusy
  <2> HIDE DEF j
  <2> QED  BY <1>1, <2>2, <2>3, LocalsMove DEF BackendBusy, Working
<1>2. CASE ConnectFails(r)
  <2>1. Rest
    BY <1>2 DEF ConnectFails, Rest, Typed, TypeOK
  <2> QED  BY <1>2, <2>1, FinishesTyped DEF ConnectFails
<1>3. CASE SleepEnds(r) /\ job[r].late
  BY <1>3, EndsTyped DEF SleepEnds, Typed, TypeOK
<1>4. CASE SleepEnds(r) /\ ~job[r].late
  <2> DEFINE j == [job[r] EXCEPT !.pc = "connect"]
  <2>1. j \in Jobs /\ j.pc = "connect"
    BY <1>0 DEF Jobs, Pcs
  <2>2. job' = Put(job, r, j) /\ job[r].pc = "sleep" /\ line' = line
    BY <1>4 DEF SleepEnds, At
  <2> HIDE DEF j
  <2> QED  BY <1>4, <2>1, <2>2, LocalsMove DEF SleepEnds, Working
<1>5. CASE DeadlinePasses(r)
  <2> DEFINE j == [job[r] EXCEPT !.late = TRUE]
  <2>1. j \in Jobs /\ j.pc = job[r].pc
    BY <1>0 DEF Jobs
  <2>2. job' = Put(job, r, j)
    BY <1>5 DEF DeadlinePasses
  <2> HIDE DEF j
  <2> QED  BY <1>5, <2>1, <2>2, LocalsMove DEF DeadlinePasses
<1>6. CASE CancelRequested(r)
  <2> DEFINE j == [job[r] EXCEPT !.cancel = TRUE]
  <2>1. j \in Jobs /\ j.pc = job[r].pc
    BY <1>0 DEF Jobs
  <2>2. job' = Put(job, r, j)
    BY <1>6 DEF CancelRequested
  <2> HIDE DEF j
  <2> QED  BY <1>6, <2>1, <2>2, LocalsMove DEF CancelRequested
<1> QED  BY <1>1, <1>2, <1>3, <1>4, <1>5, <1>6

LEMMA ReadingTyped ==
    ASSUME Typed, NEW r \in Requests,
           ReadReturns(r) \/ ReadTimesOut(r) \/ PostReturns(r) \/ WriteCompletes(r)
    PROVE  Typed'
<1>0. job[r] \in Jobs /\ Rest
  BY DEF ReadReturns, ReadTimesOut, PostReturns, WriteCompletes, Rest, Typed, TypeOK
<1>1. CASE ReadReturns(r)
  <2>1. job[r].pc \in Working
    BY <1>1 DEF ReadReturns, At, Working
  <2>2. CASE ChunkArrives(r)
    BY <1>0, <2>1, <2>2, ChunkIsFed, GoesOnTyped, ProceedsTyped
  <2>3. CASE StreamEnds(r)
    BY <1>0, <2>1, <2>3, StreamIsEnded, GoesOnTyped, ProceedsTyped
  <2>4. CASE Finishes(r, "backend")
    BY <1>0, <2>4, FinishesTyped
  <2> QED  BY <1>1, <2>2, <2>3, <2>4 DEF ReadReturns
<1>2. CASE ReadTimesOut(r)
  BY <1>0, <1>2, LeavesTyped DEF ReadTimesOut, At, Working
<1>3. CASE PostReturns(r)
  <2>1. job[r].pc \in Working
    BY <1>3 DEF PostReturns, At, Working
  <2>2. CASE \E k \in 0..1 : Proceeds(r, Posted(job[r], k))
    BY <1>0, <2>1, <2>2, GoesOnTyped, ProceedsTyped
  <2>3. CASE \E why \in {"busy", "backend", "timeout", "reset", "invalid"} :
                 Ends(r, why) /\ UNCHANGED <<stream, thread, metrics, wire>>
    BY <1>0, <2>3, EndsTyped DEF Rest, Typed, TypeOK
  <2> QED  BY <1>3, <2>2, <2>3 DEF PostReturns, Posted
<1>4. CASE WriteCompletes(r)
  BY <1>0, <1>4, ProceedsTyped DEF WriteCompletes, At, Working
<1> QED  BY <1>1, <1>2, <1>3, <1>4

LEMMA EndingTyped ==
    ASSUME Typed, NEW r \in Requests,
           Refused(r) \/ WriteFails(r) \/ CancelArrives(r) \/ CloseReturns(r)
    PROVE  Typed'
<1>0. Rest
  BY DEF Refused, WriteFails, CancelArrives, CloseReturns, Rest, Typed, TypeOK
<1>1. CASE Refused(r)
  BY <1>0, <1>1, EndsTyped DEF Refused, Rest, Typed, TypeOK
<1>2. CASE WriteFails(r)
  BY <1>0, <1>2, AbandonsTyped DEF WriteFails
<1>3. CASE CancelArrives(r)
  <2>1. CASE Ends(r, "cancelled") /\ UNCHANGED <<stream, thread, metrics, wire>>
    BY <1>0, <2>1, EndsTyped DEF Rest, Typed, TypeOK
  <2>2. CASE job[r].pc = "read" /\ Leaves(r, "cancelled")
    BY <1>0, <2>2, LeavesTyped DEF Working
  <2>3. CASE Abandons(r)
    BY <1>0, <2>3, AbandonsTyped
  <2> QED  BY <1>3, <2>1, <2>2, <2>3 DEF CancelArrives
<1>4. CASE CloseReturns(r)
  BY <1>0, <1>4, FinishesTyped DEF CloseReturns
<1> QED  BY <1>1, <1>2, <1>3, <1>4

LEMMA OthersTyped ==
    ASSUME Typed, NEW r \in Requests,
           Finalised(r) \/ AnswerWritten(r) \/ ThreadReturns(r) \/ ClientLeaves(r)
    PROVE  Typed'
<1>0. job[r] \in Jobs
  BY DEF Typed, TypeOK
<1>1. CASE Finalised(r)
  <2> DEFINE j == [job[r] EXCEPT !.left = FALSE]
  <2>1. j \in Jobs /\ j.pc = job[r].pc
    BY <1>0 DEF Jobs
  <2>2. job' = Put(job, r, j) /\ line' = line
    BY <1>1 DEF Finalised
  <2> HIDE DEF j
  <2>3. /\ stream' \in [Requests -> Streams] /\ thread' \in [Requests -> Threads]
        /\ metrics' \in [Requests -> Records] /\ wire' \in [Requests -> Seq(Events)] /\ Rest
    BY <1>1 DEF Finalised, Put, Typed, TypeOK, Streams, Threads, Records, Events, Rest
  <2>4. j.pc \in Working => line # <<>> /\ line[1] = r
    BY <2>1 DEF Typed, Lined
  <2> QED  BY <2>1, <2>2, <2>3, <2>4, MovesTyped
<1>2. CASE AnswerWritten(r)
  <2> DEFINE j == [job[r] EXCEPT !.pc = "done"]
  <2>1. j \in Jobs /\ j.pc = "done" /\ job[r].pc = "answer"
    BY <1>0, <1>2 DEF Jobs, Pcs, AnswerWritten
  <2>2. job' = Put(job, r, j) /\ line' = line
    BY <1>2 DEF AnswerWritten
  <2> HIDE DEF j
  <2>3. wire' \in [Requests -> Seq(Events)]
    <3>1. wire[r] \in Seq(Events) /\ "error" \in Events
      BY DEF Typed, TypeOK, Events
    <3>2. Append(wire[r], "error") \in Seq(Events)
      BY <3>1
    <3> QED  BY <1>2, <3>2 DEF AnswerWritten, Put, Typed, TypeOK, Events
  <2>4. /\ stream' \in [Requests -> Streams] /\ thread' \in [Requests -> Threads]
        /\ metrics' \in [Requests -> Records] /\ Rest
    BY <1>2 DEF AnswerWritten, Typed, TypeOK, Streams, Threads, Records, Rest
  <2> QED  BY <2>1, <2>2, <2>3, <2>4, MovesTyped DEF Working
<1>3. CASE ThreadReturns(r)
  <2>1. thread' \in [Requests -> Threads]
    BY <1>3, ZenonT(40) DEF ThreadReturns, Put, Typed, TypeOK, Threads
  <2>2. stream' \in [Requests -> Streams] /\ metrics' \in [Requests -> Records]
    BY <1>3 DEF ThreadReturns, Put, Typed, TypeOK, Streams, Records
  <2> QED  BY <1>3, <2>1, <2>2 DEF ThreadReturns, Typed, TypeOK, Lined, Streams, Threads, Records
<1>4. CASE ClientLeaves(r)
  BY <1>4 DEF ClientLeaves, Put, Typed, TypeOK, Lined
<1> QED  BY <1>1, <1>2, <1>3, <1>4

LEMMA StepTyped == Typed /\ [Next]_vars => Typed'
<1> SUFFICES ASSUME Typed, [Next]_vars PROVE Typed'
  OBVIOUS
<1>1. CASE UNCHANGED vars
  BY <1>1 DEF vars, Typed, TypeOK, Lined
<1>2. ASSUME NEW r \in Requests, Turn(r) PROVE Typed'
  BY <1>2, StartsTyped, OpensTyped, RetryTyped, ReadingTyped, EndingTyped, OthersTyped
     DEF Turn, Connects
<1> QED  BY <1>1, <1>2, AskTyped, RetryTyped, ReadingTyped, EndingTyped, OthersTyped DEF Next

LEMMA InitTyped == Init => Typed
<1> SUFFICES ASSUME Init PROVE Typed
  OBVIOUS
<1>1. Fresh \in Jobs /\ Fresh.pc = "new"
  BY AttemptsArePositive DEF Fresh, Jobs, Pcs
<1>2. line \in Seq(Requests) /\ Len(line) = 0
  BY DEF Init
<1>3. TypeOK
  BY <1>1, <1>2 DEF Init, TypeOK
<1>4. Lined
  BY <1>1, <1>2 DEF Init, Lined, Working
<1> QED  BY <1>3, <1>4 DEF Typed

-----------------------------------------------------------------------------
(* Types.                                                                  *)

\* Every variable keeps its type.
THEOREM TypeCorrect == Spec => []TypeOK
<1>1. Spec => []Typed
  BY InitTyped, StepTyped, PTL DEF Spec
<1>2. Typed => TypeOK
  BY DEF Typed
<1> QED  BY <1>1, <1>2, PTL

-----------------------------------------------------------------------------
(* What r holds.  A thread reads a stream that is open, for a generator    *)
(* that waits for it; the deadline is that of an attempt in progress; and  *)
(* only the streamed modes have either.                                    *)

Held(r) ==
    /\ thread[r] \in {"reading", "chunk", "eof", "error"} => job[r].pc \in {"read", "close"}
    /\ thread[r] = "reading" => stream[r] = "open"
    /\ stream[r] = "open" =>
          /\ job[r].pc \in {"write", "read", "close"} \/ job[r].left
          /\ mode # "buffered"
    /\ job[r].late => job[r].pc \in {"connect", "sleep", "read", "write", "close"}
    /\ job[r].pc \in {"connect", "sleep", "read", "close"} => mode # "buffered"
    /\ job[r].pc = "thread" => mode = "buffered"
    /\ thread[r] \in {"posting", "posted", "failed"} => mode = "buffered"
    /\ job[r].left => job[r].pc = "done"

\* What a streamed request says of its backend is what the backend did: the
\* end of the audio is announced, and success recorded, with the stream
\* drained, and it is drained once only.
Truthful(r) ==
    /\ job[r].pc \notin {"read", "write", "close", "answer", "done"} => stream[r] = "none"
    /\ thread[r] = "chunk" => stream[r] = "open"
    /\ thread[r] = "eof" => stream[r] = "drained"
    /\ job[r].pc = "write" =>
          /\ job[r].then = "read" => stream[r] = "open" /\ mode # "buffered"
          /\ job[r].then = "end" => stream[r] = "drained" \/ mode = "buffered"
    /\ metrics[r] = "success" => stream[r] = "drained" \/ mode = "buffered"
    /\ (\E i \in DOMAIN wire[r] : wire[r][i] = "stop") => stream[r] = "drained" \/ mode = "buffered"

\* What is on the wire and what the generator still owes make one envelope.
Nothing == <<>>
S   == <<"start">>
SC  == <<"start", "chunk">>
SP  == <<"start", "stop">>
SCP == <<"start", "chunk", "stop">>
C   == <<"chunk">>
P   == <<"stop">>
CP  == <<"chunk", "stop">>

Opened  == {S, SC}
Stopped == {SP, SCP}
Failed  == {<<"error">>, <<"start", "error">>, <<"start", "chunk", "error">>}

Owed(w, j) ==
    \/ j.then = "read" /\ ~j.flowing /\ w = Nothing /\ j.todo = Nothing
    \/ /\ j.then \in {"read", "bad"} /\ (j.then = "read" => j.flowing)
       /\ \/ w = Nothing /\ j.todo \in Opened
          \/ w \in Opened /\ j.todo \in {Nothing, C}
    \/ /\ j.then = "end"
       /\ \/ w = Nothing /\ j.todo \in {Nothing} \cup Stopped
          \/ w \in Opened /\ j.todo \in {P, CP}
          \/ w \in Stopped /\ j.todo = Nothing

Enveloped(r) ==
    /\ job[r].pc \in {"new", "queued", "connect", "sleep", "thread"} => wire[r] = Nothing
    /\ job[r].pc \in {"answer", "close"} => wire[r] \in {Nothing} \cup Opened
    /\ job[r].pc \in {"read", "write"} => Owed(wire[r], job[r])
    /\ job[r].pc = "write" => wire[r] # Nothing
    /\ job[r].pc # "write" => job[r].then = "read" /\ job[r].todo = Nothing
    /\ job[r].pc \notin {"read", "write", "close"} => ~job[r].flowing
    /\ wire[r] \in {Nothing} \cup Opened \cup Stopped \cup Failed

Whole(r) == Held(r) /\ Truthful(r) /\ Enveloped(r)
Inv == Typed /\ \A r \in Requests : Whole(r)

-----------------------------------------------------------------------------
(* Short sequences.                                                        *)

LEMMA Singles ==
    ASSUME NEW A, NEW s \in Seq(A), Len(s) = 1
    PROVE  s = <<s[1]>>
<1> DEFINE t == <<s[1]>>
<1>0. s[1] \in A
  <2>1. \A i \in 1..Len(s) : s[i] \in A
    OBVIOUS
  <2> QED  BY <2>1
<1>1. t \in Seq(A) /\ Len(t) = 1 /\ t[1] = s[1]
  BY <1>0
<1> HIDE DEF t
<1>2. \A i \in 1..Len(s) : s[i] = t[i]
  BY <1>1
<1>3. s = t
  BY <1>1, <1>2, SeqEqual
<1> QED  BY <1>3 DEF t

LEMMA Pairs ==
    ASSUME NEW A, NEW s \in Seq(A), Len(s) = 2
    PROVE  s = <<s[1], s[2]>>
<1> DEFINE t == <<s[1], s[2]>>
<1>0. s[1] \in A /\ s[2] \in A
  <2>1. \A i \in 1..Len(s) : s[i] \in A
    OBVIOUS
  <2> QED  BY <2>1
<1>1. t \in Seq(A) /\ Len(t) = 2 /\ t[1] = s[1] /\ t[2] = s[2]
  BY <1>0
<1> HIDE DEF t
<1>2. \A i \in 1..Len(s) : s[i] = t[i]
  BY <1>1
<1>3. s = t
  BY <1>1, <1>2, SeqEqual
<1> QED  BY <1>3 DEF t

LEMMA Triples ==
    ASSUME NEW A, NEW s \in Seq(A), Len(s) = 3
    PROVE  s = <<s[1], s[2], s[3]>>
<1> DEFINE t == <<s[1], s[2], s[3]>>
<1>0. s[1] \in A /\ s[2] \in A /\ s[3] \in A
  <2>1. \A i \in 1..Len(s) : s[i] \in A
    OBVIOUS
  <2> QED  BY <2>1
<1>1. t \in Seq(A) /\ Len(t) = 3 /\ t[1] = s[1] /\ t[2] = s[2] /\ t[3] = s[3]
  BY <1>0
<1> HIDE DEF t
<1>2. \A i \in 1..Len(s) : s[i] = t[i]
  BY <1>1
<1>3. s = t
  BY <1>1, <1>2, SeqEqual
<1> QED  BY <1>3 DEF t

LEMMA AppendOne == ASSUME NEW a PROVE Append(<<>>, a) = <<a>>
<1> DEFINE s == Append(<<>>, a)
<1>1. s \in Seq({a}) /\ Len(s) = 1 /\ s[1] = a
  OBVIOUS
<1> HIDE DEF s
<1>2. s = <<s[1]>>
  BY <1>1, Singles
<1>3. s = <<a>>
  BY <1>1, <1>2, Zenon
<1> QED  BY <1>3 DEF s

LEMMA AppendTwo == ASSUME NEW a, NEW b PROVE Append(<<a>>, b) = <<a, b>>
<1> DEFINE s == Append(<<a>>, b)
<1>1. s \in Seq({a, b}) /\ Len(s) = 2 /\ s[1] = a /\ s[2] = b
  OBVIOUS
<1> HIDE DEF s
<1>2. s = <<s[1], s[2]>>
  BY <1>1, Pairs
<1>3. s = <<a, b>>
  BY <1>1, <1>2, Zenon
<1> QED  BY <1>3 DEF s

LEMMA AppendThree == ASSUME NEW a, NEW b, NEW c PROVE Append(<<a, b>>, c) = <<a, b, c>>
<1> DEFINE s == Append(<<a, b>>, c)
<1>1. s \in Seq({a, b, c}) /\ Len(s) = 3 /\ s[1] = a /\ s[2] = b /\ s[3] = c
  OBVIOUS
<1> HIDE DEF s
<1>2. s = <<s[1], s[2], s[3]>>
  BY <1>1, Triples
<1>3. s = <<a, b, c>>
  BY <1>1, <1>2, Zenon
<1> QED  BY <1>3 DEF s

LEMMA ConcatTwo == ASSUME NEW a, NEW b PROVE <<a>> \o <<b>> = <<a, b>>
<1> DEFINE s == <<a>> \o <<b>>
<1>1. s \in Seq({a, b}) /\ Len(s) = 2 /\ s[1] = a /\ s[2] = b
  OBVIOUS
<1> HIDE DEF s
<1>2. s = <<s[1], s[2]>>
  BY <1>1, Pairs
<1>3. s = <<a, b>>
  BY <1>1, <1>2, Zenon
<1> QED  BY <1>3 DEF s

LEMMA ConcatThree == ASSUME NEW a, NEW b, NEW c PROVE <<a, b>> \o <<c>> = <<a, b, c>>
<1> DEFINE s == <<a, b>> \o <<c>>
<1>1. s \in Seq({a, b, c}) /\ Len(s) = 3 /\ s[1] = a /\ s[2] = b /\ s[3] = c
  OBVIOUS
<1> HIDE DEF s
<1>2. s = <<s[1], s[2], s[3]>>
  BY <1>1, Triples
<1>3. s = <<a, b, c>>
  BY <1>1, <1>2, Zenon
<1> QED  BY <1>3 DEF s

LEMMA ConcatNone == ASSUME NEW a PROVE <<a>> \o <<>> = <<a>>
<1>1. <<a>> \in Seq({a})
  OBVIOUS
<1> QED  BY <1>1, ConcatEmptySeq

LEMMA TailOne == ASSUME NEW a PROVE Head(<<a>>) = a /\ Tail(<<a>>) = <<>>
<1>1. Tail(<<a>>) \in Seq({a}) /\ Len(Tail(<<a>>)) = 0
  <2>1. <<a>> \in Seq({a}) /\ Len(<<a>>) = 1
    OBVIOUS
  <2> QED  BY <2>1
<1> QED  BY <1>1

LEMMA TailTwo == ASSUME NEW a, NEW b PROVE Head(<<a, b>>) = a /\ Tail(<<a, b>>) = <<b>>
<1> DEFINE s == Tail(<<a, b>>)
<1>1. s \in Seq({a, b}) /\ Len(s) = 1 /\ s[1] = b
  OBVIOUS
<1> HIDE DEF s
<1>2. s = <<s[1]>>
  BY <1>1, Singles
<1>3. s = <<b>>
  BY <1>1, <1>2, Zenon
<1> QED  BY <1>3 DEF s

LEMMA TailThree ==
    ASSUME NEW a, NEW b, NEW c
    PROVE  Head(<<a, b, c>>) = a /\ Tail(<<a, b, c>>) = <<b, c>>
<1> DEFINE s == Tail(<<a, b, c>>)
<1>1. s \in Seq({a, b, c}) /\ Len(s) = 2 /\ s[1] = b /\ s[2] = c
  OBVIOUS
<1> HIDE DEF s
<1>2. s = <<s[1], s[2]>>
  BY <1>1, Pairs
<1>3. s = <<b, c>>
  BY <1>1, <1>2, Zenon
<1> QED  BY <1>3 DEF s

-----------------------------------------------------------------------------
(* The envelope.                                                           *)

LEMMA RunsDiffer ==
    /\ Nothing \notin {S, SC, SP, SCP, C, P, CP}
    /\ S \notin {SC, SP, SCP, C, P, CP}
    /\ SC \notin {SP, SCP, C, P, CP}
    /\ SP \notin {SCP, C, P, CP}
    /\ SCP \notin {C, P, CP}
    /\ C \notin {P, CP} /\ P # CP
<1>1. /\ Len(Nothing) = 0 /\ Len(S) = 1 /\ Len(C) = 1 /\ Len(P) = 1 /\ Len(SC) = 2 /\ Len(SP) = 2
      /\ Len(CP) = 2 /\ Len(SCP) = 3
  BY DEF Nothing, S, SC, SP, SCP, C, P, CP
<1>2. /\ S[1] = "start" /\ C[1] = "chunk" /\ P[1] = "stop" /\ SC[2] = "chunk" /\ SP[2] = "stop"
      /\ SC[1] = "start" /\ SP[1] = "start" /\ CP[1] = "chunk" /\ CP[2] = "stop"
  BY DEF S, SC, SP, C, P, CP
<1>3. Nothing \notin {S, SC, SP, SCP, C, P, CP}
  BY <1>1
<1>4. S # SC /\ S # SP /\ S # SCP /\ S # CP
  BY <1>1
<1>7. SC # SCP /\ SP # SCP
  BY <1>1
<1>8. SC # C /\ SC # P
  BY <1>1
<1>9. SP # C /\ SP # P
  BY <1>1
<1>5. SCP \notin {C, P, CP} /\ C # CP /\ P # CP
  BY <1>1
<1>6. S \notin {C, P} /\ C # P /\ SC \notin {SP, CP} /\ SP # CP
  BY <1>2
<1> QED  BY <1>3, <1>4, <1>5, <1>6, <1>7, <1>8, <1>9

LEMMA RunsGoOn ==
    /\ Head(S) = "start" /\ Tail(S) = Nothing /\ Head(SC) = "start" /\ Tail(SC) = C
    /\ Head(SP) = "start" /\ Tail(SP) = P /\ Head(SCP) = "start" /\ Tail(SCP) = CP
    /\ Head(C) = "chunk" /\ Tail(C) = Nothing /\ Head(P) = "stop" /\ Tail(P) = Nothing
    /\ Head(CP) = "chunk" /\ Tail(CP) = P
<1>1. Head(S) = "start" /\ Tail(S) = Nothing /\ Head(SC) = "start" /\ Tail(SC) = C
  BY TailOne, TailTwo, Zenon DEF Nothing, S, SC, C
<1>2. Head(SP) = "start" /\ Tail(SP) = P /\ Head(SCP) = "start" /\ Tail(SCP) = CP
  <2>1. Head(SP) = "start" /\ Tail(SP) = P
    BY TailTwo, Zenon DEF SP, P
  <2>2. Head(SCP) = "start" /\ Tail(SCP) = CP
    BY TailThree, Zenon DEF SCP, CP
  <2> QED  BY <2>1, <2>2
<1>3. Head(C) = "chunk" /\ Tail(C) = Nothing /\ Head(P) = "stop" /\ Tail(P) = Nothing
  BY TailOne, Zenon DEF C, P, Nothing
<1>4. Head(CP) = "chunk" /\ Tail(CP) = P
  BY TailTwo, Zenon DEF CP, P
<1> QED  BY <1>1, <1>2, <1>3, <1>4

LEMMA RunsGrow ==
    /\ Emit(Nothing, "start") = S /\ Emit(S, "chunk") = SC /\ Emit(SC, "chunk") = SC
    /\ Emit(S, "stop") = SP /\ Emit(SC, "stop") = SCP
<1>1. /\ Append(Nothing, "start") = S /\ Append(S, "chunk") = SC /\ Append(S, "stop") = SP
      /\ Append(SC, "stop") = SCP
  BY AppendOne, AppendTwo, AppendThree, Zenon DEF Nothing, S, SC, SP, SCP
<1>2. /\ S[Len(S)] = "start" /\ SC[Len(SC)] = "chunk" /\ SC # Nothing
  <2>1. Len(S) = 1 /\ S[1] = "start" /\ Len(SC) = 2 /\ SC[2] = "chunk"
    BY DEF S, SC
  <2> QED  BY <2>1, RunsDiffer
<1> QED  BY <1>1, <1>2 DEF Emit

LEMMA RunsBegin ==
    /\ Some(0) = Nothing /\ Some(1) = C
    /\ <<"start">> \o Some(0) = S /\ <<"start">> \o Some(1) = SC
    /\ <<"start">> \o Some(0) \o <<"stop">> = SP /\ <<"start">> \o Some(1) \o <<"stop">> = SCP
    /\ Append(Nothing, "stop") = P /\ Append(C, "stop") = CP
    /\ Append(S, "stop") = SP /\ Append(SC, "stop") = SCP
<1>1. Some(0) = <<>> /\ Some(1) = <<"chunk">>
  BY DEF Some
<1>2. <<"start">> \o <<>> = S /\ <<"start">> \o <<"chunk">> = SC
  BY ConcatNone, ConcatTwo, Zenon DEF S, SC
<1>3. S \o <<"stop">> = SP /\ SC \o <<"stop">> = SCP
  BY ConcatTwo, ConcatThree, Zenon DEF S, SC, SP, SCP
<1>4. /\ Append(Nothing, "stop") = P /\ Append(C, "stop") = CP
      /\ Append(S, "stop") = SP /\ Append(SC, "stop") = SCP
  BY AppendOne, AppendTwo, AppendThree, Zenon DEF Nothing, P, C, CP, S, SC, SP, SCP
<1>5. Nothing = <<>> /\ C = <<"chunk">>
  BY DEF Nothing, C
<1> QED  BY <1>1, <1>2, <1>3, <1>4, <1>5, Zenon

LEMMA RunsStop ==
    /\ \A w \in {Nothing} \cup Opened \cup Failed : \A i \in DOMAIN w : w[i] # "stop"
<1>1. \A i \in DOMAIN Nothing : Nothing[i] # "stop"
  BY DEF Nothing
<1>2. (\A i \in DOMAIN S : S[i] # "stop") /\ (\A i \in DOMAIN SC : SC[i] # "stop")
  BY DEF S, SC
<1>3. ASSUME NEW w \in Failed PROVE \A i \in DOMAIN w : w[i] # "stop"
  <2>1. CASE w = <<"error">>
    BY <2>1
  <2>2. CASE w = <<"start", "error">>
    BY <2>2
  <2>3. CASE w = <<"start", "chunk", "error">>
    BY <2>3
  <2> QED  BY <2>1, <2>2, <2>3 DEF Failed
<1> QED  BY <1>1, <1>2, <1>3 DEF Opened

\* The event that is written leaves the rest of the envelope owed.
LEMMA EmitOwed ==
    ASSUME NEW w, NEW j, NEW i, Owed(w, j), j.todo # Nothing,
           i.todo = Tail(j.todo), i.then = j.then, i.flowing = j.flowing
    PROVE  /\ Owed(Emit(w, Head(j.todo)), i)
           /\ Emit(w, Head(j.todo)) \in Opened \cup Stopped
           /\ Emit(w, Head(j.todo)) \in Stopped => j.then = "end"
<1>1. CASE w = Nothing /\ j.todo \in Opened
  <2>1. j.then \in {"read", "bad"} /\ (j.then = "read" => j.flowing)
    BY <1>1, RunsDiffer DEF Owed, Opened, Stopped
  <2>2. Emit(w, Head(j.todo)) = S
    BY <1>1, RunsGoOn, RunsGrow DEF Opened
  <2>3. i.todo \in {Nothing, C}
    BY <1>1, RunsGoOn DEF Opened
  <2> QED  BY <2>1, <2>2, <2>3, RunsDiffer DEF Owed, Opened, Stopped
<1>2. CASE w = Nothing /\ j.todo \in Stopped
  <2>1. j.then = "end"
    BY <1>2, RunsDiffer DEF Owed, Opened, Stopped
  <2>2. Emit(w, Head(j.todo)) = S
    BY <1>2, RunsGoOn, RunsGrow DEF Stopped
  <2>3. i.todo \in {P, CP}
    BY <1>2, RunsGoOn DEF Stopped
  <2> QED  BY <2>1, <2>2, <2>3, RunsDiffer DEF Owed, Opened, Stopped
<1>3. CASE w \in Opened /\ j.todo = C
  BY <1>3, RunsDiffer, RunsGoOn, RunsGrow, SMTT(30) DEF Owed, Opened, Stopped
<1>4. CASE w \in Opened /\ j.todo \in {P, CP}
  BY <1>4, RunsDiffer, RunsGoOn, RunsGrow, SMTT(30) DEF Owed, Opened, Stopped
<1> QED  BY <1>1, <1>2, <1>3, <1>4 DEF Owed

-----------------------------------------------------------------------------
(* What each operation leaves of r.                                        *)

\* An operation that had nothing open ends.
LEMMA EndsWhole ==
    ASSUME Typed, NEW r \in Requests, Whole(r), NEW why, Ends(r, why),
           job[r].pc \in {"new", "queued", "sleep", "thread"},
           UNCHANGED <<mode, stream, thread, metrics, wire>>
    PROVE  Whole(r)'
<1> DEFINE p == IF why \in Answered THEN "answer" ELSE "done"
<1>1. /\ job'[r].pc = p /\ job'[r].todo = Nothing /\ job'[r].then = "read" /\ ~job'[r].flowing
      /\ ~job'[r].late /\ ~job'[r].left
  BY DEF Ends, Put, Fresh, Typed, TypeOK, Nothing
<1>2. p \in {"answer", "done"}
  OBVIOUS
<1> HIDE DEF p
<1>3. Held(r)'
  BY <1>1, <1>2 DEF Whole, Held, Truthful
<1>4. Truthful(r)'
  BY <1>1, <1>2 DEF Whole, Truthful
<1>5. Enveloped(r)'
  BY <1>1, <1>2 DEF Whole, Enveloped
<1> QED  BY <1>3, <1>4, <1>5 DEF Whole

\* The generator is over.
LEMMA FinishesWhole ==
    ASSUME Typed, NEW r \in Requests, Whole(r), NEW why, Finishes(r, why), mode' = mode,
           why \in Answered => wire[r] \in {Nothing} \cup Opened,
           why = "success" => stream[r] = "drained" \/ mode = "buffered"
    PROVE  Whole(r)'
<1> DEFINE p == IF why \in Answered THEN "answer" ELSE "done"
<1>1. /\ job'[r].pc = p /\ job'[r].todo = Nothing /\ job'[r].then = "read" /\ ~job'[r].flowing
      /\ ~job'[r].late /\ ~job'[r].left
  BY DEF Finishes, Ends, Put, Fresh, Typed, TypeOK, Nothing
<1>2. p \in {"answer", "done"} /\ (p = "answer" => why \in Answered)
  OBVIOUS
<1> HIDE DEF p
<1>3. /\ stream'[r] = IF stream[r] = "drained" THEN "drained" ELSE "closed"
      /\ thread'[r] = "none" /\ metrics'[r] = Status(why) /\ wire' = wire
  BY DEF Finishes, Put, Typed, TypeOK
<1>4. Status(why) = "success" => why = "success"
  BY DEF Status
<1>5. Held(r)'
  BY <1>1, <1>2, <1>3 DEF Held
<1>6. Truthful(r)'
  BY <1>1, <1>2, <1>3, <1>4 DEF Whole, Truthful
<1>7. Enveloped(r)'
  BY <1>1, <1>2, <1>3 DEF Whole, Enveloped
<1> QED  BY <1>5, <1>6, <1>7 DEF Whole

\* What holds of locals j with which the generator of r can go on.
GoesOn(r, j) ==
    /\ j \in Jobs /\ Owed(wire[r], j) /\ ~j.left
    /\ j.then = "read" => stream[r] = "open" /\ mode # "buffered"
    /\ j.then = "end" => stream[r] = "drained" \/ mode = "buffered"
    /\ metrics[r] = "success" => stream[r] = "drained" \/ mode = "buffered"
    /\ (\E i \in DOMAIN wire[r] : wire[r][i] = "stop") => stream[r] = "drained" \/ mode = "buffered"

LEMMA YieldsWhole ==
    ASSUME Typed, NEW r \in Requests, Whole(r), NEW j, GoesOn(r, j), j.todo # Nothing,
           Yields(r, j), mode' = mode
    PROVE  Whole(r)'
<1> DEFINE i == [j EXCEPT !.pc = "write", !.todo = Tail(j.todo)]
<1>1. /\ i.pc = "write" /\ i.todo = Tail(j.todo) /\ i.then = j.then /\ i.flowing = j.flowing
      /\ i.left = j.left /\ i.late = j.late
  BY DEF GoesOn, Jobs
<1>2. job'[r] = i /\ wire'[r] = Emit(wire[r], Head(j.todo)) /\ thread'[r] = "none"
      /\ stream' = stream /\ metrics' = metrics
  BY DEF Yields, Put, Typed, TypeOK
<1> HIDE DEF i
<1>3. /\ Owed(wire'[r], i) /\ wire'[r] \in Opened \cup Stopped
      /\ wire'[r] \in Stopped => j.then = "end"
  BY <1>1, <1>2, EmitOwed DEF GoesOn
<1>4. Held(r)'
  BY <1>1, <1>2 DEF GoesOn, Whole, Held
<1>5. Truthful(r)'
  <2>1. wire'[r] \in Opened => \A k \in DOMAIN wire'[r] : wire'[r][k] # "stop"
    BY RunsStop
  <2> QED  BY <1>1, <1>2, <1>3, <2>1 DEF GoesOn, Truthful
<1>6. Enveloped(r)'
  <2>1. wire'[r] # Nothing
    BY <1>3, RunsDiffer DEF Opened, Stopped
  <2> QED  BY <1>1, <1>2, <1>3, <2>1 DEF Enveloped
<1> QED  BY <1>4, <1>5, <1>6 DEF Whole

LEMMA ReadsWhole ==
    ASSUME Typed, NEW r \in Requests, Whole(r), NEW j, GoesOn(r, j), j.todo = Nothing,
           j.then = "read", Reads(r, j), mode' = mode
    PROVE  Whole(r)'
<1>1. wire[r] \in {Nothing} \cup Opened
  BY RunsDiffer DEF GoesOn, Owed, Opened
<1>2. CASE j.late
  BY <1>1, <1>2, FinishesWhole DEF Reads
<1>3. CASE ~j.late
  <2> DEFINE i == [j EXCEPT !.pc = "read"]
  <2>1. /\ i.pc = "read" /\ i.todo = j.todo /\ i.then = j.then /\ i.flowing = j.flowing
        /\ i.left = j.left
    BY DEF GoesOn, Jobs
  <2>2. /\ job'[r] = i /\ wire' = wire /\ thread'[r] = "reading" /\ stream' = stream
        /\ metrics' = metrics
    BY <1>3 DEF Reads, Put, Typed, TypeOK
  <2> HIDE DEF i
  <2>3. Owed(wire[r], i)
    BY <2>1 DEF GoesOn, Owed
  <2>4. Held(r)'
    BY <2>1, <2>2 DEF GoesOn, Whole, Held
  <2>5. Truthful(r)'
    BY <2>1, <2>2 DEF GoesOn, Truthful
  <2>6. Enveloped(r)'
    BY <1>1, <2>1, <2>2, <2>3 DEF Enveloped
  <2> QED  BY <2>4, <2>5, <2>6 DEF Whole
<1> QED  BY <1>2, <1>3

LEMMA ProceedsWhole ==
    ASSUME Typed, NEW r \in Requests, Whole(r), NEW j, GoesOn(r, j), Proceeds(r, j), mode' = mode
    PROVE  Whole(r)'
<1>0. Nothing = <<>>
  BY DEF Nothing
<1>1. CASE j.todo # Nothing /\ Yields(r, j)
  BY <1>1, YieldsWhole
<1>2. CASE j.todo = Nothing /\ j.then = "read" /\ Reads(r, j)
  BY <1>2, ReadsWhole
<1>3. CASE j.then = "end" /\ Finishes(r, "success")
  BY <1>3, FinishesWhole DEF GoesOn, Answered
<1>4. CASE Finishes(r, "invalid")
  BY <1>4, FinishesWhole DEF Answered
<1> QED  BY <1>0, <1>1, <1>2, <1>3, <1>4 DEF Proceeds

\* The locals with which the generator goes on.
LEMMA FedGoesOn ==
    ASSUME Typed, NEW r \in Requests, Whole(r), job[r].pc = "read", thread[r] = "chunk",
           NEW k \in 0..1, NEW enough \in BOOLEAN
    PROVE  GoesOn(r, Fed(job[r], k, enough))
<1> DEFINE j == Fed(job[r], k, enough)
           todo == IF job[r].flowing THEN Some(k)
                   ELSE IF enough THEN <<"start">> \o Some(k) ELSE <<>>
<1>0. job[r] \in Jobs
  BY DEF Typed, TypeOK
<1>1. j \in Jobs
  BY <1>0, GoesOnTyped
<1>2. /\ j.todo = todo /\ j.then = job[r].then /\ j.left = job[r].left
      /\ j.flowing <=> job[r].flowing \/ enough
  BY <1>0 DEF Fed, Jobs
<1>3. /\ job[r].flowing => todo \in {Nothing, C}
      /\ ~job[r].flowing /\ enough => todo \in Opened
      /\ ~job[r].flowing /\ ~enough => todo = Nothing
  BY RunsBegin DEF Opened, Nothing
<1> HIDE DEF j, todo
<1>4. /\ job[r].then = "read" /\ job[r].todo = Nothing /\ ~job[r].left
      /\ stream[r] = "open" /\ mode # "buffered"
  BY RunsDiffer DEF Whole, Held, Truthful, Enveloped, Owed, Opened, Stopped
<1>5. IF job[r].flowing THEN wire[r] \in Opened ELSE wire[r] = Nothing
  BY <1>4, RunsDiffer DEF Whole, Enveloped, Owed, Opened
<1>6. Owed(wire[r], j)
  BY <1>2, <1>3, <1>4, <1>5 DEF Owed
<1>7. /\ metrics[r] = "success" => stream[r] = "drained" \/ mode = "buffered"
      /\ (\E i \in DOMAIN wire[r] : wire[r][i] = "stop") => stream[r] = "drained" \/ mode = "buffered"
  BY DEF Whole, Truthful
<1>8. GoesOn(r, j)
  BY <1>1, <1>2, <1>4, <1>6, <1>7 DEF GoesOn
<1> QED  BY <1>8 DEF j

LEMMA EndedGoesOn ==
    ASSUME Typed, NEW r \in Requests, Whole(r), job[r].pc = "read", thread[r] = "eof",
           NEW k \in 0..1, NEW whole \in BOOLEAN
    PROVE  GoesOn(r, Ended(job[r], k, whole))
<1> DEFINE j == Ended(job[r], k, whole)
<1>0. job[r] \in Jobs
  BY DEF Typed, TypeOK
<1>1. j \in Jobs
  BY <1>0, GoesOnTyped
<1>2. /\ j.todo = LastTodo(job[r], k, whole) /\ j.left = job[r].left
      /\ j.then = IF whole \/ ~Begun(job[r]) THEN "end" ELSE "bad"
  BY <1>0 DEF Ended, Jobs
<1> HIDE DEF j
<1>3. LastAudio(job[r], k) \in IF job[r].flowing THEN {Nothing, C} ELSE Opened
  <2>1. CASE job[r].flowing
    <3>1. LastAudio(job[r], k) = <<>> \o Some(k)
      BY <2>1 DEF LastAudio
    <3>2. Some(k) \in Seq({"start", "chunk", "stop"})
      BY SomeIsTodo DEF Todos
    <3>3. LastAudio(job[r], k) = Some(k)
      BY <3>1, <3>2, ConcatEmptySeq
    <3> QED  BY <2>1, <3>3, RunsBegin
  <2>2. CASE ~job[r].flowing
    <3>1. k = 0 \/ k = 1
      OBVIOUS
    <3>2. LastAudio(job[r], k) = <<"start">> \o Some(k)
      BY <2>2 DEF LastAudio
    <3> QED  BY <2>2, <3>1, <3>2, RunsBegin DEF Opened
  <2> QED  BY <2>1, <2>2
<1>4. /\ ~Begun(job[r]) => j.todo = Nothing /\ j.then = "end"
      /\ Begun(job[r]) /\ whole =>
            /\ j.then = "end"
            /\ j.todo \in IF job[r].flowing THEN {P, CP} ELSE Stopped
      /\ Begun(job[r]) /\ ~whole =>
            /\ j.then = "bad"
            /\ j.todo \in IF job[r].flowing THEN {Nothing, C} ELSE Opened
  <2>1. Nothing = <<>>
    BY DEF Nothing
  <2> QED  BY <1>2, <1>3, <2>1, RunsBegin DEF LastTodo, Opened, Stopped
<1>5. /\ job[r].then = "read" /\ job[r].todo = Nothing /\ ~job[r].left
      /\ stream[r] = "drained" /\ mode # "buffered"
  BY RunsDiffer DEF Whole, Held, Truthful, Enveloped, Owed, Opened, Stopped
<1>6. IF job[r].flowing THEN wire[r] \in Opened ELSE wire[r] = Nothing
  BY <1>5, RunsDiffer DEF Whole, Enveloped, Owed, Opened
<1>7. job[r].flowing => Begun(job[r])
  BY DEF Begun
<1>8. Owed(wire[r], j)
  BY <1>4, <1>6, <1>7 DEF Owed
<1>9. ~j.left /\ j.then # "read"
  BY <1>2, <1>4, <1>5
<1>10. GoesOn(r, j)
  BY <1>1, <1>5, <1>8, <1>9 DEF GoesOn
<1> QED  BY <1>10 DEF j

LEMMA PostedGoesOn ==
    ASSUME Typed, NEW r \in Requests, Whole(r), job[r].pc = "thread", NEW k \in 0..1
    PROVE  GoesOn(r, Posted(job[r], k))
<1> DEFINE j == Posted(job[r], k)
<1>0. job[r] \in Jobs
  BY DEF Typed, TypeOK
<1>1. j \in Jobs
  BY <1>0, GoesOnTyped
<1>2. j.todo = <<"start">> \o Some(k) \o <<"stop">> /\ j.then = "end" /\ j.left = job[r].left
  BY <1>0 DEF Posted, Jobs
<1> HIDE DEF j
<1>3. j.todo \in Stopped
  BY <1>2, RunsBegin, SMTT(30) DEF Stopped
<1>4. wire[r] = Nothing /\ ~job[r].left /\ mode = "buffered"
  BY DEF Whole, Held, Enveloped, Nothing
<1>5. Owed(wire[r], j)
  BY <1>2, <1>3, <1>4 DEF Owed
<1>6. GoesOn(r, j)
  BY <1>1, <1>2, <1>4, <1>5 DEF GoesOn
<1> QED  BY <1>6 DEF j

LEMMA WriteGoesOn ==
    ASSUME Typed, NEW r \in Requests, Whole(r), job[r].pc = "write"
    PROVE  GoesOn(r, job[r])
BY DEF GoesOn, Whole, Held, Truthful, Enveloped, Typed, TypeOK

-----------------------------------------------------------------------------
(* Every step keeps what r holds, says and has sent.                       *)

LEMMA ConnectingWhole ==
    ASSUME Typed, NEW r \in Requests, Whole(r),
           Ask(r) \/ Starts(r) \/ StreamOpens(r) \/ BackendBusy(r) \/ ConnectFails(r) \/ SleepEnds(r)
    PROVE  Whole(r)'
<1>0. job[r] \in Jobs
  BY DEF Typed, TypeOK
<1>1. CASE Ask(r) \/ BackendBusy(r) \/ (SleepEnds(r) /\ ~job[r].late)
  <2>1. /\ IF Ask(r) THEN job[r].pc = "new" /\ job'[r].pc = "queued"
                     ELSE job[r].pc \in {"connect", "sleep"} /\ job'[r].pc \in {"connect", "sleep"}
        /\ job'[r].todo = job[r].todo /\ job'[r].then = job[r].then /\ job'[r].flowing = job[r].flowing
        /\ job'[r].left = job[r].left /\ job'[r].late = job[r].late
        /\ UNCHANGED <<mode, stream, thread, metrics, wire>>
    <3>1. CASE Ask(r)
      <4>1. job'[r] = [job[r] EXCEPT !.pc = "queued"] /\ job[r].pc = "new"
        BY <3>1 DEF Ask, Put, Typed, TypeOK
      <4> QED  BY <1>0, <3>1, <4>1 DEF Ask, Jobs
    <3>2. CASE ~Ask(r) /\ BackendBusy(r)
      <4>1. job'[r] = [job[r] EXCEPT !.pc = "sleep", !.attempt = job[r].attempt + 1] /\ job[r].pc = "connect"
        BY <3>2 DEF BackendBusy, Put, Typed, TypeOK
      <4> QED  BY <1>0, <3>2, <4>1 DEF BackendBusy, Jobs
    <3>3. CASE ~Ask(r) /\ SleepEnds(r) /\ ~job[r].late
      <4>1. job'[r] = [job[r] EXCEPT !.pc = "connect"] /\ job[r].pc = "sleep"
        BY <3>3 DEF SleepEnds, At, Put, Typed, TypeOK
      <4> QED  BY <1>0, <3>3, <4>1 DEF SleepEnds, Jobs
    <3> QED  BY <1>1, <3>1, <3>2, <3>3
  <2>2. Held(r)'
    <3>1. stream[r] = "none"
      BY <2>1 DEF Whole, Truthful
    <3>2. job[r].pc = "new" => ~job[r].late
      BY DEF Whole, Held
    <3> QED  BY <2>1, <3>1, <3>2 DEF Whole, Held
  <2>3. Truthful(r)'
    BY <2>1 DEF Whole, Truthful
  <2>4. Enveloped(r)'
    BY <2>1 DEF Whole, Enveloped
  <2> QED  BY <2>2, <2>3, <2>4 DEF Whole
<1>2. CASE SleepEnds(r) /\ job[r].late
  BY <1>2, EndsWhole DEF SleepEnds, At
<1>3. CASE Starts(r)
  <2>1. /\ job[r].pc = "queued"
        /\ job'[r].pc = IF mode = "buffered" THEN "thread" ELSE "connect"
        /\ job'[r].todo = job[r].todo /\ job'[r].then = job[r].then /\ job'[r].flowing = job[r].flowing
        /\ job'[r].left = job[r].left /\ job'[r].late = job[r].late
        /\ thread'[r] = IF mode = "buffered" THEN "posting" ELSE thread[r]
        /\ metrics'[r] = "open" /\ UNCHANGED <<mode, stream, wire>>
    BY <1>0, <1>3 DEF Starts, At, Put, Typed, TypeOK, Jobs
  <2>2. Held(r)'
    BY <2>1 DEF Whole, Held, Truthful
  <2>3. Truthful(r)'
    BY <2>1 DEF Whole, Truthful
  <2>4. Enveloped(r)'
    BY <2>1 DEF Whole, Enveloped
  <2> QED  BY <2>2, <2>3, <2>4 DEF Whole
<1>4. CASE ConnectFails(r)
  <2>1. wire[r] = Nothing
    BY <1>4 DEF ConnectFails, Whole, Enveloped
  <2>2. PICK why \in {"busy", "backend", "timeout", "reset", "invalid"} : Finishes(r, why)
    BY <1>4 DEF ConnectFails
  <2> QED  BY <1>4, <2>1, <2>2, FinishesWhole DEF ConnectFails
<1>5. CASE StreamOpens(r)
  <2>0. /\ wire[r] = Nothing /\ job[r].then = "read" /\ job[r].todo = Nothing /\ ~job[r].left
        /\ ~job[r].flowing /\ stream[r] = "none" /\ mode # "buffered" /\ mode' = mode
        /\ metrics[r] # "success"
    BY <1>5 DEF StreamOpens, Whole, Held, Truthful, Enveloped
  <2>1. CASE Finishes(r, "timeout")
    BY <2>0, <2>1, FinishesWhole
  <2>2. CASE mode = "immediate"
    <3>1. /\ job'[r].pc = "write" /\ job'[r].flowing /\ job'[r].todo = Nothing
          /\ job'[r].then = "read" /\ ~job'[r].left
          /\ wire'[r] = Emit(wire[r], "start") /\ stream'[r] = "open"
          /\ UNCHANGED <<mode, thread, metrics>>
      <4>1. /\ job'[r] = [job[r] EXCEPT !.pc = "write", !.flowing = TRUE]
            /\ wire'[r] = Emit(wire[r], "start") /\ stream'[r] = "open"
            /\ UNCHANGED <<mode, thread, metrics>>
        BY <1>5, <2>0, <2>2 DEF StreamOpens, Put, Typed, TypeOK
      <4> QED  BY <1>0, <2>0, <4>1 DEF Jobs
    <3>2. wire'[r] = S
      BY <2>0, <3>1, RunsGrow
    <3>3. \A k \in DOMAIN wire'[r] : wire'[r][k] # "stop"
      BY <3>2, RunsStop DEF Opened
    <3>4. thread[r] \notin {"reading", "chunk", "eof", "error"}
      BY <1>5 DEF StreamOpens, Whole, Held
    <3>5. Held(r)'
      BY <2>0, <3>1, <3>4 DEF Whole, Held
    <3>6. Truthful(r)'
      BY <2>0, <3>1, <3>3, <3>4 DEF Whole, Truthful
    <3>7. Enveloped(r)'
      BY <3>1, <3>2, RunsDiffer DEF Enveloped, Owed, Opened
    <3> QED  BY <3>5, <3>6, <3>7 DEF Whole
  <2>3. CASE mode # "immediate" /\ ~Finishes(r, "timeout")
    <3>1. /\ job'[r].pc = "read" /\ ~job'[r].flowing /\ job'[r].todo = Nothing
          /\ job'[r].then = "read" /\ ~job'[r].left
          /\ stream'[r] = "open" /\ thread'[r] = "reading"
          /\ UNCHANGED <<mode, wire, metrics>>
      <4>1. /\ job'[r] = [job[r] EXCEPT !.pc = "read"]
            /\ stream'[r] = "open" /\ thread'[r] = "reading"
            /\ UNCHANGED <<mode, wire, metrics>>
        BY <1>5, <2>0, <2>3 DEF StreamOpens, Put, Typed, TypeOK
      <4> QED  BY <1>0, <2>0, <4>1 DEF Jobs
    <3>2. \A k \in DOMAIN wire[r] : wire[r][k] # "stop"
      BY <2>0, RunsStop
    <3>3. Held(r)'
      BY <2>0, <3>1 DEF Held
    <3>4. Truthful(r)'
      BY <2>0, <3>1, <3>2 DEF Truthful
    <3>5. Enveloped(r)'
      BY <2>0, <3>1 DEF Enveloped, Owed
    <3> QED  BY <3>3, <3>4, <3>5 DEF Whole
  <2> QED  BY <2>1, <2>2, <2>3
<1> QED  BY <1>1, <1>2, <1>3, <1>4, <1>5

\* A reader that is left: its close() waits for the read.
LEMMA LeavesWhole ==
    ASSUME Typed, NEW r \in Requests, Whole(r), NEW why \in {"timeout", "cancelled"},
           job[r].pc = "read", Leaves(r, why), mode' = mode
    PROVE  Whole(r)'
<1>0. job[r] \in Jobs
  BY DEF Typed, TypeOK
<1>1. wire[r] \in {Nothing} \cup Opened
  BY RunsDiffer DEF Whole, Enveloped, Owed, Opened
<1>2. CASE thread[r] # "reading"
  BY <1>1, <1>2, FinishesWhole DEF Leaves
<1>3. CASE thread[r] = "reading"
  <2>1. /\ job'[r].pc = "close" /\ job'[r].todo = job[r].todo /\ job'[r].then = job[r].then
        /\ job'[r].left = job[r].left
        /\ UNCHANGED <<mode, stream, thread, metrics, wire>>
    <3>1. /\ job'[r] = [job[r] EXCEPT !.pc = "close", !.why = why]
          /\ UNCHANGED <<mode, stream, thread, metrics, wire>>
      BY <1>3 DEF Leaves, Put, Typed, TypeOK
    <3> QED  BY <1>0, <3>1 DEF Jobs
  <2>2. Held(r)'
    BY <2>1 DEF Whole, Held
  <2>3. Truthful(r)'
    BY <2>1 DEF Whole, Truthful
  <2>4. Enveloped(r)'
    BY <1>1, <2>1 DEF Whole, Enveloped
  <2> QED  BY <2>2, <2>3, <2>4 DEF Whole
<1> QED  BY <1>2, <1>3

LEMMA ReadingWhole ==
    ASSUME Typed, NEW r \in Requests, Whole(r),
           ReadReturns(r) \/ ReadTimesOut(r) \/ PostReturns(r) \/ WriteCompletes(r)
    PROVE  Whole(r)'
<1>0. job[r] \in Jobs /\ mode' = mode
  BY DEF ReadReturns, ReadTimesOut, PostReturns, WriteCompletes, Typed, TypeOK
<1>1. CASE ReadReturns(r)
  <2>1. job[r].pc = "read"
    BY <1>1 DEF ReadReturns, At
  <2>2. CASE ChunkArrives(r)
    <3>1. thread[r] = "chunk"
      BY <2>2 DEF ChunkArrives
    <3>2. PICK k \in 0..1, enough \in BOOLEAN : Proceeds(r, Fed(job[r], k, enough))
      BY <2>2, ChunkIsFed
    <3> QED  BY <1>0, <2>1, <3>1, <3>2, FedGoesOn, ProceedsWhole
  <2>3. CASE StreamEnds(r)
    <3>1. thread[r] = "eof"
      BY <2>3 DEF StreamEnds
    <3>2. PICK k \in 0..1, whole \in BOOLEAN : Proceeds(r, Ended(job[r], k, whole))
      BY <2>3, StreamIsEnded
    <3> QED  BY <1>0, <2>1, <3>1, <3>2, EndedGoesOn, ProceedsWhole
  <2>4. CASE Finishes(r, "backend")
    <3>1. wire[r] \in {Nothing} \cup Opened
      BY <2>1, RunsDiffer DEF Whole, Enveloped, Owed, Opened
    <3> QED  BY <1>0, <2>4, <3>1, FinishesWhole
  <2> QED  BY <1>1, <2>2, <2>3, <2>4 DEF ReadReturns
<1>2. CASE ReadTimesOut(r)
  <2>1. Leaves(r, "timeout") /\ job[r].pc = "read"
    BY <1>2 DEF ReadTimesOut, At
  <2> QED  BY <1>0, <2>1, LeavesWhole
<1>3. CASE PostReturns(r)
  <2>1. job[r].pc = "thread"
    BY <1>3 DEF PostReturns, At
  <2>2. CASE \E k \in 0..1 : Proceeds(r, Posted(job[r], k))
    BY <1>0, <2>1, <2>2, PostedGoesOn, ProceedsWhole
  <2>3. CASE \E why \in {"busy", "backend", "timeout", "reset", "invalid"} :
                 Ends(r, why) /\ UNCHANGED <<stream, thread, metrics, wire>>
    BY <1>0, <2>1, <2>3, EndsWhole
  <2> QED  BY <1>3, <2>2, <2>3 DEF PostReturns, Posted
<1>4. CASE WriteCompletes(r)
  <2>1. job[r].pc = "write" /\ Proceeds(r, job[r])
    BY <1>4 DEF WriteCompletes, At
  <2> QED  BY <1>0, <2>1, WriteGoesOn, ProceedsWhole
<1> QED  BY <1>1, <1>2, <1>3, <1>4

LEMMA EndingWhole ==
    ASSUME Typed, NEW r \in Requests, Whole(r),
           Refused(r) \/ WriteFails(r) \/ CancelArrives(r) \/ CloseReturns(r) \/ Finalised(r)
           \/ AnswerWritten(r)
    PROVE  Whole(r)'
<1>0. job[r] \in Jobs /\ mode' = mode
  BY DEF Refused, WriteFails, CancelArrives, CloseReturns, Finalised, AnswerWritten, Typed, TypeOK
<1>1. CASE Refused(r)
  BY <1>1, EndsWhole DEF Refused, At
<1>2. CASE job[r].pc = "write" /\ Abandons(r)
  <2>1. job'[r] = [Fresh EXCEPT !.pc = "done", !.left = mode # "buffered"]
    BY <1>2 DEF Abandons, Put, Typed, TypeOK
  <2>2. /\ job'[r].pc = "done" /\ job'[r].todo = Nothing /\ job'[r].then = "read"
        /\ ~job'[r].flowing /\ ~job'[r].late /\ (job'[r].left <=> mode # "buffered")
        /\ UNCHANGED <<mode, stream, thread, metrics, wire>>
    BY <1>0, <1>2, <2>1, ZenonT(40) DEF Abandons, Fresh, Nothing
  <2>3. /\ thread[r] \notin {"reading", "chunk", "eof", "error"}
        /\ stream[r] = "open" => mode # "buffered"
    BY <1>2 DEF Whole, Held
  <2>4. Held(r)'
    BY <2>2, <2>3 DEF Whole, Held
  <2>5. Truthful(r)'
    BY <2>2 DEF Whole, Truthful
  <2>6. Enveloped(r)'
    BY <2>2 DEF Whole, Enveloped
  <2> QED  BY <2>4, <2>5, <2>6 DEF Whole
<1>3. CASE WriteFails(r)
  BY <1>2, <1>3 DEF WriteFails, At
<1>4. CASE CancelArrives(r)
  <2>1. CASE /\ job[r].pc \in {"queued", "sleep", "thread"} /\ Ends(r, "cancelled")
             /\ UNCHANGED <<stream, thread, metrics, wire>>
    BY <1>0, <2>1, EndsWhole
  <2>2. CASE job[r].pc = "read" /\ Leaves(r, "cancelled")
    BY <1>0, <2>2, LeavesWhole
  <2> QED  BY <1>2, <1>4, <2>1, <2>2 DEF CancelArrives
<1>5. CASE CloseReturns(r)
  <2>1. job[r].pc = "close" /\ Finishes(r, job[r].why) /\ job[r].why # "success"
    BY <1>0, <1>5 DEF CloseReturns, Jobs
  <2>2. wire[r] \in {Nothing} \cup Opened
    BY <2>1 DEF Whole, Enveloped
  <2> QED  BY <1>0, <2>1, <2>2, FinishesWhole
<1>6. CASE Finalised(r)
  <2>1. /\ job'[r] = [job[r] EXCEPT !.left = FALSE] /\ job[r].left
        /\ stream'[r] = (IF stream[r] = "open" THEN "closed" ELSE stream[r])
        /\ metrics'[r] = "cancelled" /\ UNCHANGED <<mode, thread, wire>>
    BY <1>6 DEF Finalised, Put, Typed, TypeOK
  <2>2. /\ job'[r].pc = job[r].pc /\ job'[r].todo = job[r].todo /\ job'[r].then = job[r].then
        /\ job'[r].flowing = job[r].flowing /\ job'[r].late = job[r].late /\ ~job'[r].left
    BY <1>0, <2>1 DEF Jobs
  <2>3. job[r].pc = "done"
    BY <2>1 DEF Whole, Held
  <2>4. thread[r] \notin {"reading", "chunk", "eof", "error"}
    BY <2>3 DEF Whole, Held
  <2>5. Held(r)'
    BY <2>1, <2>2, <2>3 DEF Whole, Held
  <2>6. Truthful(r)'
    BY <2>1, <2>2, <2>3, <2>4 DEF Whole, Truthful
  <2>7. Enveloped(r)'
    BY <2>1, <2>2, <2>3 DEF Whole, Enveloped
  <2> QED  BY <2>5, <2>6, <2>7 DEF Whole
<1>7. CASE AnswerWritten(r)
  <2>1. /\ job'[r] = [job[r] EXCEPT !.pc = "done"] /\ job[r].pc = "answer"
        /\ wire'[r] \in {wire[r], Append(wire[r], "error")}
        /\ UNCHANGED <<mode, stream, thread, metrics>>
    BY <1>7 DEF AnswerWritten, Put, Typed, TypeOK
  <2>2. /\ job'[r].pc = "done" /\ job'[r].todo = job[r].todo /\ job'[r].then = job[r].then
        /\ job'[r].flowing = job[r].flowing /\ job'[r].late = job[r].late
        /\ job'[r].left = job[r].left
    BY <1>0, <2>1 DEF Jobs
  <2>3. wire[r] \in {Nothing} \cup Opened
    BY <2>1 DEF Whole, Enveloped
  <2>4. \A w \in {Nothing} \cup Opened : Append(w, "error") \in Failed
    BY AppendOne, AppendTwo, AppendThree, Zenon DEF Nothing, Opened, S, SC, Failed
  <2>5. wire'[r] \in {Nothing} \cup Opened \cup Failed
    BY <2>1, <2>3, <2>4
  <2>6. \A i \in DOMAIN wire'[r] : wire'[r][i] # "stop"
    BY <2>5, RunsStop
  <2>7. Held(r)'
    BY <2>1, <2>2 DEF Whole, Held
  <2>8. Truthful(r)'
    BY <2>1, <2>2, <2>6 DEF Whole, Truthful
  <2>9. Enveloped(r)'
    BY <2>1, <2>2, <2>5 DEF Whole, Enveloped
  <2> QED  BY <2>7, <2>8, <2>9 DEF Whole
<1> QED  BY <1>1, <1>3, <1>4, <1>5, <1>6, <1>7

LEMMA OthersWhole ==
    ASSUME Typed, NEW r \in Requests, Whole(r),
           ThreadReturns(r) \/ DeadlinePasses(r) \/ CancelRequested(r) \/ ClientLeaves(r)
    PROVE  Whole(r)'
<1>0. job[r] \in Jobs
  BY DEF Typed, TypeOK
<1>1. CASE ThreadReturns(r)
  <2>1. CASE thread[r] = "reading"
    <3>1. /\ thread'[r] \in {"chunk", "eof", "error"}
          /\ stream'[r] = CASE thread'[r] = "chunk" -> "open"
                            [] thread'[r] = "eof" -> "drained" [] OTHER -> "closed"
          /\ UNCHANGED <<mode, job, metrics, wire>>
      BY <1>1, <2>1 DEF ThreadReturns, Put, Typed, TypeOK
    <3>2. job[r].pc \in {"read", "close"} /\ stream[r] = "open" /\ mode # "buffered" /\ ~job[r].left
      BY <2>1 DEF Whole, Held
    <3>3. Held(r)'
      BY <3>1, <3>2 DEF Whole, Held
    <3>4. Truthful(r)'
      BY <3>1, <3>2 DEF Whole, Truthful
    <3>5. Enveloped(r)'
      BY <3>1 DEF Whole, Enveloped
    <3> QED  BY <3>3, <3>4, <3>5 DEF Whole
  <2>2. CASE thread[r] = "posting"
    <3>1. /\ thread'[r] \in {"posted", "failed"} /\ UNCHANGED <<mode, job, stream, wire>>
      BY <1>1, <2>2 DEF ThreadReturns, Put, Typed, TypeOK
    <3>2. mode = "buffered"
      BY <2>2 DEF Whole, Held
    <3>3. Held(r)'
      BY <3>1, <3>2 DEF Whole, Held
    <3>4. Truthful(r)'
      BY <3>1, <3>2 DEF Whole, Truthful
    <3>5. Enveloped(r)'
      BY <3>1 DEF Whole, Enveloped
    <3> QED  BY <3>3, <3>4, <3>5 DEF Whole
  <2> QED  BY <1>1, <2>1, <2>2 DEF ThreadReturns
<1>2. CASE DeadlinePasses(r) \/ CancelRequested(r)
  <2>1. /\ job'[r].pc = job[r].pc /\ job'[r].todo = job[r].todo /\ job'[r].then = job[r].then
        /\ job'[r].flowing = job[r].flowing /\ job'[r].left = job[r].left
        /\ job'[r].late => job[r].late \/ job[r].pc \in {"connect", "sleep", "read", "write", "close"}
        /\ UNCHANGED <<mode, stream, thread, metrics, wire>>
    <3>1. CASE DeadlinePasses(r)
      <4>1. job'[r] = [job[r] EXCEPT !.late = TRUE]
        BY <3>1 DEF DeadlinePasses, Put, Typed, TypeOK
      <4> QED  BY <1>0, <3>1, <4>1 DEF DeadlinePasses, Jobs
    <3>2. CASE CancelRequested(r)
      <4>1. job'[r] = [job[r] EXCEPT !.cancel = TRUE]
        BY <3>2 DEF CancelRequested, Put, Typed, TypeOK
      <4> QED  BY <1>0, <3>2, <4>1 DEF CancelRequested, Jobs
    <3> QED  BY <1>2, <3>1, <3>2
  <2>2. Held(r)'
    BY <2>1 DEF Whole, Held
  <2>3. Truthful(r)'
    BY <2>1 DEF Whole, Truthful
  <2>4. Enveloped(r)'
    BY <2>1 DEF Whole, Enveloped, Owed
  <2> QED  BY <2>2, <2>3, <2>4 DEF Whole
<1>3. CASE ClientLeaves(r)
  BY <1>3 DEF ClientLeaves, Whole, Held, Truthful, Enveloped
<1> QED  BY <1>1, <1>2, <1>3

\* A step of r is a step of nobody else.
Apart(r) ==
    /\ mode' = mode
    /\ \A s \in Requests \ {r} :
          /\ job'[s] = job[s] /\ stream'[s] = stream[s] /\ thread'[s] = thread[s]
          /\ metrics'[s] = metrics[s] /\ wire'[s] = wire[s]

LEMMA ProceedsApart ==
    ASSUME TypeOK, NEW r \in Requests, NEW j, Proceeds(r, j), mode' = mode
    PROVE  Apart(r)
<1>1. CASE Yields(r, j)
  BY <1>1 DEF Yields, Put, TypeOK, Apart
<1>2. CASE Reads(r, j)
  BY <1>2 DEF Reads, Finishes, Ends, Put, TypeOK, Apart
<1>3. ASSUME NEW why, Finishes(r, why) PROVE Apart(r)
  BY <1>3 DEF Finishes, Ends, Put, TypeOK, Apart
<1> QED  BY <1>1, <1>2, <1>3 DEF Proceeds

LEMMA TurnsApart ==
    ASSUME TypeOK, NEW r \in Requests,
           Ask(r) \/ Refused(r) \/ Turn(r) \/ ReadTimesOut(r) \/ WriteFails(r)
           \/ ThreadReturns(r) \/ DeadlinePasses(r) \/ CancelRequested(r) \/ ClientLeaves(r)
    PROVE  Apart(r)
<1>1. CASE Ask(r)
  BY <1>1 DEF Ask, Put, TypeOK, Apart
<1>2. CASE Refused(r)
  BY <1>2 DEF Refused, Ends, Put, TypeOK, Apart
<1>3. CASE Starts(r)
  BY <1>3 DEF Starts, Put, TypeOK, Apart
<1>4. CASE StreamOpens(r)
  BY <1>4 DEF StreamOpens, Finishes, Ends, Put, TypeOK, Apart
<1>5. CASE BackendBusy(r) \/ ConnectFails(r)
  BY <1>5 DEF BackendBusy, ConnectFails, Finishes, Ends, Put, TypeOK, Apart
<1>6. CASE SleepEnds(r)
  BY <1>6 DEF SleepEnds, Ends, Put, TypeOK, Apart
<1>7. CASE ReadReturns(r)
  <2>1. CASE ChunkArrives(r)
    BY <1>7, <2>1, ChunkIsFed, ProceedsApart DEF ReadReturns
  <2>2. CASE StreamEnds(r)
    BY <1>7, <2>2, StreamIsEnded, ProceedsApart DEF ReadReturns
  <2>3. CASE Finishes(r, "backend")
    BY <1>7, <2>3 DEF ReadReturns, Finishes, Ends, Put, TypeOK, Apart
  <2> QED  BY <1>7, <2>1, <2>2, <2>3 DEF ReadReturns
<1>8. CASE PostReturns(r)
  <2>1. CASE \E k \in 0..1 : Proceeds(r, Posted(job[r], k))
    BY <1>8, <2>1, ProceedsApart DEF PostReturns
  <2>2. CASE \E why \in {"busy", "backend", "timeout", "reset", "invalid"} :
                 Ends(r, why) /\ UNCHANGED <<stream, thread, metrics, wire>>
    BY <1>8, <2>2 DEF PostReturns, Ends, Put, TypeOK, Apart
  <2> QED  BY <1>8, <2>1, <2>2 DEF PostReturns, Posted
<1>9. CASE WriteCompletes(r)
  BY <1>9, ProceedsApart DEF WriteCompletes
<1>10. CASE WriteFails(r)
  BY <1>10 DEF WriteFails, Abandons, Put, TypeOK, Apart
<1>11. CASE ReadTimesOut(r)
  BY <1>11 DEF ReadTimesOut, Leaves, Finishes, Ends, Put, TypeOK, Apart
<1>12. CASE CancelArrives(r)
  BY <1>12 DEF CancelArrives, Abandons, Leaves, Finishes, Ends, Put, TypeOK, Apart
<1>13. CASE CloseReturns(r)
  BY <1>13 DEF CloseReturns, Finishes, Ends, Put, TypeOK, Apart
<1>14. CASE Finalised(r) \/ AnswerWritten(r)
  BY <1>14 DEF Finalised, AnswerWritten, Put, TypeOK, Apart
<1>15. CASE ThreadReturns(r)
  BY <1>15 DEF ThreadReturns, Put, TypeOK, Apart
<1>16. CASE DeadlinePasses(r) \/ CancelRequested(r) \/ ClientLeaves(r)
  BY <1>16 DEF DeadlinePasses, CancelRequested, ClientLeaves, Put, TypeOK, Apart
<1> QED  BY <1>1, <1>2, <1>3, <1>4, <1>5, <1>6, <1>7, <1>8, <1>9, <1>10, <1>11, <1>12, <1>13,
            <1>14, <1>15, <1>16 DEF Turn, Connects

LEMMA WholeStays ==
    ASSUME NEW r \in Requests, Apart(r), NEW s \in Requests \ {r}, Whole(s)
    PROVE  Whole(s)'
<1>1. /\ mode' = mode /\ job'[s] = job[s] /\ stream'[s] = stream[s] /\ thread'[s] = thread[s]
      /\ metrics'[s] = metrics[s] /\ wire'[s] = wire[s]
  BY DEF Apart
<1>2. Held(s)'
  BY <1>1 DEF Whole, Held
<1>3. Truthful(s)'
  BY <1>1 DEF Whole, Truthful
<1>4. Enveloped(s)'
  BY <1>1 DEF Whole, Enveloped, Owed
<1> QED  BY <1>2, <1>3, <1>4 DEF Whole

LEMMA InvInit == Init => Inv
<1> SUFFICES ASSUME Init PROVE Inv
  OBVIOUS
<1>1. Typed
  BY InitTyped
<1>2. ASSUME NEW r \in Requests PROVE Whole(r)
  <2>1. /\ job[r].pc = "new" /\ job[r].todo = Nothing /\ job[r].then = "read" /\ ~job[r].flowing
        /\ ~job[r].late /\ ~job[r].left /\ stream[r] = "none" /\ thread[r] = "none"
        /\ metrics[r] = "none" /\ wire[r] = Nothing
    BY DEF Init, Fresh, Nothing
  <2>2. \A i \in DOMAIN wire[r] : wire[r][i] # "stop"
    BY <2>1, RunsStop
  <2>3. Held(r)
    BY <2>1 DEF Held
  <2>4. Truthful(r)
    BY <2>1, <2>2 DEF Truthful
  <2>5. Enveloped(r)
    BY <2>1 DEF Enveloped
  <2> QED  BY <2>3, <2>4, <2>5 DEF Whole
<1> QED  BY <1>1, <1>2 DEF Inv

LEMMA InvStep == Inv /\ [Next]_vars => Inv'
<1> SUFFICES ASSUME Inv, [Next]_vars PROVE Inv'
  OBVIOUS
<1>1. Typed'
  BY StepTyped DEF Inv
<1>2. CASE UNCHANGED vars
  BY <1>1, <1>2 DEF vars, Inv, Whole, Held, Truthful, Enveloped
<1>3. ASSUME NEW r \in Requests,
             Ask(r) \/ Refused(r) \/ Turn(r) \/ ReadTimesOut(r) \/ WriteFails(r)
             \/ ThreadReturns(r) \/ DeadlinePasses(r) \/ CancelRequested(r) \/ ClientLeaves(r)
      PROVE  Inv'
  <2>1. Whole(r)'
    BY <1>3, ConnectingWhole, ReadingWhole, EndingWhole, OthersWhole DEF Inv, Turn, Connects
  <2>2. Apart(r)
    BY <1>3, TurnsApart DEF Inv, Typed
  <2>3. \A s \in Requests \ {r} : Whole(s)'
    BY <2>2, WholeStays DEF Inv
  <2>4. \A s \in Requests : Whole(s)'
    BY <2>1, <2>3
  <2> QED  BY <1>1, <2>4 DEF Inv
<1> QED  BY <1>2, <1>3 DEF Next

LEMMA Invariant == Spec => []Inv
BY InvInit, InvStep, PTL DEF Spec

-----------------------------------------------------------------------------
(* The properties.                                                         *)

\* At most one envelope and one terminal event reach a client, for any number
\* of attempts and of transport chunks.
THEOREM OneAnswerHolds == Spec => []OneAnswer
<1>1. ASSUME Inv PROVE OneAnswer
  <2>1. ASSUME NEW r \in Requests PROVE wire[r] \in {<<>>} \cup Opened \cup Stopped \cup Failed
    BY <1>1 DEF Inv, Whole, Enveloped, Nothing
  <2>2. /\ <<"start">> \o <<"stop">> = SP /\ <<"start", "chunk">> \o <<"stop">> = SCP
        /\ <<"start">> \o <<"error">> = <<"start", "error">>
        /\ <<"start", "chunk">> \o <<"error">> = <<"start", "chunk", "error">>
    BY ConcatTwo, ConcatThree, Zenon DEF SP, SCP
  <2>3. Stopped \cup Failed \subseteq
            {<<"error">>} \cup {w \o <<e>> : w \in {<<"start">>, <<"start", "chunk">>}, e \in {"stop", "error"}}
    BY <2>2 DEF Stopped, Failed
  <2>4. Opened = {<<"start">>, <<"start", "chunk">>}
    BY DEF Opened, S, SC
  <2> QED  BY <2>1, <2>3, <2>4 DEF OneAnswer
<1> QED  BY <1>1, Invariant, PTL

\* AudioStop and a recorded success mean that the backend's stream ended by
\* itself: no timeout and no cancellation passes for an end of stream.
THEOREM NoFalseSuccessHolds == Spec => []NoFalseSuccess
<1>1. Inv => NoFalseSuccess
  BY DEF Inv, Whole, Truthful, NoFalseSuccess
<1> QED  BY <1>1, Invariant, PTL

\* A request that is over has its response closed and its thread back.
THEOREM StreamsReleasedHolds == Spec => []StreamsReleased
<1>1. Inv => StreamsReleased
  BY DEF Inv, Whole, Held, StreamsReleased
<1> QED  BY <1>1, Invariant, PTL

\* One stream is read at a time, for any number of requests: whoever's stream
\* is read is at the head of the line.
THEOREM OneReaderHolds == Spec => []OneReader
<1>1. ASSUME Inv PROVE OneReader
  <2>1. ASSUME NEW r \in Requests, thread[r] = "reading" PROVE line[1] = r
    BY <1>1, <2>1 DEF Inv, Typed, Lined, Whole, Held, Working
  <2> QED  BY <2>1 DEF OneReader
<1> QED  BY <1>1, Invariant, PTL

\* What the generator does next, if its deadline has passed.
LEMMA ProceedsInTime ==
    ASSUME TypeOK, NEW r \in Requests, NEW j \in Jobs, j.late, Proceeds(r, j)
    PROVE  job'[r].pc # "connect" /\ thread'[r] # "reading"
<1>1. ASSUME NEW why, Finishes(r, why) PROVE job'[r].pc # "connect" /\ thread'[r] # "reading"
  BY <1>1 DEF Finishes, Ends, Put, Fresh, TypeOK
<1>2. CASE Yields(r, j)
  <2>1. job'[r] = [j EXCEPT !.pc = "write", !.todo = Tail(j.todo)] /\ thread'[r] = "none"
    BY <1>2 DEF Yields, Put, TypeOK
  <2> QED  BY <2>1 DEF Jobs
<1> QED  BY <1>1, <1>2 DEF Proceeds, Reads

\* No attempt and no read begins after the deadline of its request.
THEOREM NothingBegunLateHolds == Spec => NothingBegunLate
<1> DEFINE InTime(r) ==
        job[r].late => /\ job'[r].pc = "connect" => job[r].pc = "connect"
                       /\ thread'[r] = "reading" => thread[r] = "reading"
<1>1. ASSUME Inv, [Next]_vars, NEW r \in Requests PROVE InTime(r)
  <2>0. TypeOK /\ job[r] \in Jobs /\ Whole(r)
    BY <1>1 DEF Inv, Typed, TypeOK
  <2>1. CASE UNCHANGED vars
    BY <2>1 DEF vars
  <2>2. ASSUME NEW s \in Requests \ {r}, Apart(s) PROVE InTime(r)
    BY <2>2 DEF Apart
  <2>3. ASSUME job[r].late,
               Ask(r) \/ Refused(r) \/ Turn(r) \/ ReadTimesOut(r) \/ WriteFails(r)
               \/ ThreadReturns(r) \/ DeadlinePasses(r) \/ CancelRequested(r) \/ ClientLeaves(r)
        PROVE  /\ job'[r].pc = "connect" => job[r].pc = "connect"
               /\ thread'[r] = "reading" => thread[r] = "reading"
    <3>1. ASSUME NEW why, Ends(r, why) PROVE job'[r].pc # "connect"
      BY <2>0, <3>1 DEF Ends, Put, Fresh, TypeOK
    <3>2. ASSUME NEW why, Finishes(r, why)
          PROVE  job'[r].pc # "connect" /\ thread'[r] # "reading"
      BY <2>0, <3>2 DEF Finishes, Ends, Put, Fresh, TypeOK
    <3>3. job[r].pc \in {"connect", "sleep", "read", "write", "close"}
      BY <2>0, <2>3 DEF Whole, Held
    <3>4. CASE Ask(r) \/ Refused(r) \/ Starts(r) \/ PostReturns(r)
      BY <3>3, <3>4 DEF Ask, Refused, Starts, PostReturns, At
    <3>5. CASE StreamOpens(r)
      BY <2>3, <3>2, <3>5 DEF StreamOpens
    <3>6. CASE BackendBusy(r) \/ ConnectFails(r)
      BY <3>2, <3>6 DEF BackendBusy, ConnectFails
    <3>7. CASE SleepEnds(r)
      BY <2>3, <3>1, <3>7 DEF SleepEnds
    <3>8. CASE ReadReturns(r)
      <4>1. CASE ChunkArrives(r)
        <5>1. PICK k \in 0..1, enough \in BOOLEAN : Proceeds(r, Fed(job[r], k, enough))
          BY <4>1, ChunkIsFed
        <5>2. Fed(job[r], k, enough) \in Jobs
          BY <2>0, GoesOnTyped
        <5>3. Fed(job[r], k, enough).late
          BY <2>0, <2>3 DEF Fed, Jobs
        <5> QED  BY <2>0, <5>1, <5>2, <5>3, ProceedsInTime
      <4>2. CASE StreamEnds(r)
        <5>1. PICK k \in 0..1, whole \in BOOLEAN : Proceeds(r, Ended(job[r], k, whole))
          BY <4>2, StreamIsEnded
        <5>2. Ended(job[r], k, whole) \in Jobs
          BY <2>0, GoesOnTyped
        <5>3. Ended(job[r], k, whole).late
          BY <2>0, <2>3 DEF Ended, Jobs
        <5> QED  BY <2>0, <5>1, <5>2, <5>3, ProceedsInTime
      <4> QED  BY <3>2, <3>8, <4>1, <4>2 DEF ReadReturns
    <3>9. CASE WriteCompletes(r)
      BY <2>0, <2>3, <3>9, ProceedsInTime DEF WriteCompletes
    <3>10. CASE \E why : Leaves(r, why)
      <4>1. PICK why : Leaves(r, why)
        BY <3>10
      <4>2. CASE thread[r] = "reading"
        <5>1. job'[r] = [job[r] EXCEPT !.pc = "close", !.why = why] /\ thread' = thread
          BY <2>0, <4>1, <4>2 DEF Leaves, Put, TypeOK
        <5> QED  BY <2>0, <4>2, <5>1 DEF Jobs
      <4>3. CASE thread[r] # "reading"
        BY <3>2, <4>1, <4>3 DEF Leaves
      <4> QED  BY <4>2, <4>3
    <3>11. CASE Abandons(r)
      BY <2>0, <3>11 DEF Abandons, Put, Fresh, TypeOK
    <3>12. CASE ReadTimesOut(r) \/ WriteFails(r) \/ CancelArrives(r)
      BY <3>1, <3>10, <3>11, <3>12 DEF ReadTimesOut, WriteFails, CancelArrives
    <3>13. CASE CloseReturns(r) \/ Finalised(r) \/ AnswerWritten(r)
      <4>1. ~job[r].left /\ job[r].pc # "answer"
        BY <2>0, <3>3 DEF Whole, Held
      <4> QED  BY <3>2, <3>13, <4>1 DEF CloseReturns, Finalised, AnswerWritten
    <3>14. CASE ThreadReturns(r)
      BY <2>0, <3>14 DEF ThreadReturns, Put, TypeOK
    <3>15. CASE DeadlinePasses(r) \/ CancelRequested(r) \/ ClientLeaves(r)
      BY <2>0, <2>3, <3>15 DEF DeadlinePasses, CancelRequested, ClientLeaves, Put, TypeOK, Jobs
    <3> QED  BY <2>3, <3>4, <3>5, <3>6, <3>7, <3>8, <3>9, <3>12, <3>13, <3>14, <3>15 DEF Turn, Connects
  <2> QED  BY <1>1, <2>0, <2>1, <2>2, <2>3, TurnsApart DEF Next
<1>2. Inv /\ [Next]_vars =>
          [\A r \in Requests :
              job[r].late => /\ job'[r].pc = "connect" => job[r].pc = "connect"
                             /\ thread'[r] = "reading" => thread[r] = "reading"]_vars
  BY <1>1
<1> QED  BY <1>2, Invariant, PTL DEF Spec, NothingBegunLate

=============================================================================
