------------------------------ MODULE AdminHttp ------------------------------
(***************************************************************************)
(* The read-only admin HTTP server (app/admin_http.py): one request and    *)
(* one answer per connection, read with a deadline under size limits, and  *)
(* the stop that waits for the connections still open.                     *)
(*                                                                         *)
(* A client sends the lines of its request one by one and may stop after   *)
(* any of them; how the bytes of a line arrive is left out, since the      *)
(* server reads them one at a time up to the line's end.  The size of a    *)
(* line counts its CRLF.  The deadline is a step that may come at any time *)
(* while a request is being read.                                          *)
(***************************************************************************)
EXTENDS Integers, Sequences, FiniteSets

CONSTANTS Conns,      \* client connections
          Requests,   \* connection -> what its client may set out to send: sequences of lines
          HeaderMax,  \* admin_http_max_header_size
          BodyMax     \* admin_http_max_body_size

ASSUME AdminAssumption == HeaderMax \in Nat \ {0} /\ BodyMax \in Nat

NoLength == -2        \* no Content-Length header yet
BadLength == -3       \* a Content-Length that is not a number: refused like a negative one

(* A client sends a request line and whatever it likes behind it; any      *)
(* negative Content-Length stands as -1.                                   *)
IsRequest(r) ==
    /\ Len(r) \in Nat \ {0} /\ r[1].name = "request"
    /\ \A i \in 1 .. Len(r) :
          /\ r[i].size \in Nat
          /\ r[i].name = "length" => r[i].value \in Nat \cup {-1, BadLength}

ASSUME RequestsAssumption == \A c \in Conns : \A r \in Requests[c] : IsRequest(r)

VARIABLES conn,       \* connection -> its request, the parser's state, its answer
          listener,   \* "open", "stopping", "stopped"
          lifecycle   \* the service's state, as far as /readyz tells it

vars == <<conn, listener, lifecycle>>

Reading == {"line", "headers", "body"}

Absent == [phase |-> "absent", sends |-> <<>>, arrived |-> 0, eof |-> FALSE,
           read |-> 0, total |-> 0, length |-> NoLength, body |-> 0,
           answer |-> <<>>]

(* What is left of a connection: nothing. *)
Closed == [Absent EXCEPT !.phase = "closed"]

Init == /\ conn = [c \in Conns |-> Absent]
        /\ listener = "open"
        /\ lifecycle = "starting"

-----------------------------------------------------------------------------
(* The answers *)

(* _route: anything but GET is refused, /readyz alone looks at the service. *)
Routed(line) ==
    IF line.method # "GET" THEN 405
    ELSE CASE line.path \in {"livez", "status", "metrics"} -> 200
           [] line.path = "readyz" -> IF lifecycle = "running" THEN 200 ELSE 503
           [] OTHER -> 404

(* One response is written, and the connection is closed behind it. *)
Answer(k, status) ==
    [k EXCEPT !.phase = "closing", !.answer = Append(@, status)]

Goes(c, k) == conn' = [conn EXCEPT ![c] = k] /\ UNCHANGED <<listener, lifecycle>>

-----------------------------------------------------------------------------
(* The parser *)

(* After the blank line: the length is checked, and a request that has no  *)
(* body is answered at once.                                               *)
HeadersEnd(k) ==
    CASE k.length \in {NoLength, 0}           -> Answer(k, Routed(k.sends[1]))
      [] k.length < 0 /\ k.length # NoLength  -> Answer(k, 400)
      [] k.length > BodyMax                   -> Answer(k, 413)
      [] OTHER                                -> [k EXCEPT !.phase = "body"]

(* A defect: the last Content-Length wins. *)
RejectedLastWins(k, l) ==
    l.name = "none" \/ (l.name = "encoding" /\ l.value # "identity")

(* A repeated Content-Length must repeat its value, and the only transfer  *)
(* encoding is identity.                                                   *)
Rejected(k, l) ==
    \/ l.name = "none"
    \/ l.name = "length" /\ k.length # NoLength /\ l.value # k.length
    \/ l.name = "encoding" /\ l.value # "identity"

(* The budget covers the request line and the headers together; spent     *)
(* before the blank line, it refuses the request without another read.     *)
HeaderRead(k, l) ==
    LET total == k.total + l.size
        next  == [k EXCEPT !.total = total,
                           !.length = IF l.name = "length" THEN l.value ELSE @]
    IN  CASE total > HeaderMax -> Answer(k, 431)
          [] total <= HeaderMax /\ l.name = "end" -> HeadersEnd(next)
          [] total <= HeaderMax /\ Rejected(k, l) -> Answer(k, 400)
          [] OTHER -> IF total = HeaderMax THEN Answer(next, 431) ELSE next

LineRead(k, l) ==
    CASE l.size > HeaderMax -> Answer(k, 431)
      [] l.size <= HeaderMax /\ ~l.wellFormed -> Answer(k, 400)
      [] l.size = HeaderMax /\ l.wellFormed -> Answer(k, 431)
      [] OTHER -> [k EXCEPT !.phase = "headers", !.total = l.size]

BodyRead(k) ==
    IF k.body + 1 = k.length THEN Answer([k EXCEPT !.body = @ + 1], Routed(k.sends[1]))
                             ELSE [k EXCEPT !.body = @ + 1]


Parsed(k, l) == CASE k.phase = "line"    -> LineRead(k, l)
                  [] k.phase = "headers" -> HeaderRead(k, l)
                  [] k.phase = "body"    -> BodyRead(k)

(* One awaited read that brings the next line or body byte. *)
Reads(c) ==
    /\ conn[c].phase \in Reading
    /\ conn[c].read < conn[c].arrived
    /\ LET k == [conn[c] EXCEPT !.read = @ + 1]
       IN  Goes(c, Parsed(k, k.sends[k.read]))

(* A defect: a deadline restarted by every read leaves a silent body open. *)
TimesOutInHeadersOnly(c) ==
    /\ conn[c].phase \in Reading \ {"body"}
    /\ Goes(c, Answer(conn[c], 408))

(* The deadline is the same for all reads of a request. *)
TimesOut(c) ==
    /\ conn[c].phase \in Reading
    /\ Goes(c, Answer(conn[c], 408))

EndsEarly(c) ==
    /\ conn[c].phase \in Reading
    /\ conn[c].eof
    /\ conn[c].read = conn[c].arrived
    /\ Goes(c, Answer(conn[c], 400))

(* writer.close and wait_closed: the answer reaches the client. *)
Closes(c) ==
    /\ conn[c].phase = "closing"
    /\ Goes(c, Closed)

-----------------------------------------------------------------------------
(* The clients and the service around the server *)

Connects(c) ==
    /\ listener = "open"
    /\ conn[c].phase = "absent"
    /\ \E r \in Requests[c] : Goes(c, [Absent EXCEPT !.phase = "line", !.sends = r])

Sends(c) ==
    /\ conn[c].phase \in Reading
    /\ ~conn[c].eof
    /\ conn[c].arrived < Len(conn[c].sends)
    /\ Goes(c, [conn[c] EXCEPT !.arrived = @ + 1])

HangsUp(c) ==
    /\ conn[c].phase \in Reading
    /\ ~conn[c].eof
    /\ Goes(c, [conn[c] EXCEPT !.eof = TRUE])

(* A reset is not a parse error: the handler ends without an answer. *)
Resets(c) ==
    /\ conn[c].phase \in Reading
    /\ Goes(c, Closed)

LifecycleMoves ==
    /\ \/ lifecycle = "starting" /\ lifecycle' = "running"
       \/ lifecycle = "running" /\ lifecycle' = "draining"
    /\ UNCHANGED <<conn, listener>>

-----------------------------------------------------------------------------
(* start and stop *)

(* stop closes the listener and waits for the connections: its loop over   *)
(* the tasks to cancel comes after that wait.                              *)
Stop ==
    /\ listener = "open"
    /\ listener' = "stopping"
    /\ UNCHANGED <<conn, lifecycle>>

(* A defect: connections that ended are never taken off the list. *)
NoneEver == \A c \in Conns : conn[c].phase = "absent"

NoneOpen == \A c \in Conns : conn[c].phase \in {"absent", "closed"}

StopReturns ==
    /\ listener = "stopping"
    /\ NoneOpen
    /\ listener' = "stopped"
    /\ UNCHANGED <<conn, lifecycle>>

Serve(c) == Reads(c) \/ EndsEarly(c) \/ Closes(c)

Next == \/ \E c \in Conns : Serve(c)
        \/ \E c \in Conns : TimesOut(c)
        \/ \E c \in Conns : Connects(c)
        \/ \E c \in Conns : Sends(c)
        \/ \E c \in Conns : HangsUp(c)
        \/ \E c \in Conns : Resets(c)
        \/ LifecycleMoves
        \/ Stop
        \/ StopReturns

Spec == Init /\ [][Next]_vars

(* A ready handler runs, the clock moves on, and a client takes its answer. *)
Fairness == /\ \A c \in Conns : WF_vars(Serve(c)) /\ WF_vars(TimesOut(c))
            /\ WF_vars(StopReturns)

FairSpec == Spec /\ Fairness

-----------------------------------------------------------------------------
(* What a request deserves, judged by the lines read of it *)

(* The lines of the head among the first n, and their size. *)
InHead(r, i) == \A j \in 1 .. i - 1 : r[j].name # "end"
HeadOf(r, n) == { i \in 1 .. n : InHead(r, i) }
HeadSize(r, n) ==
    LET size[i \in 0 .. n] ==
            IF i = 0 THEN 0 ELSE size[i - 1] + (IF InHead(r, i) THEN r[i].size ELSE 0)
    IN  size[n]
HeadComplete(r, n) == \E i \in HeadOf(r, n) : r[i].name = "end"
Lengths(r, n) == { r[i].value : i \in { j \in HeadOf(r, n) : r[j].name = "length" } }

TooLarge(r, n) == \/ HeadSize(r, n) > HeaderMax
                  \/ HeadSize(r, n) = HeaderMax /\ ~HeadComplete(r, n)

Malformed(r, n) ==
    \/ ~r[1].wellFormed
    \/ \E v, w \in Lengths(r, n) : v # w
    \/ \E i \in HeadOf(r, n) :
          r[i].name = "none" \/ (r[i].name = "encoding" /\ r[i].value # "identity")

(* The routed answers a request line may have. *)
Routes(l) == CASE l.method # "GET" -> {405}
               [] l.method = "GET" /\ l.path = "readyz" -> {200, 503}
               [] l.method = "GET" /\ l.path \in {"livez", "status", "metrics"} -> {200}
               [] OTHER -> {404}

Unfinished(k) == {408} \cup (IF k.eof THEN {400} ELSE {})

Deserved(k) ==
    LET r == k.sends
        n == k.read
        bodyRead == n - Cardinality(HeadOf(r, n))
        length == IF Lengths(r, n) = {} THEN 0 ELSE CHOOSE v \in Lengths(r, n) : TRUE
    IN  CASE n = 0 -> Unfinished(k)
          [] n > 0 /\ Malformed(r, n) /\ TooLarge(r, n) -> {400, 431}
          [] n > 0 /\ Malformed(r, n) /\ ~TooLarge(r, n) -> {400}
          [] n > 0 /\ ~Malformed(r, n) /\ TooLarge(r, n) -> {431}
          [] n > 0 /\ ~Malformed(r, n) /\ ~TooLarge(r, n) /\ ~HeadComplete(r, n) -> Unfinished(k)
          [] OTHER -> CASE length < 0 -> {400}
                        [] length > BodyMax -> {413}
                        [] length \in 0 .. BodyMax /\ bodyRead < length ->
                             Unfinished(k)
                        [] OTHER -> Routes(r[1])

-----------------------------------------------------------------------------
(* Properties *)

(* A connection gets at most one answer, and it is the one its request      *)
(* deserves however its lines arrive, where the client stops and when the   *)
(* deadline comes: a timeout or an early end only while something is        *)
(* missing, a size verdict only past the budget of all head lines together, *)
(* and a route only for a whole request with one length                     *)
(* (admin_http.py parse_http_request, _handle_connection).                  *)
AnswerDeserved ==
    \A c \in Conns :
        /\ Len(conn[c].answer) <= 1
        /\ \A i \in DOMAIN conn[c].answer : conn[c].answer[i] \in Deserved(conn[c])

(* Every connection is closed in the end, also one whose client sends       *)
(* nothing more and keeps it open: the deadline covers every read           *)
(* (admin_http.py _read_until, the body loop).                              *)
EveryConnectionEnds ==
    \A c \in Conns : conn[c].phase \in Reading ~> conn[c].phase = "closed"

(* A stop of the server returns, with connections open when it begins       *)
(* (admin_http.py stop).                                                    *)
StopEnds == listener = "stopping" ~> listener = "stopped"
=============================================================================
