--------------------------- MODULE SpeechScheduler ---------------------------
(***************************************************************************)
(* app/speech/scheduler.py: the bounded FIFO gate in front of the single   *)
(* synthesis worker, with its drain/shutdown protocol and the cumulative   *)
(* outcome counters of app/counters.py.                                    *)
(*                                                                         *)
(* One call of SpeechScheduler.run is one element of Requests.  The        *)
(* scheduler's asyncio.Lock is never held across a suspension, so every    *)
(* stretch of a coroutine between two real awaits is one action.  What can *)
(* happen between two awaits of one task is any action of another task, of *)
(* the wait_for timer or of a caller that cancels: a future resolved by    *)
(* one step is seen by the waiting task only at its own later Resume step. *)
(*                                                                         *)
(* _depth and _pending are always changed together; "depth" stands for     *)
(* both.                                                                   *)
(***************************************************************************)
EXTENDS Integers, Sequences, FiniteSets, Functions

CONSTANTS
    Requests,           \* the calls of run() made over the process's life
    Connections,        \* the Wyoming client connections
    ConnOf,             \* the connection_id of each request
    MaxSize,            \* max_size: capacity, the active request included
    Impatient,          \* requests whose wait can reach wait_timeout_sec
    Progressive,        \* requests run by a StreamingCoordinator's own task
    Finite,             \* requests whose operation is sure to end by itself
    CancelOnNewRequest, \* settings.cancel_on_new_request
    NoRequest           \* Python's None

ASSUME ConnectionsAssumption == ConnOf \in [Requests -> Connections]
ASSUME MaxSizeAssumption     == MaxSize \in Nat \ {0}
ASSUME RequestSetsAssumption == /\ Impatient \subseteq Requests
                                /\ Progressive \subseteq Requests
                                /\ Finite \subseteq Requests
ASSUME SettingsAssumption    == CancelOnNewRequest \in BOOLEAN
ASSUME NoRequestAssumption   == NoRequest \notin Requests

VARIABLES
    pc,             \* where the task that calls run() is suspended
    fut,            \* the waiter future of each request
    expired,        \* requests whose wait_for deadline has fired
    cancelReq,      \* requests whose task has been asked to cancel
    state,          \* entry.state
    reason,         \* entry.terminal_reason
    counted,        \* requests with entry.terminal_counted set
    result,         \* how run() ended
    activeEntry,    \* self._active_entry
    activeTask,     \* self._active_task, named by its request
    waiters,        \* self._waiters
    depth,          \* self._depth (= self._pending)
    events,         \* the asyncio.Events of the scheduler that are set
    drainRemaining, \* self._drain_remaining
    counters,       \* CumulativeCounters
    closed,         \* connections whose disconnect() has run
    shutdownPc,     \* where shutdown() is suspended
    shutdownTarget  \* task_to_cancel

requestVars  == <<pc, fut, expired, cancelReq, state, reason, counted, result>>
gateVars     == <<activeEntry, activeTask, waiters, depth>>
eventVars    == <<events, drainRemaining>>
shutdownVars == <<shutdownPc, shutdownTarget>>
vars == <<requestVars, gateVars, eventVars, counters, closed, shutdownVars>>

-----------------------------------------------------------------------------
(* Values.                                                                 *)

SpeechStates == {"CREATED", "WAITING", "ACTIVE", "COMPLETED", "CANCELLED",
                 "TIMED_OUT", "FAILED", "REJECTED"}

Reasons == {"none", "completed", "cancelled_while_active", "synthesis_timeout",
            "operation_failed", "queue_wait_timeout",
            "cancelled_while_waiting", "drain_cancelled"}

Results == {"none", "returned", "CancelledError", "TimeoutError", "OperationError",
            "QueueFullError", "QueueTimeoutError", "InvalidStateError"}

Events == {"drain", "drain_done", "active_complete", "quiescence"}

Draining == "drain" \in events

Tallies == {"admitted", "admission_rejected", "completed_success",
            "cancelled_queued", "cancelled_active", "timed_out", "failed"}

\* CumulativeCounters.record_terminal: the tally a terminal reason goes to.
TallyOf(why) ==
    CASE why = "completed" -> "completed_success"
      [] why \in {"cancelled_while_waiting", "drain_cancelled"} -> "cancelled_queued"
      [] why = "cancelled_while_active" -> "cancelled_active"
      [] why \in {"queue_wait_timeout", "synthesis_timeout"} -> "timed_out"
      [] OTHER -> "failed"

\* How an operation can end: what run() then records, and what it re-raises.
Endings ==
    { [outcome |-> "COMPLETED", why |-> "completed",              raises |-> "returned"],
      [outcome |-> "CANCELLED", why |-> "cancelled_while_active", raises |-> "CancelledError"],
      [outcome |-> "TIMED_OUT", why |-> "synthesis_timeout",      raises |-> "TimeoutError"],
      [outcome |-> "FAILED",    why |-> "operation_failed",       raises |-> "OperationError"] }

\* Requests that hold a unit of the capacity.
InFlight == {r \in Requests : pc[r] \in {"waiting", "operating"}}

\* Faulty: copies only up to the first element it drops.
KeepPrefix(s, T) ==
    SubSeq(s, 1, Cardinality({i \in DOMAIN s : \A j \in 1..i : s[j] \in T}))

\* The elements of s that are in T, in order: how the code filters its deque.
\* SelectSeq as a recursive function, which the provers can unfold.
Keep(s, T) ==
    LET kept[i \in 0..Len(s)] ==
            IF i = 0 THEN << >>
            ELSE IF s[i] \in T THEN Append(kept[i-1], s[i]) ELSE kept[i-1]
    IN  kept[Len(s)]

\* The futures of rs after fut.cancel(): a finished future is left alone.
CancelFutures(rs) ==
    [r \in Requests |-> IF r \in rs /\ fut[r] = "pending" THEN "cancelled" ELSE fut[r]]

\* Faulty: records the reason the entry had before this exit.
RecordStaleReason(r, why) ==
    /\ counted' = counted \cup {r}
    /\ counters' = IF r \in counted \/ reason[r] = "none" THEN counters
                   ELSE [counters EXCEPT ![TallyOf(reason[r])] = @ + 1]

\* _record_terminal_once: one outcome per entry.
RecordTerminalOnce(r, why) ==
    /\ counted' = counted \cup {r}
    /\ counters' = IF r \in counted \/ why = "none" THEN counters
                   ELSE [counters EXCEPT ![TallyOf(why)] = @ + 1]

-----------------------------------------------------------------------------
Init ==
    /\ pc = [r \in Requests |-> "idle"]
    /\ fut = [r \in Requests |-> "none"]
    /\ expired = {} /\ cancelReq = {} /\ counted = {} /\ closed = {}
    /\ state = [r \in Requests |-> "CREATED"]
    /\ reason = [r \in Requests |-> "none"]
    /\ result = [r \in Requests |-> "none"]
    /\ activeEntry = NoRequest /\ activeTask = NoRequest
    /\ waiters = <<>> /\ depth = 0
    /\ events = Events \ {"drain"} /\ drainRemaining = 0
    /\ counters = [t \in Tallies |-> 0]
    /\ shutdownPc = "idle" /\ shutdownTarget = NoRequest

-----------------------------------------------------------------------------
(* run(): admission.                                                       *)

\* A connection's handler, or its StreamingCoordinator, calls run() for one
\* request at a time and not after disconnect().
CanCall(r) ==
    /\ pc[r] = "idle"
    /\ ConnOf[r] \notin closed
    /\ \A q \in InFlight : ConnOf[q] # ConnOf[r]

\* Faulty: one request too many; and no refusal while draining.
AdmissionOverfull  == Draining \/ depth > MaxSize
AdmissionUngated   == depth >= MaxSize

AdmissionClosed == Draining \/ depth >= MaxSize

\* Faulty: looks at the task, which is None between a hand-over and the
\* resumption of the waiter.
WorkerTaskless == activeTask = NoRequest

WorkerFree == activeEntry = NoRequest

Reject(r) ==
    /\ CanCall(r)
    /\ AdmissionClosed
    /\ pc' = [pc EXCEPT ![r] = "done"]
    /\ result' = [result EXCEPT ![r] = "QueueFullError"]
    /\ counters' = [counters EXCEPT !["admission_rejected"] = @ + 1]
    /\ UNCHANGED <<fut, expired, cancelReq, state, reason, counted, gateVars,
                   eventVars, closed, shutdownVars>>

\* What every admission does under the lock.
Admit(r) ==
    /\ CanCall(r)
    /\ ~AdmissionClosed
    /\ depth' = depth + 1
    /\ counters' = [counters EXCEPT !["admitted"] = @ + 1]
    /\ UNCHANGED <<expired, cancelReq, reason, counted, result,
                   drainRemaining, closed, shutdownVars>>

\* No active entry: the caller becomes active and starts its operation.
AdmitActive(r) ==
    /\ Admit(r)
    /\ WorkerFree
    /\ pc' = [pc EXCEPT ![r] = "operating"]
    /\ state' = [state EXCEPT ![r] = "ACTIVE"]
    /\ activeEntry' = r
    /\ activeTask' = r
    /\ events' = events \ {"quiescence", "active_complete"}
    /\ UNCHANGED <<fut, waiters>>

\* Otherwise it queues a future and suspends in wait_for.
AdmitWaiting(r) ==
    /\ Admit(r)
    /\ ~WorkerFree
    /\ pc' = [pc EXCEPT ![r] = "waiting"]
    /\ state' = [state EXCEPT ![r] = "WAITING"]
    /\ fut' = [fut EXCEPT ![r] = "pending"]
    /\ waiters' = Append(waiters, r)
    /\ events' = events \ {"quiescence"}
    /\ UNCHANGED <<activeEntry, activeTask>>

-----------------------------------------------------------------------------
(* run(): the wait.  asyncio.timeout() and Task.cancel() cancel a pending  *)
(* future; on a finished one they make the task raise CancelledError when  *)
(* it resumes, so a hand-over that happened in between is lost.            *)

WaitTimeout(r) ==
    /\ pc[r] = "waiting" /\ r \in Impatient \ expired
    /\ expired' = expired \cup {r}
    /\ fut' = CancelFutures({r})
    /\ UNCHANGED <<pc, cancelReq, state, reason, counted, result, gateVars,
                   eventVars, counters, closed, shutdownVars>>

Interrupted(r) == fut[r] = "cancelled" \/ r \in expired \cup cancelReq

Resume(r) ==
    /\ pc[r] = "waiting" /\ fut[r] = "resolved" /\ ~Interrupted(r)
    /\ pc' = [pc EXCEPT ![r] = "operating"]
    /\ activeTask' = r
    /\ IF activeEntry = r
       THEN UNCHANGED <<state, activeEntry>>
       ELSE /\ state' = [state EXCEPT ![r] = "ACTIVE"]
            /\ activeEntry' = r
    /\ UNCHANGED <<fut, expired, cancelReq, reason, counted, result, waiters,
                   depth, eventVars, counters, closed, shutdownVars>>

\* _signal_drain_done
SignalDrainDone(why) ==
    drainRemaining' = IF why = "drain_cancelled" /\ drainRemaining > 0
                      THEN drainRemaining - 1 ELSE drainRemaining

\* Faulty: the first drained waiter opens the gate.
FirstDrained(why) == IF why = "drain_cancelled" THEN {"drain_done"} ELSE {}

LastDrained(why) ==
    IF why = "drain_cancelled" /\ drainRemaining = 1 THEN {"drain_done"} ELSE {}

\* Faulty: tests the depth before it is decremented.
LastOutEarly == IF depth = 0 THEN {"quiescence"} ELSE {}

\* The last request to leave run() sets the quiescence event.
LastOut == IF depth = 1 THEN {"quiescence"} ELSE {}

\* The two except branches of the wait differ in what they record.
LeaveQueue(r, outcome, why, raises) ==
    /\ pc' = [pc EXCEPT ![r] = "done"]
    /\ result' = [result EXCEPT ![r] = raises]
    /\ depth' = depth - 1
    /\ waiters' = Keep(waiters, Requests \ {r})
    /\ state' = [state EXCEPT ![r] = outcome]
    /\ reason' = [reason EXCEPT ![r] = why]
    /\ RecordTerminalOnce(r, why)
    /\ SignalDrainDone(why)
    /\ events' = events \cup LastDrained(why) \cup LastOut
    /\ UNCHANGED <<fut, expired, cancelReq, activeEntry, activeTask, closed,
                   shutdownVars>>

\* Faulty: leaves only if it is still in the deque.
LeaveTimedOutIfQueued(r) ==
    /\ pc[r] = "waiting" /\ r \in (expired \ cancelReq) \cap Range(waiters)
    /\ LeaveQueue(r, "TIMED_OUT", "queue_wait_timeout", "QueueTimeoutError")

\* asyncio.timeout() turns the CancelledError into TimeoutError only when no
\* other cancellation of the task is outstanding.
LeaveTimedOut(r) ==
    /\ pc[r] = "waiting" /\ r \in expired \ cancelReq
    /\ LeaveQueue(r, "TIMED_OUT", "queue_wait_timeout", "QueueTimeoutError")

LeaveCancelled(r) ==
    /\ pc[r] = "waiting" /\ Interrupted(r) /\ r \notin expired \ cancelReq
    /\ LeaveQueue(r, "CANCELLED",
                  IF reason[r] = "none" THEN "cancelled_while_waiting" ELSE reason[r],
                  "CancelledError")

-----------------------------------------------------------------------------
(* run(): the operation, and the finally block that releases the worker.   *)

\* Faulty: takes the newest waiter.
LastInLine == waiters[Len(waiters)]

NextInLine == Head(waiters)

\* nfut.set_result(None) on a future that a timer or a task cancellation has
\* already cancelled raises InvalidStateError out of the finally block, after
\* the entry has been taken from the deque and made active.
HandOver(r, ending) ==
    LET next == NextInLine IN
    /\ activeEntry' = next
    /\ activeTask' = NoRequest
    /\ waiters' = Tail(waiters)
    /\ state' = [state EXCEPT ![r] = ending.outcome, ![next] = "ACTIVE"]
    /\ IF fut[next] = "pending"
       THEN /\ fut' = [fut EXCEPT ![next] = "resolved"]
            /\ result' = [result EXCEPT ![r] = ending.raises]
            /\ events' = events \cup LastOut
       ELSE /\ result' = [result EXCEPT ![r] = "InvalidStateError"]
            /\ UNCHANGED <<fut, events>>

GoIdle(r, ending) ==
    /\ IF activeEntry = r
       THEN /\ activeEntry' = NoRequest
            /\ activeTask' = NoRequest
            /\ events' = events \cup LastOut \cup {"active_complete"}
       ELSE /\ events' = events \cup LastOut
            /\ UNCHANGED <<activeEntry, activeTask>>
    /\ state' = [state EXCEPT ![r] = ending.outcome]
    /\ result' = [result EXCEPT ![r] = ending.raises]
    /\ UNCHANGED <<waiters, fut>>

\* The operation ends by itself in any way; once its task is cancelled the
\* CancelledError injected at its await ends it, as itself or as the error
\* its clean-up raises instead.
OperationEnds(r) ==
    \E ending \in Endings :
        /\ pc[r] = "operating"
        /\ ending.outcome = "CANCELLED" => r \in cancelReq
        /\ ending.outcome = "COMPLETED" => r \notin cancelReq
        /\ pc' = [pc EXCEPT ![r] = "done"]
        /\ reason' = [reason EXCEPT ![r] = ending.why]
        /\ depth' = depth - 1
        /\ RecordTerminalOnce(r, ending.why)
        /\ IF waiters # <<>> THEN HandOver(r, ending) ELSE GoIdle(r, ending)
        /\ UNCHANGED <<expired, cancelReq, drainRemaining, closed, shutdownVars>>

-----------------------------------------------------------------------------
(* Cancellation by the connection handlers.                                *)

\* cancel_active_for_connection: the task it would cancel, if any.
ActiveTasksOf(c) ==
    IF activeEntry # NoRequest /\ activeTask # NoRequest /\ ConnOf[activeEntry] = c
    THEN {activeTask} ELSE {}

\* StreamingCoordinator.cancel also cancels its own background task.
OwnTasksOf(c) == {r \in InFlight \cap Progressive : ConnOf[r] = c}

\* cancel_connection: the waiters of c leave the deque, their futures are
\* cancelled.
WaitersOf(c) == {r \in Range(waiters) : ConnOf[r] = c}

\* A handler task that is inside run() cannot run its own disconnect(); the
\* service coordinator calls it after the scheduler's shutdown.  With nothing
\* in flight a disconnect only means that no more requests come.
CanDisconnect(c) ==
    /\ c \notin closed
    /\ \E r \in InFlight : /\ ConnOf[r] = c
                           /\ (r \in Progressive \/ shutdownPc = "returned")

Disconnect(c) ==
    /\ CanDisconnect(c)
    /\ closed' = closed \cup {c}
    /\ waiters' = Keep(waiters, {r \in Requests : ConnOf[r] # c})
    /\ fut' = CancelFutures(WaitersOf(c) \cup OwnTasksOf(c))
    /\ cancelReq' = cancelReq \cup ActiveTasksOf(c) \cup OwnTasksOf(c)
    /\ UNCHANGED <<pc, expired, state, reason, counted, result, activeEntry,
                   activeTask, depth, eventVars, counters, shutdownVars>>

\* cancel_new_request: called by a handler that is about to submit a request;
\* cancel_synthesis is given whatever synthesis is active.
CancelNewRequest(c) ==
    /\ CancelOnNewRequest
    /\ \E r \in Requests : CanCall(r) /\ ConnOf[r] = c
    /\ cancelReq' = cancelReq \cup ({activeTask} \ {NoRequest})
    /\ waiters' = Keep(waiters, {r \in Requests : ConnOf[r] # c})
    /\ fut' = CancelFutures(WaitersOf(c))
    /\ UNCHANGED <<pc, expired, state, reason, counted, result, activeEntry,
                   activeTask, depth, eventVars, counters, closed, shutdownVars>>

-----------------------------------------------------------------------------
(* shutdown(): drain, wait for the drained waiters, then for the active    *)
(* synthesis within the grace period.  Waiting on an event that is already *)
(* set does not suspend.                                                   *)

\* Faulty: looks at the task instead of the entry.
AfterDrainByTask ==
    /\ shutdownPc' = IF activeTask = NoRequest THEN "returned" ELSE "grace"
    /\ UNCHANGED shutdownTarget

\* The snapshot of the active entry after the drain gate.
AfterDrain ==
    /\ shutdownPc' = IF activeEntry = NoRequest THEN "returned" ELSE "grace"
    /\ UNCHANGED shutdownTarget

Shutdown ==
    /\ shutdownPc = "idle"
    /\ reason' = [r \in Requests |-> IF r \in Range(waiters) /\ reason[r] = "none"
                                     THEN "drain_cancelled" ELSE reason[r]]
    /\ waiters' = <<>>
    /\ fut' = CancelFutures(Range(waiters))
    /\ IF waiters # <<>>
       THEN /\ drainRemaining' = Len(waiters)
            /\ events' = (events \cup {"drain"}) \ {"drain_done"}
            /\ shutdownPc' = "draining"
            /\ UNCHANGED shutdownTarget
       ELSE /\ events' = events \cup {"drain"}
            /\ AfterDrain
            /\ UNCHANGED drainRemaining
    /\ UNCHANGED <<pc, expired, cancelReq, state, counted, result, activeEntry,
                   activeTask, depth, counters, closed>>

DrainFinishes ==
    /\ shutdownPc = "draining" /\ "drain_done" \in events
    /\ AfterDrain
    /\ UNCHANGED <<requestVars, gateVars, eventVars, counters, closed>>

\* The final quiescence gate.
AwaitQuiescence ==
    shutdownPc' = IF "quiescence" \in events THEN "returned" ELSE "quiescence"

ActiveFinishesInGrace ==
    /\ shutdownPc = "grace" /\ "active_complete" \in events
    /\ AwaitQuiescence
    /\ UNCHANGED <<requestVars, gateVars, eventVars, counters, closed,
                   shutdownTarget>>

\* A hand-over made before the drain is resumed before the grace timer, which
\* was started after it, can fire.
Resuming == \E r \in Requests : pc[r] = "waiting" /\ fut[r] = "resolved" /\ ~Interrupted(r)

GraceExpires ==
    /\ shutdownPc = "grace" /\ ~Resuming
    /\ IF activeTask # NoRequest
       THEN /\ shutdownTarget' = activeTask
            /\ cancelReq' = cancelReq \cup {activeTask}
            /\ shutdownPc' = "cancelling"
       ELSE /\ AwaitQuiescence
            /\ UNCHANGED <<shutdownTarget, cancelReq>>
    /\ UNCHANGED <<pc, fut, expired, state, reason, counted, result, gateVars,
                   eventVars, counters, closed>>

CancelledTaskEnds ==
    /\ shutdownPc = "cancelling" /\ pc[shutdownTarget] = "done"
    /\ AwaitQuiescence
    /\ UNCHANGED <<requestVars, gateVars, eventVars, counters, closed,
                   shutdownTarget>>

QuiescenceReached ==
    /\ shutdownPc = "quiescence" /\ "quiescence" \in events
    /\ shutdownPc' = "returned"
    /\ UNCHANGED <<requestVars, gateVars, eventVars, counters, closed,
                   shutdownTarget>>

-----------------------------------------------------------------------------
ShutdownStep ==
    \/ DrainFinishes
    \/ ActiveFinishesInGrace
    \/ GraceExpires
    \/ CancelledTaskEnds
    \/ QuiescenceReached

Next ==
    \/ \E r \in Requests :
          \/ Reject(r) \/ AdmitActive(r) \/ AdmitWaiting(r)
          \/ WaitTimeout(r) \/ Resume(r) \/ LeaveTimedOut(r) \/ LeaveCancelled(r)
          \/ OperationEnds(r)
    \/ \E c \in Connections : Disconnect(c) \/ CancelNewRequest(c)
    \/ Shutdown
    \/ ShutdownStep

\* The event loop runs every task it has scheduled and every timer that is
\* due.  An operation is sure to end once its task is cancelled, but by itself
\* only if it is one of Finite: a legacy operation drains its socket without a
\* deadline and a progressive one waits for its consumer, so a client that does
\* not read holds either for ever, and so does a backend that keeps dripping
\* bytes into a buffered read.  Nothing obliges a client to call, a connection
\* to close or the service to stop.
MustEnd(r) == r \in Finite \cup cancelReq /\ OperationEnds(r)

Fairness ==
    /\ \A r \in Requests : /\ WF_vars(Resume(r))
                           /\ WF_vars(LeaveTimedOut(r) \/ LeaveCancelled(r))
                           /\ WF_vars(WaitTimeout(r))
                           /\ WF_vars(MustEnd(r))
    /\ WF_vars(ShutdownStep)

Spec == Init /\ [][Next]_vars /\ Fairness

-----------------------------------------------------------------------------
(* Properties.                                                             *)

\* Every variable has its type.
TypeOK ==
    /\ pc \in [Requests -> {"idle", "waiting", "operating", "done"}]
    /\ fut \in [Requests -> {"none", "pending", "resolved", "cancelled"}]
    /\ expired \subseteq Requests
    /\ cancelReq \subseteq Requests
    /\ state \in [Requests -> SpeechStates]
    /\ reason \in [Requests -> Reasons]
    /\ counted \subseteq Requests
    /\ result \in [Requests -> Results]
    /\ activeEntry \in Requests \cup {NoRequest}
    /\ activeTask \in Requests \cup {NoRequest}
    /\ waiters \in Seq(Requests)
    /\ depth \in Int
    /\ events \subseteq Events
    /\ drainRemaining \in Int
    /\ counters \in [Tallies -> Nat]
    /\ closed \subseteq Connections
    /\ shutdownPc \in {"idle", "draining", "grace", "cancelling", "quiescence",
                       "returned"}
    /\ shutdownTarget \in Requests \cup {NoRequest}

\* At most one operation runs at a time, and the running one owns the active
\* entry: no timeout, cancellation or drain lets a second task through
\* run()'s gate (worker_count = 1, scheduler.py:148-175 and 261-277).
SingleWorker ==
    \A r \in Requests : pc[r] = "operating" =>
        /\ activeEntry = r
        /\ \A q \in Requests : pc[q] = "operating" => q = r

\* A request that arrives is made active at once only if nobody is queued: a
\* free worker never coexists with a non-empty deque (scheduler.py:148-160,
\* 266-277), and a task whose future is still pending is in the deque, where
\* a release will find it, with no second place in it.
NoLostWaiter ==
    /\ activeEntry = NoRequest => waiters = <<>>
    /\ \A r \in Requests :
          pc[r] = "waiting" /\ fut[r] = "pending" => r \in Range(waiters)
    /\ \A i, j \in DOMAIN waiters : waiters[i] = waiters[j] => i = j

\* depth counts the requests inside run(), never exceeds max_size and never
\* goes negative, and the quiescence event is set exactly at depth 0,
\* whichever of the four exits of run() a request takes.
CapacityAccounting ==
    /\ depth = Cardinality(InFlight)
    /\ depth \in 0..MaxSize
    /\ "quiescence" \in events <=> depth = 0

\* The cumulative counters agree with the entries: each admitted entry adds
\* one to one outcome tally when it ends, under its final terminal reason,
\* even when a drain, a timeout and a hand-over race for it.
OutcomesCountedOnce ==
    /\ counters["admission_rejected"] =
           Cardinality({r \in Requests : result[r] = "QueueFullError"})
    /\ counters["admitted"] = Cardinality(InFlight) + Cardinality(counted)
    /\ \A t \in Tallies \ {"admitted", "admission_rejected"} :
          counters[t] = Cardinality({r \in counted : TallyOf(reason[r]) = t})

\* shutdown() never gets past the drain gate while a drained waiter is still
\* inside run() (scheduler.py:332-335 with _signal_drain_done).
DrainGate ==
    shutdownPc \notin {"idle", "draining"} =>
        \A r \in Requests : pc[r] = "waiting" => reason[r] # "drain_cancelled"

\* When shutdown() has returned no operation runs, and no request is left in
\* a state from which one could start: the handlers may be disconnected.
ShutdownStopsSynthesis ==
    shutdownPc = "returned" =>
        \A r \in Requests : /\ pc[r] # "operating"
                            /\ pc[r] = "waiting" => Interrupted(r)

\* Once draining has begun, the only waiter that may still start is the one
\* to which the worker had already been handed.
NoStartAfterDrain ==
    [][\A r \in Requests :
          Draining /\ pc[r] # "operating" /\ pc'[r] = "operating"
              => activeEntry = r]_vars

\* A request whose wait_timeout_sec is finite never waits for ever: it gets the
\* worker or leaves run(), even behind an operation of another connection that
\* never ends (scheduler.py:164-198).
EveryWaitEnds == \A r \in Impatient : pc[r] = "waiting" ~> pc[r] # "waiting"

\* The worker is with an operation that nothing obliges to end.
Stalled == \E q \in Requests \ (Finite \cup cancelReq) : pc[q] = "operating"

\* A queued request whose wait is not cancelled gets the worker, unless one
\* operation that nothing ends keeps it for ever: no hand-over is lost as long
\* as no wait deadline fires and no task is cancelled from outside while it
\* waits (scheduler.py:261-277).
EveryWaiterServed ==
    \A r \in Requests :
        fut[r] = "pending" ~> \/ pc[r] = "operating"
                              \/ fut[r] = "cancelled"
                              \/ []Stalled

\* shutdown() returns: the drain gate, the grace period and the quiescence
\* gate are all passed, whatever clients and operations do.
ShutdownReturns == shutdownPc # "idle" ~> shutdownPc = "returned"

\* Refinement: the scheduler implements the bounded FIFO gate.  A worker
\* handed over but not yet resumed still stands at the head of the line.
Operating == {r \in Requests : pc[r] = "operating"}

Line ==
    IF activeEntry # NoRequest /\ pc[activeEntry] = "waiting"
    THEN <<activeEntry>> \o waiters ELSE waiters

Gate == INSTANCE SpeechGate WITH
            Capacity <- MaxSize, Nobody <- NoRequest,
            inside <- InFlight, line <- Line, shut <- Draining,
            holder <- IF Operating = {} THEN NoRequest
                      ELSE CHOOSE r \in Operating : TRUE,
            past <- {r \in Requests : pc[r] = "done"}

\* The scheduler keeps the gate's promises: FIFO order, one at a time, bounded
\* capacity, no service after a request has given up its place.
ImplementsGate == Gate!GateSpec

-----------------------------------------------------------------------------
(* Claims of the repository that the code does not keep; each is the       *)
(* property of one run that refutes it.                                    *)

\* "No permit-leak paths": the active slot is held by a request that is
\* still inside run().
NoPermitLeak == activeEntry # NoRequest => activeEntry \in InFlight

=============================================================================
