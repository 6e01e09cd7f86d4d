------------------------------ MODULE SpeechGate ------------------------------
(***************************************************************************)
(* What the speech scheduler promises its callers                          *)
(* (docs/PHASE_9B_IMPLEMENTATION_PLAN.md, "Required invariants" 1 to 4):   *)
(* a gate of bounded capacity that lets one request through at a time, in  *)
(* the order of arrival, except that a request may give up while it waits; *)
(* once shut it admits nobody and whoever stands in the line leaves.       *)
(***************************************************************************)
EXTENDS Integers, Sequences, FiniteSets, Functions

CONSTANTS Requests, Capacity, Nobody

VARIABLES
    inside,     \* requests that hold a unit of the capacity
    line,       \* those that wait for their turn, first come first
    holder,     \* the request being served
    past,       \* requests that have left or were turned away
    shut        \* the gate admits nobody any more

gateVars == <<inside, line, holder, past, shut>>

GateInit == inside = {} /\ line = <<>> /\ holder = Nobody /\ past = {} /\ shut = FALSE

Full == Cardinality(inside) = Capacity

Arrive(r) ==
    /\ r \notin inside \cup past
    /\ ~shut /\ ~Full
    /\ inside' = inside \cup {r}
    /\ \/ holder = Nobody /\ line = <<>> /\ holder' = r /\ line' = line
       \/ line' = Append(line, r) /\ holder' = holder
    /\ UNCHANGED <<past, shut>>

TurnAway(r) ==
    /\ r \notin inside \cup past
    /\ shut \/ Full
    /\ past' = past \cup {r}
    /\ UNCHANGED <<inside, line, holder, shut>>

Serve ==
    /\ holder = Nobody /\ line # <<>>
    /\ holder' = Head(line)
    /\ line' = Tail(line)
    /\ UNCHANGED <<inside, past, shut>>

\* The holder is done; it alone gives its unit of capacity back.
Release ==
    /\ holder # Nobody
    /\ holder' = Nobody
    /\ inside' = inside \ {holder}
    /\ past' = past \cup {holder}
    /\ UNCHANGED <<line, shut>>

\* The members of T in the order of s.
Staying(s, T) ==
    LET kept[i \in 0..Len(s)] ==
            IF i = 0 THEN << >>
            ELSE IF s[i] \in T THEN Append(kept[i-1], s[i]) ELSE kept[i-1]
    IN  kept[Len(s)]

\* Requests give up their places; the others keep their order.
GiveUp(rs) ==
    /\ line' = Staying(line, Requests \ rs)
    /\ UNCHANGED holder

Withdraw ==
    /\ \E rs \in SUBSET Range(line) : GiveUp(rs)
    /\ UNCHANGED <<inside, past, shut>>

\* A request that no longer stands in the line leaves; it may do both at once.
Leave(r) ==
    /\ r \in inside \ {holder}
    /\ GiveUp({r})
    /\ inside' = inside \ {r}
    /\ past' = past \cup {r}
    /\ UNCHANGED shut

\* Shutting the gate empties the line, but for a request whose turn had come.
Shut ==
    /\ ~shut /\ shut' = TRUE
    /\ \/ GiveUp(Range(line))
       \/ holder = Nobody /\ line # <<>> /\ GiveUp(Range(line) \ {Head(line)})
    /\ UNCHANGED <<inside, past>>

GateNext ==
    \/ \E r \in Requests : Arrive(r) \/ TurnAway(r) \/ Leave(r)
    \/ Serve \/ Release \/ Withdraw \/ Shut

GateSpec == GateInit /\ [][GateNext]_gateVars
=============================================================================
