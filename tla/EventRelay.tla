----------------------------- MODULE EventRelay -----------------------------
(***************************************************************************)
(* What the event outbox promises, without tables, leases or workers:      *)
(* events are recorded, recorded events are delivered to the broker, in    *)
(* any order and any number of times, and only delivered events are ever   *)
(* reported as published.                                                  *)
(***************************************************************************)
EXTENDS Naturals

CONSTANT Events

VARIABLES
    recorded,    \* events committed by their source transaction
    delivered,   \* events the broker holds
    confirmed    \* events the relay reports as published

vars == <<recorded, delivered, confirmed>>

Init ==
    /\ recorded = {}
    /\ delivered = {}
    /\ confirmed = {}

Record(e) ==
    /\ recorded' = recorded \union {e}
    /\ UNCHANGED <<delivered, confirmed>>

Deliver(e) ==
    /\ e \in recorded
    /\ delivered' = delivered \union {e}
    /\ UNCHANGED <<recorded, confirmed>>

\* A report may be withdrawn, and is then given again after another delivery.
Report(S) ==
    /\ S \subseteq delivered
    /\ confirmed' = S
    /\ UNCHANGED <<recorded, delivered>>

Next ==
    \/ \E e \in Events : Record(e) \/ Deliver(e)
    \/ \E S \in SUBSET Events : Report(S)

Spec == Init /\ [][Next]_vars

-----------------------------------------------------------------------------
\* Reported events are delivered, delivered events are recorded.
Honest == confirmed \subseteq delivered /\ delivered \subseteq recorded
=============================================================================
