--------------------------- MODULE OutboxContract ---------------------------
(***************************************************************************)
(* What the transactional outbox promises its producers, without rows,     *)
(* leases, retries or dispatchers: a recorded event is pending until it is *)
(* published or given up, it is published only after the queue has been    *)
(* given it, and both outcomes are final.  Handing over may happen several *)
(* times and even after the outcome is settled: delivery is at least once. *)
(***************************************************************************)
CONSTANT Events

VARIABLES
    outcome,    \* the producer's view of each event
    delivered   \* events the queue has been given at least once

Init ==
    /\ outcome = [e \in Events |-> "unrecorded"]
    /\ delivered = {}

Record(e) ==
    /\ outcome[e] = "unrecorded"
    /\ outcome' = [outcome EXCEPT ![e] = "pending"]
    /\ UNCHANGED delivered

Deliver(e) ==
    /\ outcome[e] # "unrecorded"
    /\ delivered' = delivered \cup {e}
    /\ UNCHANGED outcome

Publish(e) ==
    /\ outcome[e] = "pending"
    /\ e \in delivered
    /\ outcome' = [outcome EXCEPT ![e] = "published"]
    /\ UNCHANGED delivered

GiveUp(e) ==
    /\ outcome[e] = "pending"
    /\ outcome' = [outcome EXCEPT ![e] = "abandoned"]
    /\ UNCHANGED delivered

Next == \E e \in Events : Record(e) \/ Deliver(e) \/ Publish(e) \/ GiveUp(e)

Spec == Init /\ [][Next]_<<outcome, delivered>>
=============================================================================
