------------------------------ MODULE AuditPromise ------------------------------
(***************************************************************************)
(* What the audit outbox promises about each event, without leases,        *)
(* attempts, clocks or workers: once enqueued it is never lost, it counts  *)
(* as delivered only when the sink has taken it, delivered is final, and a *)
(* dead-lettered event leaves that state only by Requeue or by a delivery  *)
(* that succeeds after all (docs/WORKFLOWS.md: "Delivery remains           *)
(* at-least-once").                                                        *)
(***************************************************************************)
CONSTANT Events

VARIABLES
    status,    \* of each event
    accepted   \* the events the sink has taken at least once

Init ==
    /\ status = [e \in Events |-> "absent"]
    /\ accepted = {}

Move(e, from, to) ==
    /\ status[e] \in from
    /\ status' = [status EXCEPT ![e] = to]
    /\ UNCHANGED accepted

Enqueue(e) == Move(e, {"absent"}, "pending")

Accept(e) ==
    /\ status[e] # "absent"
    /\ accepted' = accepted \cup {e}
    /\ UNCHANGED status

Deliver(e) == e \in accepted /\ Move(e, {"pending", "dead"}, "delivered")

DeadLetter(e) == Move(e, {"pending"}, "dead")

Requeue(e) == Move(e, {"dead"}, "pending")

Next ==
    \E e \in Events :
        Enqueue(e) \/ Accept(e) \/ Deliver(e) \/ DeadLetter(e) \/ Requeue(e)

Spec == Init /\ [][Next]_<<status, accepted>>

=================================================================================
