------------------------------- MODULE Outbox -------------------------------
(***************************************************************************)
(* What the webhook queue promises (massingplan/models/webhooks.py,        *)
(* massingplan/services/webhooks.py): an event queued for an endpoint is   *)
(* settled -- delivered, or given up on where an operator can see it --    *)
(* or it goes with its endpoint.  It is settled once, and it does not stay *)
(* queued for ever.                                                        *)
(***************************************************************************)

CONSTANT Delivery      \* one event for one endpoint

VARIABLE fate          \* [Delivery -> "none", "queued", "settled" or "dropped"]

\* A committed change queues its events, a drain settles what it has
\* attempted, an endpoint takes its deliveries with it: each several at once.
Become(D, from, to) ==
  /\ D # {} /\ \A d \in D : fate[d] \in from
  /\ fate' = [d \in Delivery |-> IF d \in D THEN to ELSE fate[d]]

Queue(D)  == Become(D, {"none"}, "queued")
Settle(D) == Become(D, {"queued"}, "settled")
Drop(D)   == Become(D, {"none", "queued", "settled"}, "dropped")

OutboxInit == fate = [d \in Delivery |-> "none"]

OutboxNext == \E D \in SUBSET Delivery : Queue(D) \/ Settle(D) \/ Drop(D)

Leaves(d) == fate[d] = "queued" /\ OutboxNext /\ fate'[d] # "queued"

OutboxSpec ==
  /\ OutboxInit /\ [][OutboxNext]_fate
  /\ \A d \in Delivery : WF_fate(Leaves(d))
=============================================================================
