------------------------- MODULE WebhookProperties -------------------------
(***************************************************************************)
(* What the webhook queue promises when requests, drains that overlap,     *)
(* crashes and deleted endpoints interleave.                               *)
(***************************************************************************)
EXTENDS Webhooks

\* Types; and a row that waits for an attempt has one left.
WebhookTypeOK ==
  /\ change \in [Change -> {"none", "open", "made", "undone"}]
  /\ \A h \in Hook : Exists(h) => hook[h] \in [active : BOOLEAN, failures : Nat]
  /\ removed \subseteq Hook /\ held \subseteq Delivery
  /\ \A d \in Delivery : row[d] # None =>
       /\ row[d].status \in {"pending", "delivered", "failed"}
       /\ row[d].attempts \in 0..MaxAttempts /\ row[d].wait \in Int \cup {None}
       /\ row[d].status = "pending" => row[d].attempts < MaxAttempts /\ row[d].wait # None
  /\ \A p \in Drain : DOMAIN session[p] = DOMAIN NoSession

\* No drain that read a row before another one settled it puts it back in the
\* queue, and none switches an endpoint on again that another switched off.
NothingComesBack ==
  [][/\ \A d \in Delivery : row[d] # None /\ row[d].status # "pending" =>
          row'[d] = None \/ row'[d].status # "pending"
     /\ \A h \in Hook : Exists(h) /\ ~hook[h].active => hook'[h] = None \/ ~hook'[h].active]_vars

\* What is recorded as delivered was accepted by the subscriber.
DeliveredMeansAccepted ==
  \A d \in Delivery : row[d] # None /\ row[d].status = "delivered" => d \in accepted

\* A delivery is given up on only after a refusal or all its attempts, whatever
\* overlaps and whatever was rolled back.
GivesUpForCause ==
  \A d \in Delivery : row[d] # None /\ row[d].status = "failed" =>
    d \in refused \/ tries[d] >= MaxAttempts

\* Attempts are recorded, not just outcomes: all of them as long as drains do
\* not overlap and none is rolled back, and never one that was not made.
AttemptsRecorded ==
  \A d \in Delivery : row[d] # None =>
    /\ row[d].attempts <= tries[d]
    /\ calm /\ (\A p \in Drain : ~Running(p)) => row[d].attempts = tries[d]

\* The three together: what the rows say of the deliveries is what happened.
RecordsAreTrue == DeliveredMeansAccepted /\ GivesUpForCause /\ AttemptsRecorded

\* An endpoint at its limit is off, although drains count without seeing each
\* other's counts.
LimitSwitchesOff == \A h \in Hook : Exists(h) /\ hook[h].active => hook[h].failures < AutoDisableAfter

\* An endpoint is switched off because it said so or its URL is refused, or for
\* as many deliveries given up on as the limit says.
SwitchedOffForCause ==
  calm => \A h \in Hook : Exists(h) /\ ~hook[h].active =>
    LET ofHook == {d \in Delivery : HookOf(d) = h /\ row[d] # None}
    IN  \/ \E d \in ofHook : d \in refused
        \/ Cardinality({d \in ofHook : row[d].status = "failed"}) >= AutoDisableAfter

\* Both together: an endpoint is switched off exactly when there is cause.
SwitchedOffRightly == LimitSwitchesOff /\ SwitchedOffForCause

\* The queue implements its promise, liveness included.
Fate(d) ==
  IF HookOf(d) \in removed THEN "dropped"
  ELSE IF row[d] = None THEN "none"
  ELSE IF row[d].status = "pending" THEN "queued" ELSE "settled"

Promise == INSTANCE Outbox WITH fate <- [d \in Delivery |-> Fate(d)]
ImplementsOutbox == Promise!OutboxSpec

-----------------------------------------------------------------------------
\* cli.py:81: "Safe to run twice by accident -- the worst case is a subscriber
\* seeing one delivery id twice": what the subscriber accepted is not recorded
\* as failed when the drains have ended.
WorstCaseIsADuplicate ==
  (\A p \in Drain : ~Running(p)) =>
    \A d \in accepted : row[d] # None => row[d].status # "failed"
=============================================================================
