------------------------------ MODULE Webhooks ------------------------------
(***************************************************************************)
(* The outbound webhook queue (massingplan/services/webhooks.py): events   *)
(* queued in the transaction of the change they describe, and drains that  *)
(* cron starts every minute, whether or not the last one has ended.        *)
(*                                                                         *)
(* A drain is one database transaction around every post it makes.  The    *)
(* database is PostgreSQL at READ COMMITTED, as deployed: a session reads  *)
(* what is committed when it reads, keeps the rows it has read, writes the *)
(* columns it changed, and holds the lock of every row it has written      *)
(* until it ends.                                                          *)
(*                                                                         *)
(* Time is counted in ticks to the next attempt: a delivery whose wait is  *)
(* not positive is due.                                                    *)
(***************************************************************************)
EXTENDS Integers, Sequences, FiniteSets

CONSTANTS
  Hook,               \* endpoints that may be subscribed
  Change,             \* changes of the plan that emit an event
  Wants,              \* [Hook -> the changes whose event it asked for]
  Drain,              \* drain processes that may run at once
  Backoff,            \* waits between attempts, in ticks
  AutoDisableAfter,   \* failed deliveries in a row that switch an endpoint off
  Limit,              \* deliveries attempted by one drain
  Overdue,            \* ticks a delivery is seen to be overdue (bound)
  MaxCrashes,         \* drains killed half way (bound)
  None

MaxAttempts == Len(Backoff) + 1
Delivery    == {d \in Change \X Hook : d[1] \in Wants[d[2]]}
HookOf(d)   == d[2]

ASSUME WebhookAssumption ==
  /\ Wants \in [Hook -> SUBSET Change]
  /\ Backoff \in Seq(Nat \ {0})
  /\ AutoDisableAfter \in Nat \ {0} /\ Limit \in Nat \ {0}
  /\ Overdue \in Nat /\ MaxCrashes \in Nat
  /\ IsFiniteSet(Change) /\ IsFiniteSet(Hook) /\ Hook \cap Delivery = {}
  /\ None \notin Int /\ None \notin [active : BOOLEAN, failures : Int]
  /\ None \notin [status : {"pending", "delivered", "failed"}, attempts : Nat,
                  wait : Int \cup {None}]

VARIABLES
  change,     \* [Change -> "none", "open", "made" or "undone"]
  hook,       \* [Hook -> None or its row: active, failures in a row]
  removed,    \* endpoints that were deleted; an id is not used again
  row,        \* [Delivery -> None or its row: status, attempts, wait]
  held,       \* deliveries inserted by changes not committed yet
  session,    \* [Drain -> NoSession or the session of a running drain]
  tries, accepted, refused, calm, crashes   \* history, see Remember

database == <<change, hook, removed, row, held>>
history  == <<tries, accepted, refused, calm, crashes>>
vars     == <<database, session, history>>

\* list:   deliveries still to attempt, each with the attempts loaded with it
\* todo:   rows the attempt in hand has still to write, in the order of the flushes
\* draft:  [Delivery -> None or the columns to write]
\* seen:   [Hook -> None or the endpoint as this session has it]
\* wrote:  [Hook -> columns of it that differ from what was read]
\* locked: rows written, and so locked, by this session
NoSession ==
  [list |-> <<>>, todo |-> <<>>, draft |-> [d \in Delivery |-> None],
   seen |-> [h \in Hook |-> None], wrote |-> [h \in Hook |-> {}], locked |-> {}]

Running(p) == session[p] # NoSession

Exists(h) == hook[h] # None

LockedByOther(p, r) == \E q \in Drain \ {p} : r \in session[q].locked

-----------------------------------------------------------------------------
\* The web requests.

Subscribe(h) ==
  /\ ~Exists(h) /\ h \notin removed
  /\ hook' = [hook EXCEPT ![h] = [active |-> TRUE, failures |-> 0]]
  /\ UNCHANGED <<change, removed, row, held, session, history>>

\* Deleting an endpoint deletes its deliveries, once nobody holds a lock on them.
DeleteWebhook(h) ==
  LET rows == {d \in Delivery : HookOf(d) = h /\ row[d] # None}
  IN  /\ Exists(h)
      /\ \A p \in Drain : session[p].locked \cap (rows \cup {h}) = {}
      /\ \A d \in held : HookOf(d) # h
      /\ hook' = [hook EXCEPT ![h] = None]
      /\ removed' = removed \cup {h}
      /\ row' = [d \in Delivery |-> IF d \in rows THEN None ELSE row[d]]
      /\ UNCHANGED <<change, held, session, history>>

\* A change and its events, in one transaction that the request may yet lose.
Emit(c) ==
  /\ change[c] = "none"
  /\ change' = [change EXCEPT ![c] = "open"]
  /\ held' = held \cup {d \in Delivery : d[1] = c /\ Exists(HookOf(d)) /\ hook[HookOf(d)].active}
  /\ UNCHANGED <<hook, removed, row, session, history>>

EndRequest(c, outcome) ==
  /\ change[c] = "open"
  /\ change' = [change EXCEPT ![c] = outcome]
  /\ row' = [d \in Delivery |->
               IF d \in held /\ d[1] = c /\ outcome = "made"
               THEN [status |-> "pending", attempts |-> 0, wait |-> 0] ELSE row[d]]
  /\ held' = {d \in held : d[1] # c}
  /\ UNCHANGED <<hook, removed, session, history>>

-----------------------------------------------------------------------------
\* The drain.

IsDue(d) ==
  /\ row[d] # None /\ row[d].status = "pending"
  /\ row[d].wait # None /\ row[d].wait <= 0

\* The due deliveries, longest overdue first, up to the limit.
DueLists ==
  LET due == {d \in Delivery : IsDue(d)}
      n   == IF Cardinality(due) <= Limit THEN Cardinality(due) ELSE Limit
  IN  {s \in [1..n -> due] :
         /\ \A i, j \in 1..n : i < j => s[i] # s[j] /\ row[s[i]].wait <= row[s[j]].wait
         /\ \A d \in due : (\E i \in 1..n : s[i] = d) \/ row[s[n]].wait <= row[d].wait}

StartDrain(p) ==
  /\ ~Running(p)
  /\ \E d \in Delivery : IsDue(d)
  /\ \E s \in DueLists :
       session' = [session EXCEPT ![p].list =
                     [i \in DOMAIN s |-> [id |-> s[i], attempts |-> row[s[i]].attempts]]]
  /\ calm' = (calm /\ \A q \in Drain : ~Running(q))
  /\ UNCHANGED <<database, tries, accepted, refused, crashes>>

GivesUp(n) == n >= MaxAttempts

\* What the subscriber answers, or the transport, or the check of the URL: 2xx,
\* 410, a terminal status, anything else, a URL that is no longer allowed.
Answer == {"ok", "gone", "terminal", "retry", "rejected"}

StatusAfter(answer, n) ==
  IF answer = "ok" THEN "delivered"
  ELSE IF answer = "retry" /\ ~GivesUp(n) THEN "pending" ELSE "failed"

\* Fault: an attempt that will be retried is not counted.
CountsOnlyTheLast(answer, n) ==
  LET status == StatusAfter(answer, n)
  IN  [status |-> status, attempts |-> IF status = "pending" THEN n - 1 ELSE n,
       wait |-> IF status = "pending" THEN Backoff[n] ELSE None]

\* Fault: a retry is not given its next attempt.
ForgetsToReschedule(answer, n) ==
  [status |-> StatusAfter(answer, n), attempts |-> n, wait |-> None]

\* The columns deliver() sets on the delivery at its n-th attempt.
Outcome(answer, n) ==
  LET status == StatusAfter(answer, n)
  IN  [status |-> status, attempts |-> n,
       wait |-> IF status = "pending" THEN Backoff[n] ELSE None]

\* Fault: the endpoint is switched off one failure late.
SwitchesOffLate(failures) == failures > AutoDisableAfter

SwitchesOff(failures) == failures >= AutoDisableAfter

\* The endpoint after an attempt: a success clears the count, a 410 or a
\* rejected URL switches it off, a delivery given up on counts.
Judge(answer, status, e) ==
  LET counts == answer = "terminal" \/ (answer = "retry" /\ status = "failed")
      failures == IF counts THEN e.failures + 1 ELSE IF answer = "ok" THEN 0 ELSE e.failures
  IN  [failures |-> failures,
       active |-> /\ e.active /\ answer \notin {"gone", "rejected"}
                  /\ counts => ~SwitchesOff(failures)]

Changed(old, new) == {c \in {"active", "failures"} : old[c] # new[c]}

\* Rows flushed after an attempt.  One flush writes the endpoint before the
\* delivery; giving up flushes the delivery first.
Flushes(answer, status, d) ==
  IF answer = "ok" THEN <<HookOf(d), d>>
  ELSE IF status = "failed" THEN <<d, HookOf(d)>> ELSE <<d>>

\* deliver(): the endpoint is read the first time the session needs it; one
\* that was deleted meanwhile makes the attempt fail before anything is sent.
Attempt(p) ==
  LET s == session[p]
      d == Head(s.list).id
      n == Head(s.list).attempts + 1
      h == HookOf(d)
      e == IF s.seen[h] # None THEN s.seen[h] ELSE hook[h]
  IN  /\ Running(p) /\ s.todo = <<>> /\ s.list # <<>>
      /\ \E answer \in Answer :
           LET status == StatusAfter(answer, n)
               judged == Judge(answer, status, e)
           IN  /\ e = None => answer = "retry"
               /\ session' = [session EXCEPT ![p] = [s EXCEPT
                    !.list = Tail(s.list),
                    !.draft[d] = Outcome(answer, n),
                    !.todo = IF e = None THEN <<d>> ELSE Flushes(answer, status, d),
                    !.seen[h] = IF e = None THEN None ELSE judged,
                    !.wrote[h] = s.wrote[h] \cup (IF e = None THEN {} ELSE Changed(e, judged))]]
               /\ IF e = None THEN UNCHANGED <<tries, accepted, refused>>
                  ELSE /\ tries' = [tries EXCEPT ![d] = IF @ < MaxAttempts THEN @ + 1 ELSE @]
                       /\ accepted' = IF answer = "ok" THEN accepted \cup {d} ELSE accepted
                       /\ refused' = IF answer \in {"gone", "terminal", "rejected"}
                                     THEN refused \cup {d} ELSE refused
  /\ UNCHANGED <<database, calm, crashes>>

RowExists(r) == IF r \in Hook THEN Exists(r) ELSE row[r] # None

\* A flush waits for the lock of the row it writes.
Write(p) ==
  LET s == session[p]
      r == Head(s.todo)
  IN  /\ s.todo # <<>>
      /\ ~LockedByOther(p, r)
      /\ RowExists(r)
      /\ session' = [session EXCEPT ![p].locked = @ \cup {r}, ![p].todo = Tail(s.todo)]
      /\ UNCHANGED <<database, history>>

\* Faults: every column of a row is written, as it was read or since.
WriteWholeRow(p, d) ==
  LET o == session[p].draft[d]
  IN  IF o = None THEN row[d] ELSE o

WriteWholeHook(p, h) ==
  IF h \in session[p].locked THEN session[p].seen[h] ELSE hook[h]

\* What the commit leaves in a row: the columns this session changed.  A retry
\* does not touch the status, which was "pending" when it was read.
WrittenRow(p, d) ==
  LET o == session[p].draft[d]
  IN  IF o = None THEN row[d]
      ELSE [o EXCEPT !.status = IF @ = "pending" THEN row[d].status ELSE @]

WrittenHook(p, h) ==
  LET s == session[p]
  IN  IF s.wrote[h] = {} THEN hook[h]
      ELSE [active   |-> IF "active" \in s.wrote[h] THEN s.seen[h].active ELSE hook[h].active,
            failures |-> IF "failures" \in s.wrote[h] THEN s.seen[h].failures
                         ELSE hook[h].failures]

Commit(p) ==
  /\ Running(p) /\ session[p].list = <<>> /\ session[p].todo = <<>>
  /\ row'  = [d \in Delivery |-> WrittenRow(p, d)]
  /\ hook' = [h \in Hook |-> WrittenHook(p, h)]
  /\ session' = [session EXCEPT ![p] = NoSession]
  /\ UNCHANGED <<change, removed, held, history>>

Rollback(p) ==
  /\ session' = [session EXCEPT ![p] = NoSession]
  /\ calm' = FALSE
  /\ UNCHANGED <<database, tries, accepted, refused>>

\* A flush finds its row gone and raises: everything the drain recorded is lost.
Stale(p) ==
  /\ session[p].todo # <<>> /\ ~RowExists(Head(session[p].todo))
  /\ Rollback(p) /\ UNCHANGED crashes

WaitsFor(p, q) ==
  /\ p # q /\ session[p].todo # <<>>
  /\ Head(session[p].todo) \in session[q].locked

\* Two drains each wait for a row of the other: the database ends one of them
\* and gives its lock to the one that waits.
BreakDeadlock(p) ==
  \E q \in Drain :
    /\ WaitsFor(p, q) /\ WaitsFor(q, p)
    /\ session' = [session EXCEPT ![p] = NoSession,
                                 ![q].locked = @ \cup {Head(session[q].todo)},
                                 ![q].todo = Tail(@)]
    /\ calm' = FALSE
    /\ UNCHANGED <<database, tries, accepted, refused, crashes>>

Crash(p) ==
  /\ Running(p) /\ crashes < MaxCrashes
  /\ Rollback(p) /\ crashes' = crashes + 1

-----------------------------------------------------------------------------
Closer(w) == IF w = None \/ w <= -Overdue THEN w ELSE w - 1
Older(r)  == IF r = None THEN None ELSE [r EXCEPT !.wait = Closer(@)]

\* Time passes.
Tick ==
  /\ row' = [d \in Delivery |-> Older(row[d])]
  /\ session' = [p \in Drain |->
       [session[p] EXCEPT !.draft = [d \in Delivery |-> Older(session[p].draft[d])]]]
  /\ row' # row \/ session' # session
  /\ UNCHANGED <<change, hook, removed, held, history>>

WebhookInit ==
  /\ change = [c \in Change |-> "none"]
  /\ hook = [h \in Hook |-> None] /\ removed = {}
  /\ row = [d \in Delivery |-> None] /\ held = {}
  /\ session = [p \in Drain |-> NoSession]
  /\ tries = [d \in Delivery |-> 0] /\ accepted = {} /\ refused = {}
  /\ calm = TRUE /\ crashes = 0

Request ==
  \/ \E h \in Hook : Subscribe(h) \/ DeleteWebhook(h)
  \/ \E c \in Change : Emit(c) \/ EndRequest(c, "made") \/ EndRequest(c, "undone")

DrainStep(p) == Attempt(p) \/ Write(p) \/ Stale(p) \/ Commit(p) \/ BreakDeadlock(p)

WebhookNext ==
  \/ Request
  \/ \E p \in Drain : StartDrain(p) \/ DrainStep(p) \/ Crash(p)
  \/ Tick

\* Cron starts a drain every minute; a subscriber is given ten seconds to
\* answer; the database serves those who wait for a lock in turn.
WebhookFairness ==
  /\ WF_vars(Tick)
  /\ \A p \in Drain : WF_vars(StartDrain(p)) /\ SF_vars(DrainStep(p))

WebhookSpec == WebhookInit /\ [][WebhookNext]_vars /\ WebhookFairness
=============================================================================
