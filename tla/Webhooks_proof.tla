----------------------------- MODULE Webhooks_proof -----------------------------
(***************************************************************************)
(* Proofs about the webhook queue, for any number of endpoints, changes    *)
(* and overlapping drains: its rows are well formed, what they say of the  *)
(* deliveries is what happened, endpoints are switched off exactly when    *)
(* there is cause, nothing settled comes back, and the queue takes only    *)
(* the steps its promise, Outbox, allows.                                  *)
(***************************************************************************)
EXTENDS WebhookProperties, TLAPS, FiniteSetTheorems, SequenceTheorems

-----------------------------------------------------------------------------
(* Types. *)

HookRows == [active : BOOLEAN, failures : Nat]

(* A row that waits for an attempt has one left. *)
Rows ==
  {r \in [status : {"pending", "delivered", "failed"}, attempts : 0..MaxAttempts,
          wait : Int \cup {None}] :
     r.status = "pending" => r.attempts < MaxAttempts /\ r.wait # None}

Sessions ==
  [list : Seq([id : Delivery, attempts : Nat]), todo : Seq(Hook \cup Delivery),
   draft : [Delivery -> Rows \cup {None}], seen : [Hook -> HookRows \cup {None}],
   wrote : [Hook -> SUBSET {"active", "failures"}], locked : SUBSET (Hook \cup Delivery)]

WebhooksTyped ==
  /\ change \in [Change -> {"none", "open", "made", "undone"}]
  /\ hook \in [Hook -> HookRows \cup {None}]
  /\ removed \in SUBSET Hook
  /\ held \in SUBSET Delivery
  /\ row \in [Delivery -> Rows \cup {None}]
  /\ session \in [Drain -> Sessions]
  /\ tries \in [Delivery -> Nat]
  /\ accepted \in SUBSET Delivery
  /\ refused \in SUBSET Delivery
  /\ calm \in BOOLEAN
  /\ crashes \in Nat

-----------------------------------------------------------------------------
(* What is committed. *)

(* Deliveries come with a change that was made and go with their endpoint, *)
(* whose id is not used again; what is not committed was not attempted.    *)
StoredInv ==
  /\ \A d \in Delivery : row[d] # None => change[d[1]] = "made" /\ Exists(HookOf(d))
  /\ \A d \in held : change[d[1]] = "open" /\ Exists(HookOf(d))
  /\ \A h \in Hook : Exists(h) => h \notin removed
  /\ \A d \in Delivery : tries[d] <= MaxAttempts /\ (change[d[1]] # "made" => tries[d] = 0)

(* The rows are honest: what RecordsAreTrue says of any state. *)
RowsHonest ==
  \A d \in Delivery : row[d] # None =>
    /\ row[d].attempts <= tries[d]
    /\ row[d].status = "delivered" => d \in accepted
    /\ row[d].status = "failed" => d \in refused \/ tries[d] >= MaxAttempts

-----------------------------------------------------------------------------
(* What a running drain holds. *)

(* The row of a delivery goes with its endpoint, and only with it.         *)
Kept(d) == row[d] # None \/ HookOf(d) \in removed

(* Deliveries still to attempt are all different and not drafted yet, and  *)
(* the attempts loaded with them were made.                                *)
ListInv(s) ==
  \A i \in DOMAIN s.list :
    LET e == s.list[i] IN
    /\ e.attempts < MaxAttempts /\ e.attempts <= tries[e.id]
    /\ change[e.id[1]] = "made" /\ Kept(e.id)
    /\ s.draft[e.id] = None
    /\ \A j \in DOMAIN s.list : s.list[j].id = e.id => i = j

InTodo(s, r) == \E i \in DOMAIN s.todo : s.todo[i] = r

(* A draft is flushed, or waits to be, and is honest as long as its        *)
(* delivery was not deleted; a deleted one never comes back.               *)
DraftInv(s) ==
  \A d \in Delivery : s.draft[d] # None =>
    /\ change[d[1]] = "made" /\ Kept(d)
    /\ d \in s.locked \/ InTodo(s, d)
    /\ row[d] # None =>
         /\ s.draft[d].attempts <= tries[d]
         /\ s.draft[d].status = "delivered" => d \in accepted
         /\ s.draft[d].status = "failed" => d \in refused \/ tries[d] >= MaxAttempts

(* What a session changed in an endpoint is flushed, or waits to be; it    *)
(* switches endpoints off and never on; and one it believes to be off is   *)
(* off, or will be when it commits.                                        *)
SeenInv(s) ==
  \A h \in Hook :
    /\ s.wrote[h] # {} => s.seen[h] # None /\ (h \in s.locked \/ InTodo(s, h))
    /\ s.seen[h] # None =>
         /\ Exists(h) \/ h \in removed
         /\ "active" \in s.wrote[h] => ~s.seen[h].active
         /\ s.seen[h].active => s.seen[h].failures < AutoDisableAfter
         /\ Exists(h) /\ ~s.seen[h].active => "active" \in s.wrote[h] \/ ~hook[h].active

LockInv(s) == \A r \in s.locked : RowExists(r)

SessionInv(s) == ListInv(s) /\ DraftInv(s) /\ SeenInv(s) /\ LockInv(s)

-----------------------------------------------------------------------------
(* Without overlap and without rollback. *)

HasRefused(h) == \E d \in Delivery : HookOf(d) = h /\ row[d] # None /\ d \in refused

(* Deliveries of an endpoint given up on, in the table and in a session.   *)
Failed(h) == {d \in Delivery : HookOf(d) = h /\ row[d] # None /\ row[d].status = "failed"}
Drafted(s, h) ==
  {d \in Delivery : /\ HookOf(d) = h /\ row[d] # None
                    /\ s.draft[d] # None /\ s.draft[d].status = "failed"}

(* A row of an endpoint whose count and switch have their cause in as many *)
(* lost deliveries.                                                        *)
HasCause(e, h, lost) ==
  \/ HasRefused(h)
  \/ /\ e.failures <= Cardinality(lost)
     /\ ~e.active => Cardinality(lost) >= AutoDisableAfter

CalmSession(s) ==
  /\ \A i \in DOMAIN s.list :
       LET e == s.list[i] IN
       row[e.id] # None => row[e.id].status = "pending" /\ row[e.id].attempts = e.attempts
  /\ \A d \in Delivery : row[d] # None /\ s.draft[d] # None =>
       row[d].status = "pending" /\ s.draft[d].attempts = tries[d]
  /\ \A h \in Hook : Exists(h) /\ s.seen[h] # None =>
       HasCause(s.seen[h], h, Failed(h) \cup Drafted(s, h))

CalmInv ==
  calm =>
    /\ \A p, q \in Drain : Running(p) /\ Running(q) => p = q
    /\ \A p \in Drain : CalmSession(session[p])
    /\ \A d \in Delivery :
         row[d] # None /\ (\A p \in Drain : session[p].draft[d] = None) =>
           row[d].attempts = tries[d]
    /\ \A h \in Hook : Exists(h) => HasCause(hook[h], h, Failed(h))

-----------------------------------------------------------------------------
WebhookInv ==
  /\ WebhooksTyped /\ StoredInv /\ RowsHonest /\ LimitSwitchesOff
  /\ \A p \in Drain : SessionInv(session[p])
  /\ CalmInv

-----------------------------------------------------------------------------
(* Facts the steps keep needing.                                           *)

(* How often a delivery is attempted, and how long it waits between.      *)
LEMMA AttemptBounds ==
  /\ MaxAttempts \in Nat \ {0}
  /\ \A n \in 1..(MaxAttempts - 1) : Backoff[n] \in Nat \ {0}
<1>1. Backoff \in Seq(Nat \ {0})
  BY WebhookAssumption DEF WebhookAssumption
<1>2. QED
  BY <1>1 DEF MaxAttempts

(* The absence of a row is no row.                                         *)
LEMMA NoneIsNoRow ==
  /\ None \notin Int /\ None \notin Nat
  /\ \A e \in HookRows : e # None
  /\ \A r \in Rows : r # None
<1>1. None \notin Int /\ None \notin [active : BOOLEAN, failures : Int]
      /\ None \notin [status : {"pending", "delivered", "failed"}, attempts : Nat,
                      wait : Int \cup {None}]
  BY WebhookAssumption DEF WebhookAssumption
<1>2. \A e \in HookRows : e \in [active : BOOLEAN, failures : Int]
  BY DEF HookRows
<1>3. MaxAttempts \in Nat
  BY AttemptBounds
<1>4. \A r \in Rows : r \in [status : {"pending", "delivered", "failed"}, attempts : Nat,
                      wait : Int \cup {None}]
  BY <1>3 DEF Rows
<1>5. QED
  BY <1>1, <1>2, <1>4

(* Endpoints and deliveries have ids of their own.                         *)
LEMMA IdsDiffer ==
  /\ \A d \in Delivery : d \notin Hook /\ HookOf(d) \in Hook /\ d[1] \in Change
  /\ IsFiniteSet(Delivery)
<1>1. Delivery \subseteq Change \X Hook
  BY DEF Delivery
<1>2. IsFiniteSet(Delivery)
  BY <1>1, WebhookAssumption, FS_Product, FS_Subset DEF WebhookAssumption
<1>3. Hook \cap Delivery = {}
  BY WebhookAssumption DEF WebhookAssumption
<1>4. QED
  BY <1>1, <1>2, <1>3 DEF HookOf

(* Taking the first of a list.                                             *)
LEMMA FirstAndRest ==
  ASSUME NEW S, NEW s \in Seq(S), s # <<>>
  PROVE  /\ 1 \in DOMAIN s /\ Head(s) = s[1] /\ Head(s) \in S
         /\ Tail(s) \in Seq(S)
         /\ \A i \in DOMAIN Tail(s) : i + 1 \in DOMAIN s /\ Tail(s)[i] = s[i + 1]
         /\ \A i \in DOMAIN s : i = 1 \/ (i - 1 \in DOMAIN Tail(s) /\ Tail(s)[i - 1] = s[i])
  OBVIOUS

(* The members of a list.                                                 *)
LEMMA MemberOf ==
  ASSUME NEW S, NEW s \in Seq(S), NEW i \in DOMAIN s
  PROVE  s[i] \in S
OBVIOUS

(* The parts of a session.                                                 *)
LEMMA SessionParts ==
  ASSUME NEW s \in Sessions
  PROVE  /\ s.list \in Seq([id : Delivery, attempts : Nat])
         /\ \A i \in DOMAIN s.list : s.list[i].id \in Delivery /\ s.list[i].attempts \in Nat
         /\ s.todo \in Seq(Hook \cup Delivery)
         /\ \A i \in DOMAIN s.todo : s.todo[i] \in Hook \cup Delivery
         /\ s.draft \in [Delivery -> Rows \cup {None}]
         /\ s.seen \in [Hook -> HookRows \cup {None}]
         /\ s.wrote \in [Hook -> SUBSET {"active", "failures"}]
         /\ s.locked \subseteq Hook \cup Delivery
<1>1. /\ s.list \in Seq([id : Delivery, attempts : Nat])
      /\ s.todo \in Seq(Hook \cup Delivery)
      /\ s.draft \in [Delivery -> Rows \cup {None}]
      /\ s.seen \in [Hook -> HookRows \cup {None}]
      /\ s.wrote \in [Hook -> SUBSET {"active", "failures"}]
      /\ s.locked \subseteq Hook \cup Delivery
  BY DEF Sessions
<1>2. \A i \in DOMAIN s.list : s.list[i] \in [id : Delivery, attempts : Nat]
  BY <1>1, MemberOf
<1>3. \A i \in DOMAIN s.todo : s.todo[i] \in Hook \cup Delivery
  BY <1>1
<1>4. QED
  BY <1>1, <1>2, <1>3

(* The parts of a row, of either table.                                    *)
LEMMA RowParts ==
  /\ \A r \in Rows : /\ r.status \in {"pending", "delivered", "failed"}
                     /\ r.attempts \in Nat /\ r.attempts <= MaxAttempts
                     /\ r.wait \in Int \cup {None}
                     /\ r.status = "pending" => r.attempts < MaxAttempts /\ r.wait # None
  /\ \A e \in HookRows : e.active \in BOOLEAN /\ e.failures \in Nat
<1>1. MaxAttempts \in Nat
  BY AttemptBounds
<1>2. \A r \in Rows : /\ r \in [status : {"pending", "delivered", "failed"},
                                 attempts : 0..MaxAttempts, wait : Int \cup {None}]
                      /\ r.status = "pending" => r.attempts < MaxAttempts /\ r.wait # None
  BY DEF Rows
<1>3. \A r \in Rows : r.attempts \in 0..MaxAttempts
  BY <1>2
<1>4. \A e \in HookRows : e.active \in BOOLEAN /\ e.failures \in Nat
  BY DEF HookRows
<1>5. QED
  BY <1>1, <1>2, <1>3, <1>4

(* What a drain that is not running holds: nothing.                        *)
LEMMA NothingHeld ==
  /\ NoSession \in Sessions /\ SessionInv(NoSession) /\ CalmSession(NoSession)
  /\ NoSession.list = <<>> /\ NoSession.todo = <<>> /\ NoSession.locked = {}
  /\ \A d \in Delivery : NoSession.draft[d] = None
  /\ \A h \in Hook : NoSession.seen[h] = None /\ NoSession.wrote[h] = {}
<1>1. /\ NoSession.list = <<>> /\ NoSession.todo = <<>> /\ NoSession.locked = {}
      /\ NoSession.draft = [d \in Delivery |-> None]
      /\ NoSession.seen = [h \in Hook |-> None]
      /\ NoSession.wrote = [h \in Hook |-> {}]
  BY DEF NoSession
<1>2. NoSession \in Sessions
  BY DEF NoSession, Sessions
<1>3. SessionInv(NoSession)
  BY <1>1 DEF SessionInv, ListInv, DraftInv, SeenInv, LockInv
<1>4. CalmSession(NoSession)
  BY <1>1 DEF CalmSession
<1>5. QED
  BY <1>1, <1>2, <1>3, <1>4

-----------------------------------------------------------------------------
(* Sessions that a step leaves alone.                                      *)

(* The same session, but for how long the drafts still wait.               *)
SameButWaits(s, t) ==
  /\ t.list = s.list /\ t.todo = s.todo /\ t.seen = s.seen
  /\ t.wrote = s.wrote /\ t.locked = s.locked
  /\ \A d \in Delivery :
       /\ t.draft[d] = None <=> s.draft[d] = None
       /\ s.draft[d] # None => /\ t.draft[d].status = s.draft[d].status
                               /\ t.draft[d].attempts = s.draft[d].attempts

(* The world as a session of others sees it move: attempts are made and    *)
(* answered, changes stay made, what is deleted stays deleted, what is     *)
(* switched off stays off.                                                 *)
WorldMoves ==
  /\ \A d \in Delivery : tries[d] <= tries'[d]
  /\ accepted \subseteq accepted' /\ refused \subseteq refused'
  /\ \A c \in Change : change[c] = "made" => change'[c] = "made"
  /\ \A d \in Delivery : change[d[1]] = "made" /\ row'[d] # None => row[d] # None
  /\ \A d \in Delivery : Kept(d) => Kept(d)'
  /\ \A h \in Hook : Exists(h) \/ h \in removed =>
       /\ Exists(h)' \/ h \in removed'
       /\ Exists(h)' => Exists(h) /\ (~hook[h].active => ~hook'[h].active)

\* What one drain does leaves what another drain knows true, as long as the
\* rows the other has locked stay.
LEMMA OthersKeepTheirs ==
  ASSUME WebhooksTyped, tries' \in [Delivery -> Nat], WorldMoves,
         NEW s \in Sessions, SessionInv(s), NEW t \in Sessions, SameButWaits(s, t),
         \A r \in s.locked : RowExists(r) => RowExists(r)'
  PROVE  SessionInv(t)'
<1> USE DEF SameButWaits
<1>0. tries \in [Delivery -> Nat] /\ \A d \in Delivery : tries[d] <= tries'[d]
  BY DEF WebhooksTyped, WorldMoves
<1>1. ListInv(t)'
  <2> SUFFICES ASSUME NEW i \in DOMAIN t.list
               PROVE  /\ t.list[i].attempts < MaxAttempts
                      /\ t.list[i].attempts <= tries'[t.list[i].id]
                      /\ change'[t.list[i].id[1]] = "made"
                      /\ Kept(t.list[i].id)'
                      /\ t.draft[t.list[i].id] = None
                      /\ \A j \in DOMAIN t.list : t.list[j].id = t.list[i].id => i = j
    BY DEF ListInv
  <2>1. t.list[i].id \in Delivery /\ t.list[i].attempts \in Nat
    BY SessionParts
  <2>2. t.list[i].id \in Delivery /\ t.list[i].id[1] \in Change /\ t.list[i].attempts \in Nat
    BY <2>1, IdsDiffer
  <2>3. /\ t.list[i].attempts < MaxAttempts
        /\ t.list[i].attempts <= tries[t.list[i].id]
        /\ change[t.list[i].id[1]] = "made"
        /\ Kept(t.list[i].id)
        /\ s.draft[t.list[i].id] = None
        /\ \A j \in DOMAIN t.list : t.list[j].id = t.list[i].id => i = j
    BY DEF SessionInv, ListInv
  <2>4. t.list[i].attempts <= tries'[t.list[i].id]
    BY <1>0, <2>2, <2>3
  <2>5. QED
    BY <2>2, <2>3, <2>4 DEF WorldMoves
<1>2. DraftInv(t)'
  <2> SUFFICES ASSUME NEW d \in Delivery, t.draft[d] # None
               PROVE  /\ change'[d[1]] = "made" /\ Kept(d)'
                      /\ d \in t.locked \/ InTodo(t, d)
                      /\ row'[d] # None =>
                           /\ t.draft[d].attempts <= tries'[d]
                           /\ t.draft[d].status = "delivered" => d \in accepted'
                           /\ t.draft[d].status = "failed" =>
                                d \in refused' \/ tries'[d] >= MaxAttempts
    BY DEF DraftInv, InTodo
  <2>1. /\ change[d[1]] = "made" /\ Kept(d)
        /\ d \in s.locked \/ InTodo(s, d)
        /\ row[d] # None =>
             /\ s.draft[d].attempts <= tries[d]
             /\ s.draft[d].status = "delivered" => d \in accepted
             /\ s.draft[d].status = "failed" => d \in refused \/ tries[d] >= MaxAttempts
    BY DEF SessionInv, DraftInv
  <2>2. d[1] \in Change /\ t.draft[d].attempts \in Nat /\ MaxAttempts \in Nat
    BY IdsDiffer, AttemptBounds DEF Sessions, Rows
  <2>3. row'[d] # None => row[d] # None
    BY <2>1 DEF WorldMoves
  <2>4. row'[d] # None => t.draft[d].attempts <= tries'[d]
    BY <1>0, <2>1, <2>2, <2>3
  <2>5. tries[d] >= MaxAttempts => tries'[d] >= MaxAttempts
    BY <1>0, <2>2
  <2>6. QED
    BY <2>1, <2>2, <2>3, <2>4, <2>5 DEF WorldMoves, InTodo
<1>3. SeenInv(t)'
  BY DEF SessionInv, SeenInv, InTodo, WorldMoves
<1>4. LockInv(t)'
  BY DEF SessionInv, LockInv
<1>5. QED
  BY <1>1, <1>2, <1>3, <1>4 DEF SessionInv

(* A step in which nothing is attempted or committed keeps the causes: the *)
(* rows that stay keep their status, the new ones wait.                    *)
SameWork(s, t) ==
  /\ t.list = s.list /\ t.seen = s.seen
  /\ \A d \in Delivery :
       /\ t.draft[d] = None <=> s.draft[d] = None
       /\ s.draft[d] # None => /\ t.draft[d].status = s.draft[d].status
                               /\ t.draft[d].attempts = s.draft[d].attempts

NothingAttempted ==
  /\ UNCHANGED <<tries, refused, calm>>
  /\ \A p \in Drain : (Running(p)' => Running(p)) /\ SameWork(session[p], session'[p])
  /\ \A d \in Delivery : row'[d] # None =>
       \/ /\ row[d] # None /\ row'[d].status = row[d].status
          /\ row'[d].attempts = row[d].attempts
       \/ /\ row[d] = None /\ change[d[1]] # "made"
          /\ row'[d].status = "pending" /\ row'[d].attempts = tries[d]
  /\ \A h \in Hook : Exists(h)' =>
       \/ /\ Exists(h) /\ hook'[h] = hook[h]
          /\ \A d \in Delivery : HookOf(d) = h /\ row[d] # None => row'[d] # None
       \/ /\ ~Exists(h) /\ h \notin removed
          /\ hook'[h].active /\ hook'[h].failures = 0

\* A step without a post changes no stored counter and no cause of it.
LEMMA StoredCausesStay ==
  ASSUME NothingAttempted, NEW h \in Hook, Exists(h), Exists(h)'
  PROVE  /\ hook'[h] = hook[h] /\ Failed(h)' = Failed(h)
         /\ HasRefused(h) => HasRefused(h)'
         /\ \A d \in Delivery : HookOf(d) = h /\ row[d] # None => row'[d] # None
<1>1. hook'[h] = hook[h] /\ refused' = refused
  BY DEF NothingAttempted
<1>2. \A d \in Delivery : HookOf(d) = h /\ row[d] # None => row'[d] # None
  BY DEF NothingAttempted
<1>3. \A d \in Delivery : row'[d] # None =>
        \/ row[d] # None /\ row'[d].status = row[d].status
        \/ row[d] = None /\ row'[d].status = "pending"
  BY DEF NothingAttempted
<1>4. Failed(h)' = Failed(h)
  BY <1>2, <1>3 DEF Failed
<1>5. HasRefused(h) => HasRefused(h)'
  BY <1>1, <1>2 DEF HasRefused
<1>6. QED
  BY <1>1, <1>2, <1>4, <1>5

\* A step without a post leaves the causes a drain has seen in place.
LEMMA SessionCausesStay ==
  ASSUME NothingAttempted, NEW s \in Sessions, SessionInv(s), CalmSession(s),
         NEW t \in Sessions, SameWork(s, t)
  PROVE  CalmSession(t)'
<1>1. \A i \in DOMAIN t.list :
        row'[t.list[i].id] # None => /\ row'[t.list[i].id].status = "pending"
                                     /\ row'[t.list[i].id].attempts = t.list[i].attempts
  <2> SUFFICES ASSUME NEW i \in DOMAIN s.list, row'[s.list[i].id] # None
               PROVE  /\ row'[s.list[i].id].status = "pending"
                      /\ row'[s.list[i].id].attempts = s.list[i].attempts
    BY DEF SameWork
  <2>1. s.list[i].id \in Delivery /\ change[s.list[i].id[1]] = "made"
    BY SessionParts DEF SessionInv, ListInv
  <2>2. /\ row[s.list[i].id] # None => /\ row[s.list[i].id].status = "pending"
                                       /\ row[s.list[i].id].attempts = s.list[i].attempts
    BY DEF CalmSession
  <2>3. QED
    BY <2>1, <2>2 DEF NothingAttempted
<1>2. \A d \in Delivery : row'[d] # None /\ t.draft[d] # None =>
        /\ row[d] # None /\ s.draft[d] # None
        /\ row'[d].status = "pending" /\ t.draft[d].attempts = tries'[d]
  <2> SUFFICES ASSUME NEW d \in Delivery, row'[d] # None, t.draft[d] # None
               PROVE  /\ row[d] # None /\ s.draft[d] # None
                      /\ row'[d].status = "pending" /\ t.draft[d].attempts = tries'[d]
    OBVIOUS
  <2>1. s.draft[d] # None /\ t.draft[d].attempts = s.draft[d].attempts
    BY DEF SameWork
  <2>2. change[d[1]] = "made"
    BY <2>1 DEF SessionInv, DraftInv
  <2>3. row[d] # None /\ row'[d].status = row[d].status /\ tries' = tries
    BY <2>2 DEF NothingAttempted
  <2>4. row[d].status = "pending" /\ s.draft[d].attempts = tries[d]
    BY <2>1, <2>3 DEF CalmSession
  <2>5. QED
    BY <2>1, <2>3, <2>4
<1>3. ASSUME NEW h \in Hook, Exists(h)', t.seen[h] # None
      PROVE  HasCause(t.seen[h], h, Failed(h) \cup Drafted(t, h))'
  <2>1. s.seen[h] # None /\ t.seen[h] = s.seen[h]
    BY <1>3 DEF SameWork
  <2>2. Exists(h)
    <3>1. Exists(h) \/ h \in removed
      BY <2>1 DEF SessionInv, SeenInv
    <3>2. QED
      BY <1>3, <3>1 DEF NothingAttempted
  <2>3. HasCause(s.seen[h], h, Failed(h) \cup Drafted(s, h))
    BY <2>1, <2>2 DEF CalmSession
  <2>4. Failed(h)' = Failed(h) /\ (HasRefused(h) => HasRefused(h)')
          /\ \A d \in Delivery : HookOf(d) = h /\ row[d] # None => row'[d] # None
    BY <1>3, <2>2, StoredCausesStay
  <2>5. Drafted(t, h)' = Drafted(s, h)
    <3>1. \A d \in Delivery : /\ t.draft[d] = None <=> s.draft[d] = None
                              /\ s.draft[d] # None => t.draft[d].status = s.draft[d].status
      BY DEF SameWork
    <3>2. QED
      BY <1>2, <2>4, <3>1 DEF Drafted
  <2>6. QED
    BY <2>1, <2>3, <2>4, <2>5 DEF HasCause
<1>4. QED
  BY <1>1, <1>2, <1>3 DEF CalmSession

\* So such a step keeps the account of a calm run.
LEMMA CausesStay ==
  ASSUME WebhooksTyped, session' \in [Drain -> Sessions],
         \A p \in Drain : SessionInv(session[p]), CalmInv, NothingAttempted
  PROVE  CalmInv'
<1> SUFFICES ASSUME calm
             PROVE  /\ \A p, q \in Drain : Running(p)' /\ Running(q)' => p = q
                    /\ \A p \in Drain : CalmSession(session[p])'
                    /\ \A d \in Delivery :
                         row'[d] # None /\ (\A p \in Drain : session'[p].draft[d] = None) =>
                           row'[d].attempts = tries'[d]
                    /\ \A h \in Hook : Exists(h)' => HasCause(hook[h], h, Failed(h))'
  <2>1. calm' = calm
    BY DEF NothingAttempted
  <2>2. QED
    BY <2>1 DEF CalmInv
<1>1. /\ \A p, q \in Drain : Running(p) /\ Running(q) => p = q
      /\ \A p \in Drain : CalmSession(session[p])
      /\ \A d \in Delivery :
           row[d] # None /\ (\A p \in Drain : session[p].draft[d] = None) =>
             row[d].attempts = tries[d]
      /\ \A h \in Hook : Exists(h) => HasCause(hook[h], h, Failed(h))
  BY DEF CalmInv
<1>2. \A p, q \in Drain : Running(p)' /\ Running(q)' => p = q
  BY <1>1 DEF NothingAttempted
<1>3. \A d \in Delivery :
        row'[d] # None /\ (\A p \in Drain : session'[p].draft[d] = None) =>
          row'[d].attempts = tries'[d]
  BY <1>1 DEF NothingAttempted, SameWork
<1>4. ASSUME NEW h \in Hook, Exists(h)' PROVE HasCause(hook[h], h, Failed(h))'
  <2>1. CASE Exists(h)
    <3>1. HasCause(hook[h], h, Failed(h))
      BY <1>1, <2>1
    <3>2. /\ hook'[h] = hook[h] /\ Failed(h)' = Failed(h)
          /\ HasRefused(h) => HasRefused(h)'
      BY <1>4, <2>1, StoredCausesStay
    <3>3. QED
      BY <3>1, <3>2 DEF HasCause
  <2>2. CASE ~Exists(h)
    <3>1. hook'[h].active /\ hook'[h].failures = 0
      BY <1>4, <2>2 DEF NothingAttempted
    <3>2. Failed(h)' \subseteq Delivery
      BY DEF Failed
    <3>3. Cardinality(Failed(h)') \in Nat
      BY <3>2, IdsDiffer, FS_Subset, FS_CardinalityType
    <3>4. hook'[h].failures <= Cardinality(Failed(h)')
      BY <3>1, <3>3
    <3>5. QED
      BY <3>1, <3>4 DEF HasCause
  <2>3. QED
    BY <2>1, <2>2
<1>5. ASSUME NEW p \in Drain PROVE CalmSession(session[p])'
  <2>1. /\ session[p] \in Sessions /\ SessionInv(session[p]) /\ CalmSession(session[p])
        /\ SameWork(session[p], session'[p]) /\ session'[p] \in Sessions
    BY <1>1 DEF WebhooksTyped, NothingAttempted
  <2>2. QED
    BY <2>1, SessionCausesStay
<1>6. QED
  BY <1>2, <1>3, <1>4, <1>5

-----------------------------------------------------------------------------
(* The invariant, step by step: the requests.                              *)

\* What a drain knows depends on the database and the history alone.
LEMMA StillHeld ==
  ASSUME UNCHANGED <<change, hook, removed, row, tries, accepted, refused>>,
         NEW s, SessionInv(s)
  PROVE  SessionInv(s)'
BY DEF SessionInv, ListInv, DraftInv, SeenInv, LockInv, InTodo, RowExists, Exists, Kept

\* A new endpoint, active and without failures, keeps the invariant.
LEMMA SubscribeKeeps ==
  ASSUME WebhookInv, NEW h \in Hook, Subscribe(h)
  PROVE  WebhookInv'
<1> DEFINE fresh == [active |-> TRUE, failures |-> 0]
<1>1. /\ WebhooksTyped /\ StoredInv /\ RowsHonest /\ LimitSwitchesOff /\ CalmInv
      /\ \A p \in Drain : SessionInv(session[p])
  BY DEF WebhookInv
<1>2. /\ ~Exists(h) /\ h \notin removed
      /\ hook' = [hook EXCEPT ![h] = fresh]
      /\ UNCHANGED <<change, removed, row, held, session, tries, accepted, refused, calm, crashes>>
  BY DEF Subscribe, history
<1>3. fresh \in HookRows /\ fresh # None /\ fresh.active /\ fresh.failures = 0
  BY NoneIsNoRow DEF HookRows
<1>4. /\ hook' \in [Hook -> HookRows \cup {None}]
      /\ \A g \in Hook : hook'[g] = IF g = h THEN fresh ELSE hook[g]
  BY <1>1, <1>2, <1>3 DEF WebhooksTyped
<1> HIDE DEF fresh
<1>5. /\ \A g \in Hook : Exists(g)' <=> Exists(g) \/ g = h
      /\ \A r : RowExists(r) => RowExists(r)'
  BY <1>2, <1>3, <1>4 DEF Exists, RowExists
<1>6. WebhooksTyped' /\ StoredInv' /\ RowsHonest'
  <2>1. WebhooksTyped'
    BY <1>1, <1>2, <1>4 DEF WebhooksTyped
  <2>2. StoredInv'
    BY <1>1, <1>2, <1>5, IdsDiffer DEF StoredInv, WebhooksTyped
  <2>3. RowsHonest'
    BY <1>1, <1>2 DEF RowsHonest
  <2>4. QED
    BY <2>1, <2>2, <2>3
<1>7. LimitSwitchesOff'
  <2>1. 0 < AutoDisableAfter
    BY WebhookAssumption DEF WebhookAssumption
  <2>2. QED
    BY <1>1, <1>3, <1>4, <1>5, <2>1 DEF LimitSwitchesOff
<1>8. ASSUME NEW p \in Drain PROVE SessionInv(session[p])'
  <2>1. WorldMoves
    BY <1>1, <1>2, <1>4, <1>5 DEF WorldMoves, WebhooksTyped, Kept
  <2>2. session[p] \in Sessions /\ SessionInv(session[p]) /\ SameButWaits(session[p], session[p])
    BY <1>1 DEF WebhooksTyped, SameButWaits
  <2>3. tries' \in [Delivery -> Nat]
    BY <1>1, <1>2 DEF WebhooksTyped
  <2>4. session'[p] = session[p]
    BY <1>2
  <2>5. QED
    BY <1>1, <1>5, <2>1, <2>2, <2>3, <2>4, OthersKeepTheirs
<1>9. CalmInv'
  <2>1. NothingAttempted
    BY <1>2, <1>3, <1>4, <1>5 DEF NothingAttempted, SameWork, Running
  <2>2. QED
    BY <1>1, <1>6, <2>1, CausesStay DEF WebhooksTyped
<1>10. QED
  BY <1>6, <1>7, <1>8, <1>9 DEF WebhookInv

\* Deleting an endpoint with its deliveries, none of them locked.
LEMMA DeleteWebhookKeeps ==
  ASSUME WebhookInv, NEW h \in Hook, DeleteWebhook(h)
  PROVE  WebhookInv'
<1>1. /\ WebhooksTyped /\ StoredInv /\ RowsHonest /\ LimitSwitchesOff /\ CalmInv
      /\ \A p \in Drain : SessionInv(session[p])
  BY DEF WebhookInv
<1>2. /\ Exists(h) /\ \A d \in held : HookOf(d) # h
      /\ hook' = [hook EXCEPT ![h] = None]
      /\ removed' = removed \cup {h}
      /\ UNCHANGED <<change, held, session, tries, accepted, refused, calm, crashes>>
  BY DEF DeleteWebhook, history
<1>3. /\ row' = [d \in Delivery |-> IF HookOf(d) = h THEN None ELSE row[d]]
      /\ \A p \in Drain : /\ h \notin session[p].locked
                          /\ \A d \in session[p].locked \cap Delivery :
                               HookOf(d) = h => row[d] = None
  BY <1>1 DEF DeleteWebhook, WebhooksTyped
<1>4. /\ hook' \in [Hook -> HookRows \cup {None}]
      /\ \A g \in Hook : hook'[g] = IF g = h THEN None ELSE hook[g]
      /\ \A g \in Hook : Exists(g)' <=> Exists(g) /\ g # h
  BY <1>1, <1>2 DEF WebhooksTyped, Exists
<1>5. /\ row' \in [Delivery -> Rows \cup {None}]
      /\ \A d \in Delivery : row'[d] = IF HookOf(d) = h THEN None ELSE row[d]
  BY <1>1, <1>3 DEF WebhooksTyped
<1>6. WebhooksTyped' /\ StoredInv' /\ RowsHonest' /\ LimitSwitchesOff'
  <2>1. WebhooksTyped'
    BY <1>1, <1>2, <1>4, <1>5 DEF WebhooksTyped
  <2>2. StoredInv'
    BY <1>1, <1>2, <1>4, <1>5, IdsDiffer DEF StoredInv, WebhooksTyped
  <2>3. RowsHonest'
    BY <1>1, <1>2, <1>5 DEF RowsHonest
  <2>4. LimitSwitchesOff'
    BY <1>1, <1>4 DEF LimitSwitchesOff
  <2>5. QED
    BY <2>1, <2>2, <2>3, <2>4
<1>7. ASSUME NEW p \in Drain PROVE SessionInv(session[p])'
  <2>1. WorldMoves
    BY <1>1, <1>2, <1>4, <1>5 DEF WorldMoves, WebhooksTyped, Kept
  <2>2. session[p] \in Sessions /\ SessionInv(session[p]) /\ SameButWaits(session[p], session[p])
    BY <1>1 DEF WebhooksTyped, SameButWaits
  <2>3. tries' \in [Delivery -> Nat]
    BY <1>1, <1>2 DEF WebhooksTyped
  <2>4. session'[p] = session[p]
    BY <1>2
  <2>5. \A r \in session[p].locked : RowExists(r) => RowExists(r)'
    <3>1. session[p].locked \subseteq Hook \cup Delivery
      BY <2>2, SessionParts
    <3>2. QED
      BY <1>3, <1>4, <1>5, <3>1, IdsDiffer DEF RowExists
  <2>6. QED
    BY <1>1, <2>1, <2>2, <2>3, <2>4, <2>5, OthersKeepTheirs
<1>8. CalmInv'
  <2>1. NothingAttempted
    BY <1>2, <1>4, <1>5 DEF NothingAttempted, SameWork, Running
  <2>2. QED
    BY <1>1, <1>6, <2>1, CausesStay DEF WebhooksTyped
<1>9. QED
  BY <1>6, <1>7, <1>8 DEF WebhookInv

\* Queueing an event for the endpoints that are active, uncommitted.
LEMMA EmitKeeps ==
  ASSUME WebhookInv, NEW c \in Change, Emit(c)
  PROVE  WebhookInv'
<1>1. /\ WebhooksTyped /\ StoredInv /\ RowsHonest /\ LimitSwitchesOff /\ CalmInv
      /\ \A p \in Drain : SessionInv(session[p])
  BY DEF WebhookInv
<1>2. /\ change[c] = "none"
      /\ change' = [change EXCEPT ![c] = "open"]
      /\ held' = held \cup {d \in Delivery : d[1] = c /\ Exists(HookOf(d)) /\ hook[HookOf(d)].active}
      /\ UNCHANGED <<hook, removed, row, session, tries, accepted, refused, calm, crashes>>
  BY DEF Emit, history
<1>3. /\ change' \in [Change -> {"none", "open", "made", "undone"}]
      /\ \A b \in Change : change'[b] = IF b = c THEN "open" ELSE change[b]
  BY <1>1, <1>2 DEF WebhooksTyped
<1>4. WebhooksTyped' /\ StoredInv' /\ RowsHonest' /\ LimitSwitchesOff'
  <2>1. WebhooksTyped'
    BY <1>1, <1>2, <1>3 DEF WebhooksTyped
  <2>2. StoredInv'
    <3>1. \A d \in Delivery : row'[d] # None => change'[d[1]] = "made" /\ Exists(HookOf(d))'
      BY <1>1, <1>2, <1>3, IdsDiffer DEF StoredInv, Exists
    <3>2. \A d \in held' : change'[d[1]] = "open" /\ Exists(HookOf(d))'
      <4>1. \A d \in held : d \in Delivery
        BY <1>1 DEF WebhooksTyped
      <4>2. QED
        BY <1>1, <1>2, <1>3, <4>1, IdsDiffer DEF StoredInv, Exists
    <3>3. \A d \in Delivery : tries'[d] <= MaxAttempts /\ (change'[d[1]] # "made" => tries'[d] = 0)
      BY <1>1, <1>2, <1>3, IdsDiffer DEF StoredInv
    <3>4. QED
      BY <1>1, <1>2, <3>1, <3>2, <3>3 DEF StoredInv, Exists
  <2>3. RowsHonest' /\ LimitSwitchesOff'
    BY <1>1, <1>2 DEF RowsHonest, LimitSwitchesOff, Exists
  <2>4. QED
    BY <2>1, <2>2, <2>3
<1>5. ASSUME NEW p \in Drain PROVE SessionInv(session[p])'
  <2>1. WorldMoves
    BY <1>1, <1>2, <1>3 DEF WorldMoves, WebhooksTyped, Exists, Kept
  <2>2. session[p] \in Sessions /\ SessionInv(session[p]) /\ SameButWaits(session[p], session[p])
    BY <1>1 DEF WebhooksTyped, SameButWaits
  <2>3. tries' \in [Delivery -> Nat]
    BY <1>1, <1>2 DEF WebhooksTyped
  <2>4. session'[p] = session[p]
    BY <1>2
  <2>5. \A r : RowExists(r) => RowExists(r)'
    BY <1>2 DEF RowExists, Exists
  <2>6. QED
    BY <1>1, <2>1, <2>2, <2>3, <2>4, <2>5, OthersKeepTheirs
<1>6. CalmInv'
  <2>1. NothingAttempted
    BY <1>2 DEF NothingAttempted, SameWork, Running, Exists
  <2>2. QED
    BY <1>1, <1>4, <2>1, CausesStay DEF WebhooksTyped
<1>7. QED
  BY <1>4, <1>5, <1>6 DEF WebhookInv

\* Committing or undoing the request that queued it.
LEMMA EndRequestKeeps ==
  ASSUME WebhookInv, NEW c \in Change, NEW outcome \in {"made", "undone"},
         EndRequest(c, outcome)
  PROVE  WebhookInv'
<1> DEFINE queued == [status |-> "pending", attempts |-> 0, wait |-> 0]
           new == {d \in held : d[1] = c /\ outcome = "made"}
<1>1. /\ WebhooksTyped /\ StoredInv /\ RowsHonest /\ LimitSwitchesOff /\ CalmInv
      /\ \A p \in Drain : SessionInv(session[p])
  BY DEF WebhookInv
<1>2. /\ change[c] = "open"
      /\ change' = [change EXCEPT ![c] = outcome]
      /\ held' = {d \in held : d[1] # c}
      /\ UNCHANGED <<hook, removed, session, tries, accepted, refused, calm, crashes>>
  BY DEF EndRequest, history
<1>3. row' = [d \in Delivery |-> IF d \in new THEN queued ELSE row[d]]
  BY DEF EndRequest
<1>4. /\ queued \in Rows /\ queued # None
      /\ queued.status = "pending" /\ queued.attempts = 0
  <2>1. queued \in Rows
    BY AttemptBounds, NoneIsNoRow DEF Rows
  <2>2. QED
    BY <2>1, NoneIsNoRow
<1>5. /\ new \subseteq Delivery
      /\ \A d \in new : /\ d[1] = c /\ outcome = "made" /\ Exists(HookOf(d))
                        /\ row[d] = None /\ tries[d] = 0
  BY <1>1, <1>2 DEF StoredInv, WebhooksTyped
<1> HIDE DEF queued, new
<1>6. /\ change' \in [Change -> {"none", "open", "made", "undone"}]
      /\ \A b \in Change : change'[b] = IF b = c THEN outcome ELSE change[b]
  BY <1>1, <1>2 DEF WebhooksTyped
<1>7. /\ row' \in [Delivery -> Rows \cup {None}]
      /\ \A d \in Delivery : row'[d] = IF d \in new THEN queued ELSE row[d]
  BY <1>1, <1>3, <1>4 DEF WebhooksTyped
<1>8. WebhooksTyped' /\ StoredInv' /\ RowsHonest' /\ LimitSwitchesOff'
  <2>1. WebhooksTyped'
    BY <1>1, <1>2, <1>6, <1>7 DEF WebhooksTyped
  <2>2. StoredInv'
    <3>1. \A d \in Delivery : row'[d] # None => change'[d[1]] = "made" /\ Exists(HookOf(d))'
      BY <1>1, <1>2, <1>5, <1>6, <1>7, IdsDiffer DEF StoredInv, Exists
    <3>2. \A d \in held' : change'[d[1]] = "open" /\ Exists(HookOf(d))'
      <4>1. \A d \in held : d \in Delivery
        BY <1>1 DEF WebhooksTyped
      <4>2. QED
        BY <1>1, <1>2, <1>6, <4>1, IdsDiffer DEF StoredInv, Exists
    <3>3. \A d \in Delivery : tries'[d] <= MaxAttempts /\ (change'[d[1]] # "made" => tries'[d] = 0)
      BY <1>1, <1>2, <1>6, IdsDiffer DEF StoredInv
    <3>4. QED
      BY <1>1, <1>2, <3>1, <3>2, <3>3 DEF StoredInv, Exists
  <2>3. RowsHonest'
    <3> SUFFICES ASSUME NEW d \in Delivery, row'[d] # None
                 PROVE  /\ row'[d].attempts <= tries'[d]
                        /\ row'[d].status = "delivered" => d \in accepted'
                        /\ row'[d].status = "failed" => d \in refused' \/ tries'[d] >= MaxAttempts
      BY DEF RowsHonest
    <3>1. CASE d \in new
      BY <1>2, <1>4, <1>5, <1>7, <3>1
    <3>2. CASE d \notin new
      BY <1>1, <1>2, <1>7, <3>2 DEF RowsHonest
    <3>3. QED
      BY <3>1, <3>2
  <2>4. LimitSwitchesOff'
    BY <1>1, <1>2 DEF LimitSwitchesOff, Exists
  <2>5. QED
    BY <2>1, <2>2, <2>3, <2>4
<1>9. ASSUME NEW p \in Drain PROVE SessionInv(session[p])'
  <2>1. WorldMoves
    <3>1. \A d \in Delivery : change[d[1]] = "made" /\ row'[d] # None => row[d] # None
      BY <1>2, <1>5, <1>7
    <3>2. \A d \in Delivery : tries[d] <= tries'[d]
      BY <1>1, <1>2 DEF WebhooksTyped
    <3>3. QED
      BY <1>1, <1>2, <1>4, <1>6, <1>7, <3>1, <3>2 DEF WorldMoves, Exists, Kept
  <2>2. session[p] \in Sessions /\ SessionInv(session[p]) /\ SameButWaits(session[p], session[p])
    BY <1>1 DEF WebhooksTyped, SameButWaits
  <2>3. tries' \in [Delivery -> Nat]
    BY <1>1, <1>2 DEF WebhooksTyped
  <2>4. session'[p] = session[p]
    BY <1>2
  <2>5. \A r \in session[p].locked : RowExists(r) => RowExists(r)'
    <3>1. session[p].locked \subseteq Hook \cup Delivery
      BY <2>2, SessionParts
    <3>2. QED
      BY <1>2, <1>4, <1>7, <3>1 DEF RowExists, Exists
  <2>6. QED
    BY <1>1, <2>1, <2>2, <2>3, <2>4, <2>5, OthersKeepTheirs
<1>10. CalmInv'
  <2>1. NothingAttempted
    <3>1. \A d \in Delivery : row'[d] # None =>
            \/ /\ row[d] # None /\ row'[d].status = row[d].status
               /\ row'[d].attempts = row[d].attempts
            \/ /\ row[d] = None /\ change[d[1]] # "made"
               /\ row'[d].status = "pending" /\ row'[d].attempts = tries[d]
      BY <1>2, <1>4, <1>5, <1>7
    <3>2. \A d \in Delivery : row[d] # None => row'[d] # None
      BY <1>4, <1>7
    <3>3. QED
      BY <1>2, <3>1, <3>2 DEF NothingAttempted, SameWork, Running, Exists
  <2>2. QED
    BY <1>1, <1>8, <2>1, CausesStay DEF WebhooksTyped
<1>11. QED
  BY <1>8, <1>9, <1>10 DEF WebhookInv

-----------------------------------------------------------------------------
(* Time, and a drain that starts.                                          *)

\* A row that has waited a tick longer is a row with the same story.
LEMMA OlderIsARow ==
  ASSUME NEW r \in Rows
  PROVE  /\ Older(r) \in Rows /\ Older(r) # None
         /\ Older(r).status = r.status /\ Older(r).attempts = r.attempts
<1>1. Overdue \in Nat /\ MaxAttempts \in Nat
  BY WebhookAssumption, AttemptBounds DEF WebhookAssumption
<1>2. /\ r \in [status : {"pending", "delivered", "failed"}, attempts : 0..MaxAttempts,
                wait : Int \cup {None}]
      /\ r.status = "pending" => r.attempts < MaxAttempts /\ r.wait # None
  BY DEF Rows
<1>3. /\ Closer(r.wait) \in Int \cup {None}
      /\ r.wait # None => Closer(r.wait) # None
  BY <1>1, <1>2, NoneIsNoRow DEF Closer
<1>4. r # None /\ Older(r) = [r EXCEPT !.wait = Closer(r.wait)]
  BY NoneIsNoRow DEF Older
<1>5. /\ Older(r) \in [status : {"pending", "delivered", "failed"}, attempts : 0..MaxAttempts,
                       wait : Int \cup {None}]
      /\ Older(r).status = r.status /\ Older(r).attempts = r.attempts
      /\ Older(r).wait = Closer(r.wait)
  BY <1>2, <1>3, <1>4
<1>6. Older(r) \in Rows
  BY <1>2, <1>3, <1>5 DEF Rows
<1>7. QED
  BY <1>5, <1>6, NoneIsNoRow

(* A session a tick later.                                                 *)
Later(s) == [s EXCEPT !.draft = [d \in Delivery |-> Older(s.draft[d])]]

\* And a drain that holds it is the same drain.
LEMMA LaterIsASession ==
  ASSUME NEW s \in Sessions
  PROVE  /\ Later(s) \in Sessions /\ SameButWaits(s, Later(s))
         /\ s = NoSession => Later(s) = NoSession
<1> DEFINE draft == [d \in Delivery |-> Older(s.draft[d])]
<1>1. s.draft \in [Delivery -> Rows \cup {None}]
  BY SessionParts
<1>2. \A d \in Delivery : s.draft[d] # None =>
        /\ draft[d] \in Rows /\ draft[d] # None /\ draft[d].status = s.draft[d].status
        /\ draft[d].attempts = s.draft[d].attempts
  BY <1>1, OlderIsARow
<1>3. \A d \in Delivery : s.draft[d] = None => draft[d] = None
  BY DEF Older
<1>4. draft \in [Delivery -> Rows \cup {None}]
  BY <1>2, <1>3
<1>5. s = NoSession => draft = NoSession.draft
  BY DEF NoSession, Older
<1>6. Later(s) = [s EXCEPT !.draft = draft]
  BY DEF Later
<1> HIDE DEF draft
<1>7. /\ Later(s) \in Sessions /\ Later(s).draft = draft
      /\ Later(s).list = s.list /\ Later(s).todo = s.todo /\ Later(s).seen = s.seen
      /\ Later(s).wrote = s.wrote /\ Later(s).locked = s.locked
  BY <1>4, <1>6 DEF Sessions
<1>8. SameButWaits(s, Later(s))
  BY <1>2, <1>3, <1>7 DEF SameButWaits
<1>9. ASSUME s = NoSession PROVE Later(s) = NoSession
  BY <1>5, <1>6, <1>9 DEF NoSession
<1>10. QED
  BY <1>7, <1>8, <1>9

\* The passing of time keeps the invariant.
LEMMA TickKeeps ==
  ASSUME WebhookInv, Tick
  PROVE  WebhookInv'
<1>1. /\ WebhooksTyped /\ StoredInv /\ RowsHonest /\ LimitSwitchesOff /\ CalmInv
      /\ \A p \in Drain : SessionInv(session[p])
  BY DEF WebhookInv
<1>2. /\ UNCHANGED <<change, hook, removed, held, tries, accepted, refused, calm, crashes>>
      /\ row' = [d \in Delivery |-> Older(row[d])]
      /\ session' = [p \in Drain |-> Later(session[p])]
  BY DEF Tick, history, Later
<1>3. /\ row' \in [Delivery -> Rows \cup {None}]
      /\ \A d \in Delivery : /\ row'[d] # None <=> row[d] # None
                             /\ row[d] # None => /\ row'[d].status = row[d].status
                                                 /\ row'[d].attempts = row[d].attempts
  <2>1. row \in [Delivery -> Rows \cup {None}]
    BY <1>1 DEF WebhooksTyped
  <2>2. \A d \in Delivery : row[d] # None =>
          /\ row'[d] \in Rows /\ row'[d] # None
          /\ row'[d].status = row[d].status /\ row'[d].attempts = row[d].attempts
    BY <1>2, <2>1, OlderIsARow
  <2>3. \A d \in Delivery : row[d] = None => row'[d] = None
    BY <1>2 DEF Older
  <2>4. row' \in [Delivery -> Rows \cup {None}]
    <3>1. \A d \in Delivery : row'[d] \in Rows \cup {None}
      BY <2>2, <2>3
    <3>2. row' = [d \in Delivery |-> row'[d]]
      BY <1>2
    <3>3. QED
      BY <3>1, <3>2
  <2>5. QED
    BY <2>2, <2>3, <2>4
<1>4. /\ session' \in [Drain -> Sessions]
      /\ \A p \in Drain : SameButWaits(session[p], session'[p])
      /\ \A p \in Drain : Running(p)' => Running(p)
  BY <1>1, <1>2, LaterIsASession DEF WebhooksTyped, Running
<1>5. WebhooksTyped' /\ StoredInv' /\ RowsHonest' /\ LimitSwitchesOff'
  <2>1. WebhooksTyped'
    BY <1>1, <1>2, <1>3, <1>4 DEF WebhooksTyped
  <2>2. StoredInv'
    BY <1>1, <1>2, <1>3 DEF StoredInv, Exists
  <2>3. RowsHonest' /\ LimitSwitchesOff'
    BY <1>1, <1>2, <1>3 DEF RowsHonest, LimitSwitchesOff, Exists
  <2>4. QED
    BY <2>1, <2>2, <2>3
<1>6. ASSUME NEW p \in Drain PROVE SessionInv(session[p])'
  <2>1. WorldMoves
    BY <1>1, <1>2, <1>3 DEF WorldMoves, WebhooksTyped, Exists, Kept
  <2>2. /\ session[p] \in Sessions /\ SessionInv(session[p])
        /\ session'[p] \in Sessions /\ SameButWaits(session[p], session'[p])
    BY <1>1, <1>4 DEF WebhooksTyped
  <2>3. tries' \in [Delivery -> Nat]
    BY <1>1, <1>2 DEF WebhooksTyped
  <2>4. \A r \in session[p].locked : RowExists(r) => RowExists(r)'
    <3>1. session[p].locked \subseteq Hook \cup Delivery
      BY <2>2, SessionParts
    <3>2. QED
      BY <1>2, <1>3, <3>1 DEF RowExists, Exists
  <2>5. QED
    BY <1>1, <2>1, <2>2, <2>3, <2>4, OthersKeepTheirs
<1>7. CalmInv'
  <2>1. NothingAttempted
    BY <1>2, <1>3, <1>4 DEF NothingAttempted, SameWork, SameButWaits, Exists
  <2>2. QED
    BY <1>1, <1>5, <2>1, CausesStay DEF WebhooksTyped
<1>8. QED
  BY <1>5, <1>6, <1>7 DEF WebhookInv

(* The due deliveries are different ones that wait in the table.           *)
LEMMA StartDrainKeeps ==
  ASSUME WebhookInv, NEW p \in Drain, StartDrain(p)
  PROVE  WebhookInv'
<1>1. /\ WebhooksTyped /\ StoredInv /\ RowsHonest /\ LimitSwitchesOff /\ CalmInv
      /\ \A q \in Drain : SessionInv(session[q])
  BY DEF WebhookInv
<1>2. /\ session[p] = NoSession
      /\ calm' = (calm /\ \A q \in Drain : ~Running(q))
      /\ UNCHANGED <<change, hook, removed, row, held, tries, accepted, refused, crashes>>
  BY DEF StartDrain, Running, database
<1>3. PICK s \in DueLists :
        session' = [session EXCEPT ![p].list =
                      [i \in DOMAIN s |-> [id |-> s[i], attempts |-> row[s[i]].attempts]]]
  BY DEF StartDrain
<1> DEFINE list == [i \in DOMAIN s |-> [id |-> s[i], attempts |-> row[s[i]].attempts]]
           started == [NoSession EXCEPT !.list = list]
<1>4. /\ s \in Seq(Delivery)
      /\ \A i \in DOMAIN s : /\ s[i] \in Delivery /\ row[s[i]] # None
                             /\ row[s[i]].status = "pending"
      /\ \A i, j \in DOMAIN s : s[i] = s[j] => i = j
  <2> DEFINE due == {d \in Delivery : IsDue(d)}
             n == IF Cardinality(due) <= Limit THEN Cardinality(due) ELSE Limit
  <2>1. /\ s \in [1..n -> due]
        /\ \A i, j \in 1..n : i < j => s[i] # s[j]
    BY DEF DueLists
  <2>2. n \in Nat
    <3>1. Cardinality(due) \in Nat
      BY IdsDiffer, FS_Subset, FS_CardinalityType
    <3>2. QED
      BY <3>1, WebhookAssumption DEF WebhookAssumption
  <2>3. DOMAIN s = 1..n /\ s \in Seq(due)
    <3> HIDE DEF due, n
    <3>1. QED
      BY <2>1, <2>2
  <2>4. due \subseteq Delivery /\ \A d \in due : row[d] # None /\ row[d].status = "pending"
    BY DEF IsDue
  <2> HIDE DEF due, n
  <2>5. \A i \in DOMAIN s : s[i] \in due
    BY <2>1, <2>3
  <2>6. \A i, j \in DOMAIN s : s[i] = s[j] => i = j
    <3> SUFFICES ASSUME NEW i \in 1..n, NEW j \in 1..n, i # j PROVE s[i] # s[j]
      BY <2>3
    <3>1. i < j \/ j < i
      BY <2>2
    <3>2. QED
      BY <2>1, <3>1
  <2>7. s \in Seq(Delivery)
    BY <2>3, <2>4
  <2>8. QED
    BY <2>4, <2>5, <2>6, <2>7
<1>5. \A i \in DOMAIN s : row[s[i]] \in Rows
  BY <1>1, <1>4 DEF WebhooksTyped
<1>6. /\ list \in Seq([id : Delivery, attempts : Nat]) /\ DOMAIN list = DOMAIN s
      /\ \A i \in DOMAIN list : list[i].id = s[i] /\ list[i].attempts = row[s[i]].attempts
  <2>1. \A i \in DOMAIN s : row[s[i]].attempts \in Nat
    BY <1>5, RowParts
  <2>2. Len(s) \in Nat /\ DOMAIN s = 1..Len(s)
    BY <1>4
  <2>3. list \in [1..Len(s) -> [id : Delivery, attempts : Nat]]
    BY <1>4, <2>1, <2>2
  <2>4. QED
    BY <2>2, <2>3
<1> HIDE DEF list
<1>7. /\ started \in Sessions /\ started.list = list
      /\ started.todo = <<>> /\ started.locked = {}
      /\ \A d \in Delivery : started.draft[d] = None
      /\ \A h \in Hook : started.seen[h] = None /\ started.wrote[h] = {}
  BY <1>6, NothingHeld DEF Sessions
<1>8. /\ session' \in [Drain -> Sessions]
      /\ \A q \in Drain : session'[q] = IF q = p THEN started ELSE session[q]
  BY <1>1, <1>2, <1>3, <1>7 DEF WebhooksTyped, list
<1> HIDE DEF started
<1>9. WebhooksTyped' /\ StoredInv' /\ RowsHonest' /\ LimitSwitchesOff'
  <2>1. WebhooksTyped'
    BY <1>1, <1>2, <1>8 DEF WebhooksTyped
  <2>2. StoredInv' /\ RowsHonest' /\ LimitSwitchesOff'
    BY <1>1, <1>2 DEF StoredInv, RowsHonest, LimitSwitchesOff, Exists
  <2>3. QED
    BY <2>1, <2>2
<1>10. SessionInv(started)
  <2>1. ListInv(started)
    <3> SUFFICES ASSUME NEW i \in DOMAIN s
                 PROVE  /\ list[i].attempts < MaxAttempts
                        /\ list[i].attempts <= tries[list[i].id]
                        /\ change[list[i].id[1]] = "made" /\ Kept(list[i].id)
                        /\ started.draft[list[i].id] = None
                        /\ \A j \in DOMAIN s : list[j].id = list[i].id => i = j
      BY <1>6, <1>7 DEF ListInv
    <3>1. list[i].id = s[i] /\ list[i].attempts = row[s[i]].attempts
      BY <1>6
    <3>2. row[s[i]].attempts < MaxAttempts
      BY <1>4, <1>5, RowParts
    <3>3. row[s[i]].attempts <= tries[s[i]] /\ change[s[i][1]] = "made"
      BY <1>1, <1>4 DEF RowsHonest, StoredInv
    <3>4. QED
      BY <1>4, <1>6, <1>7, <3>1, <3>2, <3>3 DEF Kept
  <2>2. DraftInv(started) /\ SeenInv(started) /\ LockInv(started)
    BY <1>7 DEF DraftInv, SeenInv, LockInv
  <2>3. QED
    BY <2>1, <2>2 DEF SessionInv
<1>11. ASSUME NEW q \in Drain PROVE SessionInv(session[q])'
  <2>1. SessionInv(session'[q])
    BY <1>1, <1>8, <1>10
  <2>2. QED
    BY <1>2, <2>1, StillHeld
<1>12. CalmInv'
  <2> SUFFICES ASSUME calm, \A q \in Drain : session[q] = NoSession PROVE CalmInv'
    BY <1>2 DEF CalmInv, Running
  <2>1. \A q \in Drain : Running(q)' => q = p
    BY <1>8 DEF Running
  <2>2. \A d \in Delivery : row[d] # None => row[d].attempts = tries[d]
    BY <1>1, NothingHeld DEF CalmInv
  <2>3. CalmSession(started)
    <3>1. \A i \in DOMAIN started.list :
            /\ row[started.list[i].id].status = "pending"
            /\ row[started.list[i].id].attempts = started.list[i].attempts
      BY <1>4, <1>6, <1>7
    <3>2. QED
      BY <1>7, <3>1 DEF CalmSession
  <2>4. ASSUME NEW q \in Drain PROVE CalmSession(session[q])'
    <3>1. CalmSession(session'[q])
      BY <1>8, <2>3, NothingHeld
    <3>2. QED
      BY <1>2, <3>1 DEF CalmSession, HasCause, HasRefused, Failed, Drafted, Exists
  <2>5. \A d \in Delivery : row'[d] # None => row'[d].attempts = tries'[d]
    BY <1>2, <2>2
  <2>6. ASSUME NEW h \in Hook, Exists(h)' PROVE HasCause(hook[h], h, Failed(h))'
    <3>1. HasCause(hook[h], h, Failed(h))
      BY <1>1, <1>2, <2>6 DEF CalmInv, Exists
    <3>2. QED
      BY <1>2, <3>1 DEF HasCause, HasRefused, Failed
  <2>7. QED
    BY <2>1, <2>4, <2>5, <2>6 DEF CalmInv
<1>13. QED
  BY <1>9, <1>11, <1>12 DEF WebhookInv

-----------------------------------------------------------------------------
(* Flushes and rollbacks.                                                  *)

(* A session whose next flush has been granted its lock.                   *)
Granted(s) == [s EXCEPT !.locked = @ \cup {Head(s.todo)}, !.todo = Tail(s.todo)]

\* Being granted the lock of the next row keeps what a drain knows.
LEMMA GrantedIsASession ==
  ASSUME NEW s \in Sessions, s.todo # <<>>
  PROVE  /\ Granted(s) \in Sessions /\ SameWork(s, Granted(s)) /\ s # NoSession
         /\ Head(s.todo) \in Hook \cup Delivery
         /\ SessionInv(s) /\ RowExists(Head(s.todo)) => SessionInv(Granted(s))
<1> DEFINE t == Granted(s)
           r == Head(s.todo)
<1>1. s.todo \in Seq(Hook \cup Delivery) /\ s.locked \subseteq Hook \cup Delivery
  BY SessionParts
<1>2. /\ r \in Hook \cup Delivery /\ Tail(s.todo) \in Seq(Hook \cup Delivery)
      /\ 1 \in DOMAIN s.todo /\ r = s.todo[1]
      /\ \A i \in DOMAIN s.todo : i = 1 \/ (i - 1 \in DOMAIN Tail(s.todo)
                                            /\ Tail(s.todo)[i - 1] = s.todo[i])
  BY <1>1, FirstAndRest
<1>3. /\ t \in Sessions /\ t.list = s.list /\ t.draft = s.draft /\ t.seen = s.seen
      /\ t.wrote = s.wrote /\ t.locked = s.locked \cup {r} /\ t.todo = Tail(s.todo)
  BY <1>1, <1>2 DEF Granted, Sessions
<1>4. \A x : x \in s.locked \/ InTodo(s, x) => x \in t.locked \/ InTodo(t, x)
  BY <1>2, <1>3 DEF InTodo
<1> HIDE DEF t, r
<1>5. SameWork(s, t)
  BY <1>3 DEF SameWork
<1>6. ASSUME SessionInv(s), RowExists(r) PROVE SessionInv(t)
  <2>1. ListInv(t)
    BY <1>3, <1>6 DEF SessionInv, ListInv
  <2>2. DraftInv(t)
    BY <1>3, <1>4, <1>6 DEF SessionInv, DraftInv
  <2>3. SeenInv(t)
    BY <1>3, <1>4, <1>6 DEF SessionInv, SeenInv
  <2>4. LockInv(t)
    BY <1>3, <1>6 DEF SessionInv, LockInv
  <2>5. QED
    BY <2>1, <2>2, <2>3, <2>4 DEF SessionInv
<1>7. s # NoSession
  BY NothingHeld
<1>8. QED
  BY <1>2, <1>3, <1>5, <1>6, <1>7 DEF t, r

(* A step that only rewrites sessions, and attempts nothing.               *)
LEMMA SessionStepKeeps ==
  ASSUME WebhookInv, UNCHANGED <<database, tries, accepted, refused>>,
         session' \in [Drain -> Sessions], calm' \in BOOLEAN, crashes' \in Nat,
         \A p \in Drain : SessionInv(session'[p]),
         calm' => NothingAttempted
  PROVE  WebhookInv'
<1>1. /\ WebhooksTyped /\ StoredInv /\ RowsHonest /\ LimitSwitchesOff /\ CalmInv
      /\ \A p \in Drain : SessionInv(session[p])
  BY DEF WebhookInv
<1>2. UNCHANGED <<change, hook, removed, row, held, tries, accepted, refused>>
  BY DEF database
<1>3. WebhooksTyped'
  BY <1>1, <1>2 DEF WebhooksTyped
<1>4. StoredInv' /\ RowsHonest' /\ LimitSwitchesOff'
  BY <1>1, <1>2 DEF StoredInv, RowsHonest, LimitSwitchesOff, Exists
<1>5. ASSUME NEW p \in Drain PROVE SessionInv(session[p])'
  BY <1>2, StillHeld
<1>6. CalmInv'
  <2>1. CASE calm'
    BY <1>1, <2>1, CausesStay
  <2>2. CASE ~calm'
    BY <2>2 DEF CalmInv
  <2>3. QED
    BY <2>1, <2>2
<1>7. QED
  BY <1>3, <1>4, <1>5, <1>6 DEF WebhookInv

\* Flushing one row, once its lock is free.
LEMMA WriteKeeps ==
  ASSUME WebhookInv, NEW p \in Drain, Write(p)
  PROVE  WebhookInv'
<1>1. /\ WebhooksTyped /\ \A q \in Drain : session[q] \in Sessions /\ SessionInv(session[q])
  BY DEF WebhookInv, WebhooksTyped
<1>2. /\ session[p].todo # <<>> /\ RowExists(Head(session[p].todo))
      /\ session' = [session EXCEPT ![p] = Granted(session[p])]
      /\ UNCHANGED <<database, tries, accepted, refused, calm, crashes>>
  BY DEF Write, Granted, history
<1>3. /\ Granted(session[p]) \in Sessions /\ SameWork(session[p], Granted(session[p]))
      /\ session[p] # NoSession /\ SessionInv(Granted(session[p]))
  BY <1>1, <1>2, GrantedIsASession
<1>4. /\ session' \in [Drain -> Sessions]
      /\ \A q \in Drain : session'[q] = IF q = p THEN Granted(session[p]) ELSE session[q]
  BY <1>1, <1>2, <1>3 DEF WebhooksTyped
<1>5. \A q \in Drain : SessionInv(session'[q])
  BY <1>1, <1>3, <1>4
<1>6. calm' \in BOOLEAN /\ crashes' \in Nat
  BY <1>1, <1>2 DEF WebhooksTyped
<1>7. NothingAttempted
  <2>1. \A q \in Drain : SameWork(session[q], session'[q])
    BY <1>3, <1>4 DEF SameWork
  <2>2. \A q \in Drain : Running(q)' => Running(q)
    BY <1>3, <1>4 DEF Running
  <2>3. QED
    BY <1>2, <2>1, <2>2 DEF NothingAttempted, database, Exists
<1>8. QED
  BY <1>2, <1>4, <1>5, <1>6, <1>7, SessionStepKeeps

\* A drain that loses its transaction loses all it knew.
LEMMA RollbackKeeps ==
  ASSUME WebhookInv, NEW p \in Drain, Rollback(p), crashes' \in Nat
  PROVE  WebhookInv'
<1>1. /\ WebhooksTyped /\ \A q \in Drain : SessionInv(session[q])
  BY DEF WebhookInv
<1>2. /\ session' = [session EXCEPT ![p] = NoSession]
      /\ ~calm' /\ calm' \in BOOLEAN
      /\ UNCHANGED <<database, tries, accepted, refused>>
  BY DEF Rollback
<1>3. /\ session' \in [Drain -> Sessions]
      /\ \A q \in Drain : session'[q] = IF q = p THEN NoSession ELSE session[q]
  BY <1>1, <1>2, NothingHeld DEF WebhooksTyped
<1>4. \A q \in Drain : SessionInv(session'[q])
  BY <1>1, <1>3, NothingHeld
<1>5. QED
  BY <1>2, <1>3, <1>4, SessionStepKeeps

\* The database ends one of two drains that wait for each other, and grants
\* the other its lock.
LEMMA BreakDeadlockKeeps ==
  ASSUME WebhookInv, NEW p \in Drain, BreakDeadlock(p)
  PROVE  WebhookInv'
<1>1. /\ WebhooksTyped /\ \A q \in Drain : session[q] \in Sessions /\ SessionInv(session[q])
  BY DEF WebhookInv, WebhooksTyped
<1>2. PICK q \in Drain :
        /\ WaitsFor(p, q) /\ WaitsFor(q, p)
        /\ session' = [session EXCEPT ![p] = NoSession,
                                      ![q].locked = @ \cup {Head(session[q].todo)},
                                      ![q].todo = Tail(@)]
        /\ calm' = FALSE
        /\ UNCHANGED <<database, tries, accepted, refused, crashes>>
  BY DEF BreakDeadlock
<1>3. p # q /\ session[q].todo # <<>> /\ Head(session[q].todo) \in session[p].locked
  BY <1>2 DEF WaitsFor
<1>4. RowExists(Head(session[q].todo))
  BY <1>1, <1>3 DEF SessionInv, LockInv
<1>5. Granted(session[q]) \in Sessions /\ SessionInv(Granted(session[q]))
  BY <1>1, <1>3, <1>4, GrantedIsASession
<1>6. \A o \in Drain : session'[o] = IF o = p THEN NoSession
                                     ELSE IF o = q THEN Granted(session[q]) ELSE session[o]
  BY <1>1, <1>2, <1>3 DEF WebhooksTyped, Granted
<1>7. session' \in [Drain -> Sessions]
  <2>1. session' = [o \in Drain |-> session'[o]]
    BY <1>1, <1>2 DEF WebhooksTyped
  <2>2. \A o \in Drain : session'[o] \in Sessions
    BY <1>1, <1>5, <1>6, NothingHeld
  <2>3. QED
    BY <2>1, <2>2
<1>8. \A o \in Drain : SessionInv(session'[o])
  BY <1>1, <1>5, <1>6, NothingHeld
<1>9. crashes' \in Nat
  BY <1>1, <1>2 DEF WebhooksTyped
<1>10. QED
  BY <1>2, <1>7, <1>8, <1>9, SessionStepKeeps

-----------------------------------------------------------------------------
(* An attempt.                                                             *)

(* What an attempt leaves of the delivery.                                 *)
LEMMA OutcomeIsARow ==
  ASSUME NEW answer \in Answer, NEW n \in Nat, 1 <= n, n <= MaxAttempts
  PROVE  /\ Outcome(answer, n) \in Rows /\ Outcome(answer, n) # None
         /\ Outcome(answer, n).attempts = n
         /\ Outcome(answer, n).status = StatusAfter(answer, n)
         /\ StatusAfter(answer, n) = "delivered" => answer = "ok"
         /\ StatusAfter(answer, n) = "failed" =>
              answer \in {"gone", "terminal", "rejected"} \/ n >= MaxAttempts
         /\ answer # "retry" => StatusAfter(answer, n) # "pending"
<1> DEFINE status == StatusAfter(answer, n)
<1>1. MaxAttempts \in Nat
  BY AttemptBounds
<1>2. /\ status \in {"pending", "delivered", "failed"}
      /\ status = "delivered" => answer = "ok"
      /\ status = "failed" => answer \in {"gone", "terminal", "rejected"} \/ n >= MaxAttempts
      /\ status = "pending" => answer = "retry" /\ ~(n >= MaxAttempts)
  BY DEF StatusAfter, GivesUp, Answer
<1>3. Outcome(answer, n) = [status |-> status, attempts |-> n,
                            wait |-> IF status = "pending" THEN Backoff[n] ELSE None]
  BY DEF Outcome
<1> HIDE DEF status
<1>4. status = "pending" => n < MaxAttempts /\ Backoff[n] \in Int /\ Backoff[n] # None
  <2> SUFFICES ASSUME status = "pending"
               PROVE  n < MaxAttempts /\ Backoff[n] \in Int /\ Backoff[n] # None
    OBVIOUS
  <2>1. n < MaxAttempts /\ n \in 1..(MaxAttempts - 1)
    BY <1>1, <1>2
  <2>2. Backoff[n] \in Nat \ {0}
    BY <2>1, AttemptBounds
  <2>3. Backoff[n] \in Int
    BY <2>2
  <2>4. QED
    BY <2>1, <2>3, NoneIsNoRow
<1>5. n \in 0..MaxAttempts
  BY <1>1
<1>6. Outcome(answer, n) \in Rows
  BY <1>2, <1>3, <1>4, <1>5 DEF Rows
<1>7. QED
  BY <1>2, <1>3, <1>6, NoneIsNoRow DEF status

(* What an attempt leaves of the endpoint: only a settled delivery changes *)
(* it, and what was off stays off.                                         *)
LEMMA JudgedIsARow ==
  ASSUME NEW answer \in Answer, NEW n, NEW e \in HookRows,
         e.active => e.failures < AutoDisableAfter,
         NEW judged, judged = Judge(answer, StatusAfter(answer, n), e)
  PROVE  /\ judged \in HookRows /\ judged # None
         /\ judged.active => e.active /\ judged.failures < AutoDisableAfter
         /\ Changed(e, judged) \subseteq {"active", "failures"}
         /\ e.active # judged.active => "active" \in Changed(e, judged)
         /\ "active" \in Changed(e, judged) => ~judged.active
         /\ StatusAfter(answer, n) = "pending" => Changed(e, judged) = {}
         /\ \/ answer \in {"gone", "terminal", "rejected"}
            \/ judged.failures <= e.failures /\ (~judged.active => ~e.active)
            \/ /\ answer = "retry" /\ StatusAfter(answer, n) = "failed"
               /\ judged.failures = e.failures + 1
               /\ ~judged.active => ~e.active \/ judged.failures >= AutoDisableAfter
<1> DEFINE status == StatusAfter(answer, n)
           counts == answer = "terminal" \/ (answer = "retry" /\ status = "failed")
           failures == IF counts THEN e.failures + 1 ELSE IF answer = "ok" THEN 0 ELSE e.failures
           active == /\ e.active /\ answer \notin {"gone", "rejected"}
                     /\ counts => ~SwitchesOff(failures)
<1>1. judged = [failures |-> failures, active |-> active]
  BY DEF Judge
<1>2. e.active \in BOOLEAN /\ e.failures \in Nat
  BY DEF HookRows
<1>3. AutoDisableAfter \in Nat
  BY WebhookAssumption DEF WebhookAssumption
<1>4. failures \in Nat /\ active \in BOOLEAN
  BY <1>2
<1>5. active => e.active /\ failures < AutoDisableAfter
  BY <1>2, <1>3, WebhookAssumption DEF SwitchesOff, WebhookAssumption
<1>6. status \in {"pending", "delivered", "failed"} /\ (status = "pending" => answer = "retry")
  BY DEF StatusAfter, Answer
<1>7. status = "pending" => failures = e.failures /\ active = e.active
  BY <1>2, <1>6
<1>8. \/ answer \in {"gone", "terminal", "rejected"}
      \/ failures <= e.failures /\ (~active => ~e.active)
      \/ /\ answer = "retry" /\ status = "failed" /\ failures = e.failures + 1
         /\ ~active => ~e.active \/ failures >= AutoDisableAfter
  BY <1>2, <1>6 DEF SwitchesOff, Answer
<1> HIDE DEF failures, active, status
<1>9. judged.failures = failures /\ judged.active = active /\ judged \in HookRows
  BY <1>1, <1>4 DEF HookRows
<1>10. /\ Changed(e, judged) \subseteq {"active", "failures"}
       /\ "active" \in Changed(e, judged) <=> e.active # judged.active
       /\ "failures" \in Changed(e, judged) <=> e.failures # judged.failures
  <2>1. e["active"] = e.active /\ e["failures"] = e.failures
        /\ judged["active"] = judged.active /\ judged["failures"] = judged.failures
    OBVIOUS
  <2>2. QED
    BY <2>1 DEF Changed
<1>11. "active" \in Changed(e, judged) => ~judged.active
  BY <1>2, <1>4, <1>5, <1>9, <1>10
<1>12. status = "pending" => Changed(e, judged) = {}
  BY <1>7, <1>9, <1>10
<1>13. QED
  BY <1>5, <1>8, <1>9, <1>10, <1>11, <1>12, NoneIsNoRow DEF status

(* An attempt flushes its delivery, and its endpoint unless it will be     *)
(* retried.                                                                *)
LEMMA FlushedRows ==
  ASSUME NEW answer, NEW status, NEW d \in Delivery,
         answer = "ok" => status # "pending",
         status \in {"pending", "delivered", "failed"}, status = "delivered" => answer = "ok"
  PROVE  /\ Flushes(answer, status, d) \in Seq(Hook \cup Delivery)
         /\ \E i \in DOMAIN Flushes(answer, status, d) : Flushes(answer, status, d)[i] = d
         /\ status # "pending" =>
              \E i \in DOMAIN Flushes(answer, status, d) :
                Flushes(answer, status, d)[i] = HookOf(d)
<1>1. HookOf(d) \in Hook
  BY IdsDiffer
<1>2. CASE answer = "ok"
  <2> DEFINE f == <<HookOf(d), d>>
  <2>1. f \in Seq(Hook \cup Delivery) /\ 1 \in DOMAIN f /\ 2 \in DOMAIN f /\ f[1] = HookOf(d) /\ f[2] = d
    BY <1>1
  <2>2. Flushes(answer, status, d) = f
    BY <1>2 DEF Flushes
  <2>3. QED
    BY <2>1, <2>2
<1>3. CASE answer # "ok" /\ status = "failed"
  <2> DEFINE f == <<d, HookOf(d)>>
  <2>1. f \in Seq(Hook \cup Delivery) /\ 1 \in DOMAIN f /\ 2 \in DOMAIN f /\ f[1] = d /\ f[2] = HookOf(d)
    BY <1>1
  <2>2. Flushes(answer, status, d) = f
    BY <1>3 DEF Flushes
  <2>3. QED
    BY <2>1, <2>2
<1>4. CASE answer # "ok" /\ status # "failed"
  <2> DEFINE f == <<d>>
  <2>1. f \in Seq(Hook \cup Delivery) /\ 1 \in DOMAIN f /\ f[1] = d
    BY <1>1
  <2>2. Flushes(answer, status, d) = f
    BY <1>4 DEF Flushes
  <2>3. QED
    BY <1>4, <2>1, <2>2
<1>5. QED
  BY <1>2, <1>3, <1>4

(* The endpoint an attempt uses: as the session has it, or as it is read.  *)
EndpointOf(s, h) == IF s.seen[h] # None THEN s.seen[h] ELSE hook[h]

(* A session after an attempt.                                             *)
Attempted(s, e, answer) ==
  LET d == Head(s.list).id
      n == Head(s.list).attempts + 1
      h == HookOf(d)
      judged == Judge(answer, StatusAfter(answer, n), e)
  IN  [list   |-> Tail(s.list),
       todo   |-> IF e = None THEN <<d>> ELSE Flushes(answer, StatusAfter(answer, n), d),
       draft  |-> [s.draft EXCEPT ![d] = Outcome(answer, n)],
       seen   |-> [s.seen EXCEPT ![h] = IF e = None THEN None ELSE judged],
       wrote  |-> [s.wrote EXCEPT ![h] = s.wrote[h] \cup
                                    (IF e = None THEN {} ELSE Changed(e, judged))],
       locked |-> s.locked]

(* An attempt, with its parts named: s the session, d the delivery at its  *)
(* n-th attempt, h the endpoint and e its row, t the session afterwards.   *)
AttemptOf(p, s, d, n, h, e, answer, t) ==
  /\ s = session[p] /\ s \in Sessions /\ SessionInv(s) /\ s.todo = <<>> /\ s.list # <<>>
  /\ d = Head(s.list).id /\ n = Head(s.list).attempts + 1 /\ h = HookOf(d)
  /\ e = EndpointOf(s, h) /\ answer \in Answer /\ (e = None => answer = "retry")
  /\ t = Attempted(s, e, answer)
  /\ session' = [session EXCEPT ![p] = t]

(* What the invariant says of the delivery and the endpoint in hand.       *)
LEMMA AttemptFacts ==
  ASSUME WebhookInv, NEW p \in Drain, NEW s, NEW d, NEW n, NEW h, NEW e, NEW answer, NEW t,
         AttemptOf(p, s, d, n, h, e, answer, t)
  PROVE  /\ d \in Delivery /\ h \in Hook /\ d[1] \in Change
         /\ n \in Nat /\ 1 <= n /\ n <= MaxAttempts /\ n <= tries[d] + 1
         /\ change[d[1]] = "made" /\ Kept(d) /\ s.draft[d] = None
         /\ \A i \in DOMAIN Tail(s.list) : Tail(s.list)[i].id # d
         /\ e \in HookRows \cup {None}
         /\ e = None => s.seen[h] = None /\ ~Exists(h) /\ row[d] = None
         /\ e # None => /\ Exists(h) \/ h \in removed
                        /\ e.active => e.failures < AutoDisableAfter
                        /\ "active" \in s.wrote[h] => ~e.active
                        /\ Exists(h) /\ ~e.active => "active" \in s.wrote[h] \/ ~hook[h].active
<1>1. /\ WebhooksTyped /\ StoredInv /\ LimitSwitchesOff
      /\ s \in Sessions /\ SessionInv(s) /\ s.list # <<>>
      /\ d = Head(s.list).id /\ n = Head(s.list).attempts + 1 /\ h = HookOf(d)
      /\ e = EndpointOf(s, h)
  BY DEF WebhookInv, AttemptOf
<1>2. /\ 1 \in DOMAIN s.list /\ Head(s.list) = s.list[1]
      /\ \A i \in DOMAIN Tail(s.list) : i + 1 \in DOMAIN s.list /\ Tail(s.list)[i] = s.list[i + 1]
  <2>1. s.list \in Seq([id : Delivery, attempts : Nat])
    BY <1>1, SessionParts
  <2>2. QED
    BY <1>1, <2>1, FirstAndRest
<1>3. d \in Delivery /\ s.list[1].attempts \in Nat
  BY <1>1, <1>2, SessionParts
<1>4. h \in Hook /\ d[1] \in Change /\ tries[d] \in Nat /\ MaxAttempts \in Nat
  BY <1>1, <1>3, IdsDiffer, AttemptBounds DEF WebhooksTyped
<1>5. /\ s.list[1].attempts < MaxAttempts /\ s.list[1].attempts <= tries[d]
      /\ change[d[1]] = "made" /\ Kept(d) /\ s.draft[d] = None
      /\ \A j \in DOMAIN s.list : s.list[j].id = d => 1 = j
  BY <1>1, <1>2 DEF SessionInv, ListInv
<1>6. n \in Nat /\ 1 <= n /\ n <= MaxAttempts /\ n <= tries[d] + 1
  <2>1. n = s.list[1].attempts + 1
    BY <1>1, <1>2
  <2>2. QED
    BY <1>3, <1>4, <1>5, <2>1
<1>7. \A i \in DOMAIN Tail(s.list) : Tail(s.list)[i].id # d
  <2>1. s.list \in Seq([id : Delivery, attempts : Nat])
    BY <1>1, SessionParts
  <2>2. \A i \in DOMAIN Tail(s.list) : i \in Nat /\ i > 0
    BY <1>1, <2>1, FirstAndRest
  <2>3. \A i \in DOMAIN Tail(s.list) : i + 1 # 1
    BY <2>2
  <2>4. QED
    BY <1>2, <1>5, <2>3
<1>8. s.seen[h] \in HookRows \cup {None} /\ hook[h] \in HookRows \cup {None}
  BY <1>1, <1>4, SessionParts DEF WebhooksTyped
<1>9. e \in HookRows \cup {None}
  BY <1>1, <1>8 DEF EndpointOf
<1>10. e = None => s.seen[h] = None /\ ~Exists(h) /\ row[d] = None
  BY <1>1, <1>3 DEF EndpointOf, StoredInv, Exists
<1>11. ASSUME e # None
       PROVE  /\ Exists(h) \/ h \in removed
              /\ e.active => e.failures < AutoDisableAfter
              /\ "active" \in s.wrote[h] => ~e.active
              /\ Exists(h) /\ ~e.active => "active" \in s.wrote[h] \/ ~hook[h].active
  <2>1. SeenInv(s)
    BY <1>1 DEF SessionInv
  <2>2. CASE s.seen[h] # None
    BY <1>1, <1>4, <2>1, <2>2 DEF EndpointOf, SeenInv
  <2>3. CASE s.seen[h] = None
    BY <1>1, <1>4, <1>11, <2>1, <2>3 DEF EndpointOf, SeenInv, Exists, LimitSwitchesOff
  <2>4. QED
    BY <2>2, <2>3
<1>12. QED
  BY <1>3, <1>4, <1>5, <1>6, <1>7, <1>9, <1>10, <1>11

(* The session after an attempt, part by part.                             *)
AttemptLeaves(s, d, n, h, e, answer, judged, t) ==
  /\ t \in Sessions /\ t.list = Tail(s.list) /\ t.locked = s.locked
  /\ \A c \in Delivery : t.draft[c] = IF c = d THEN Outcome(answer, n) ELSE s.draft[c]
  /\ \A g \in Hook : t.seen[g] = IF g = h /\ e # None THEN judged ELSE s.seen[g]
  /\ \A g \in Hook : t.wrote[g] = IF g = h /\ e # None
                                  THEN s.wrote[h] \cup Changed(e, judged) ELSE s.wrote[g]
  /\ InTodo(t, d)
  /\ e # None /\ Changed(e, judged) # {} => InTodo(t, h)

(* An attempt leaves just that.                                            *)
LEMMA AttemptedIsASession ==
  ASSUME WebhookInv, NEW p \in Drain, NEW s, NEW d, NEW n, NEW h, NEW e, NEW answer, NEW t,
         AttemptOf(p, s, d, n, h, e, answer, t),
         NEW judged, judged = Judge(answer, StatusAfter(answer, n), e)
  PROVE  AttemptLeaves(s, d, n, h, e, answer, judged, t)
<1> DEFINE status == StatusAfter(answer, n)
<1>1. /\ s \in Sessions /\ s.list # <<>> /\ answer \in Answer /\ (e = None => answer = "retry")
      /\ d = Head(s.list).id /\ n = Head(s.list).attempts + 1 /\ h = HookOf(d)
      /\ t = Attempted(s, e, answer)
  BY DEF AttemptOf
<1>2. /\ d \in Delivery /\ h \in Hook /\ n \in Nat /\ 1 <= n /\ n <= MaxAttempts
      /\ e \in HookRows \cup {None}
      /\ e = None => s.seen[h] = None
      /\ e # None => (e.active => e.failures < AutoDisableAfter)
  BY AttemptFacts
<1>3. Outcome(answer, n) \in Rows
  BY <1>1, <1>2, OutcomeIsARow
<1>4. e # None => /\ judged \in HookRows /\ Changed(e, judged) \subseteq {"active", "failures"}
                  /\ status = "pending" => Changed(e, judged) = {}
  BY <1>1, <1>2, JudgedIsARow
<1> HIDE DEF status
<1>5. /\ Flushes(answer, status, d) \in Seq(Hook \cup Delivery)
      /\ \E i \in DOMAIN Flushes(answer, status, d) : Flushes(answer, status, d)[i] = d
      /\ status # "pending" =>
           \E i \in DOMAIN Flushes(answer, status, d) : Flushes(answer, status, d)[i] = h
  <2>1. /\ status \in {"pending", "delivered", "failed"}
        /\ status = "delivered" => answer = "ok"
        /\ answer = "ok" => status # "pending"
    BY DEF StatusAfter, status
  <2>2. d \in Delivery /\ h = HookOf(d)
    BY <1>1, <1>2
  <2>3. /\ Flushes(answer, status, d) \in Seq(Hook \cup Delivery)
        /\ \E i \in DOMAIN Flushes(answer, status, d) : Flushes(answer, status, d)[i] = d
        /\ status # "pending" =>
             \E i \in DOMAIN Flushes(answer, status, d) :
               Flushes(answer, status, d)[i] = HookOf(d)
    BY <2>1, <2>2, FlushedRows
  <2>4. QED
    BY <2>2, <2>3
<1>6. /\ s.list \in Seq([id : Delivery, attempts : Nat])
      /\ Tail(s.list) \in Seq([id : Delivery, attempts : Nat])
      /\ s.draft \in [Delivery -> Rows \cup {None}]
      /\ s.seen \in [Hook -> HookRows \cup {None}]
      /\ s.wrote \in [Hook -> SUBSET {"active", "failures"}]
      /\ s.locked \subseteq Hook \cup Delivery
  <2>1. s.list \in Seq([id : Delivery, attempts : Nat])
    BY <1>1, SessionParts
  <2>2. QED
    BY <1>1, <2>1, SessionParts, FirstAndRest
<1>7. /\ <<d>> \in Seq(Hook \cup Delivery) /\ 1 \in DOMAIN <<d>> /\ <<d>>[1] = d
  BY <1>2
<1>8. t = [list   |-> Tail(s.list),
           todo   |-> IF e = None THEN <<d>> ELSE Flushes(answer, status, d),
           draft  |-> [s.draft EXCEPT ![d] = Outcome(answer, n)],
           seen   |-> [s.seen EXCEPT ![h] = IF e = None THEN None ELSE judged],
           wrote  |-> [s.wrote EXCEPT ![h] = s.wrote[h] \cup
                                        (IF e = None THEN {} ELSE Changed(e, judged))],
           locked |-> s.locked]
  BY <1>1 DEF Attempted, status
<1> DEFINE todo == IF e = None THEN <<d>> ELSE Flushes(answer, status, d)
           draft == [s.draft EXCEPT ![d] = Outcome(answer, n)]
           seen == [s.seen EXCEPT ![h] = IF e = None THEN None ELSE judged]
           wrote == [s.wrote EXCEPT ![h] = s.wrote[h] \cup
                                        (IF e = None THEN {} ELSE Changed(e, judged))]
<1>9. /\ todo \in Seq(Hook \cup Delivery)
      /\ \E i \in DOMAIN todo : todo[i] = d
      /\ e # None /\ Changed(e, judged) # {} => \E i \in DOMAIN todo : todo[i] = h
  <2>1. CASE e = None
    BY <1>7, <2>1
  <2>2. CASE e # None
    BY <1>4, <1>5, <2>2
  <2>3. QED
    BY <2>1, <2>2
<1>10. /\ draft \in [Delivery -> Rows \cup {None}]
       /\ \A c \in Delivery : draft[c] = IF c = d THEN Outcome(answer, n) ELSE s.draft[c]
  BY <1>2, <1>3, <1>6
<1>11. /\ seen \in [Hook -> HookRows \cup {None}]
       /\ \A g \in Hook : seen[g] = IF g = h /\ e # None THEN judged ELSE s.seen[g]
  BY <1>2, <1>4, <1>6
<1>12. /\ wrote \in [Hook -> SUBSET {"active", "failures"}]
       /\ \A g \in Hook : wrote[g] = IF g = h /\ e # None
                                     THEN s.wrote[h] \cup Changed(e, judged) ELSE s.wrote[g]
  BY <1>2, <1>4, <1>6
<1> HIDE DEF todo, draft, seen, wrote
<1>13. t = [list |-> Tail(s.list), todo |-> todo, draft |-> draft, seen |-> seen,
            wrote |-> wrote, locked |-> s.locked]
  BY <1>8 DEF todo, draft, seen, wrote
<1>14. t \in Sessions
  BY <1>6, <1>9, <1>10, <1>11, <1>12, <1>13 DEF Sessions
<1>15. QED
  BY <1>9, <1>10, <1>11, <1>12, <1>13, <1>14 DEF InTodo, AttemptLeaves

(* What an attempt records of itself.                                      *)
Recorded(d, e, answer) ==
  /\ UNCHANGED <<change, hook, removed, row, held, calm, crashes>>
  /\ tries' = IF e = None THEN tries
              ELSE [tries EXCEPT ![d] = IF tries[d] < MaxAttempts THEN tries[d] + 1 ELSE tries[d]]
  /\ accepted' = IF e # None /\ answer = "ok" THEN accepted \cup {d} ELSE accepted
  /\ refused' = IF e # None /\ answer \in {"gone", "terminal", "rejected"}
                THEN refused \cup {d} ELSE refused

\* What one post adds to the history: at most one try, of this delivery.
LEMMA RecordedFacts ==
  ASSUME WebhookInv, NEW d \in Delivery, NEW e, NEW answer, Recorded(d, e, answer)
  PROVE  /\ tries' \in [Delivery -> Nat]
         /\ \A c \in Delivery : /\ tries[c] <= tries'[c] /\ tries'[c] <= MaxAttempts
                                /\ c # d => tries'[c] = tries[c]
         /\ e # None /\ tries[d] < MaxAttempts => tries'[d] = tries[d] + 1
         /\ e # None => tries'[d] >= MaxAttempts \/ tries'[d] = tries[d] + 1
         /\ accepted \subseteq accepted' /\ refused \subseteq refused'
<1>1. /\ tries \in [Delivery -> Nat] /\ \A c \in Delivery : tries[c] <= MaxAttempts
      /\ MaxAttempts \in Nat
  BY AttemptBounds DEF WebhookInv, WebhooksTyped, StoredInv
<1>2. CASE e = None
  BY <1>1, <1>2 DEF Recorded
<1>3. CASE e # None
  <2>1. tries' = [tries EXCEPT ![d] = IF tries[d] < MaxAttempts THEN tries[d] + 1 ELSE tries[d]]
    BY <1>3 DEF Recorded
  <2>2. tries' \in [Delivery -> Nat]
    BY <1>1, <2>1
  <2>3. /\ \A c \in Delivery : c # d => tries'[c] = tries[c]
        /\ tries'[d] = IF tries[d] < MaxAttempts THEN tries[d] + 1 ELSE tries[d]
    BY <1>1, <2>1
  <2>4. \A c \in Delivery : tries[c] <= tries'[c] /\ tries'[c] <= MaxAttempts
    BY <1>1, <2>2, <2>3
  <2>5. /\ tries[d] < MaxAttempts => tries'[d] = tries[d] + 1
        /\ tries'[d] >= MaxAttempts \/ tries'[d] = tries[d] + 1
    BY <1>1, <2>3
  <2>6. accepted \subseteq accepted' /\ refused \subseteq refused'
    BY DEF Recorded
  <2>7. QED
    BY <2>2, <2>3, <2>4, <2>5, <2>6
<1>4. QED
  BY <1>2, <1>3

(* The attempting drain's own session.                                     *)
LEMMA AttemptKeepsSession ==
  ASSUME WebhookInv, NEW p \in Drain, NEW s, NEW d, NEW n, NEW h, NEW e, NEW answer, NEW t,
         AttemptOf(p, s, d, n, h, e, answer, t), Recorded(d, e, answer)
  PROVE  SessionInv(t)'
<1> DEFINE judged == Judge(answer, StatusAfter(answer, n), e)
<1>1. /\ s \in Sessions /\ SessionInv(s) /\ s.todo = <<>> /\ s.list # <<>>
      /\ answer \in Answer /\ h = HookOf(d)
  BY DEF AttemptOf
<1>2. /\ d \in Delivery /\ h \in Hook /\ d[1] \in Change
      /\ n \in Nat /\ 1 <= n /\ n <= MaxAttempts /\ n <= tries[d] + 1
      /\ change[d[1]] = "made" /\ Kept(d) /\ s.draft[d] = None
      /\ \A i \in DOMAIN Tail(s.list) : Tail(s.list)[i].id # d
      /\ e \in HookRows \cup {None}
      /\ e = None => row[d] = None
  BY AttemptFacts
<1>3. e # None => /\ Exists(h) \/ h \in removed
                  /\ e.active => e.failures < AutoDisableAfter
                  /\ "active" \in s.wrote[h] => ~e.active
                  /\ Exists(h) /\ ~e.active => "active" \in s.wrote[h] \/ ~hook[h].active
  BY AttemptFacts
<1>4. /\ t \in Sessions /\ t.list = Tail(s.list) /\ t.locked = s.locked
      /\ \A c \in Delivery : t.draft[c] = IF c = d THEN Outcome(answer, n) ELSE s.draft[c]
      /\ \A g \in Hook : t.seen[g] = IF g = h /\ e # None THEN judged ELSE s.seen[g]
      /\ \A g \in Hook : t.wrote[g] = IF g = h /\ e # None
                                      THEN s.wrote[h] \cup Changed(e, judged) ELSE s.wrote[g]
      /\ InTodo(t, d)
      /\ e # None /\ Changed(e, judged) # {} => InTodo(t, h)
  <2>1. AttemptLeaves(s, d, n, h, e, answer, judged, t)
    BY AttemptedIsASession
  <2>2. QED
    BY <2>1 DEF AttemptLeaves
<1>5. /\ tries' \in [Delivery -> Nat] /\ tries \in [Delivery -> Nat] /\ MaxAttempts \in Nat
      /\ \A c \in Delivery : tries[c] <= tries'[c]
      /\ e # None => tries'[d] >= MaxAttempts \/ tries'[d] = tries[d] + 1
      /\ accepted \subseteq accepted' /\ refused \subseteq refused'
  BY <1>2, RecordedFacts, AttemptBounds DEF WebhookInv, WebhooksTyped
<1>6. UNCHANGED <<change, hook, removed, row>>
  BY DEF Recorded
<1>7. ListInv(t)'
  <2> SUFFICES ASSUME NEW i \in DOMAIN t.list
               PROVE  /\ t.list[i].attempts < MaxAttempts
                      /\ t.list[i].attempts <= tries'[t.list[i].id]
                      /\ change'[t.list[i].id[1]] = "made" /\ Kept(t.list[i].id)'
                      /\ t.draft[t.list[i].id] = None
                      /\ \A j \in DOMAIN t.list : t.list[j].id = t.list[i].id => i = j
    BY DEF ListInv
  <2>1. s.list \in Seq([id : Delivery, attempts : Nat])
    BY <1>1, SessionParts
  <2>2. /\ \A j \in DOMAIN t.list : j + 1 \in DOMAIN s.list /\ t.list[j] = s.list[j + 1]
        /\ \A j \in DOMAIN t.list : j \in Nat
    BY <1>1, <1>4, <2>1, FirstAndRest
  <2>3. /\ t.list[i].id \in Delivery /\ t.list[i].attempts \in Nat /\ t.list[i].id # d
    BY <1>2, <1>4, SessionParts
  <2>4. /\ t.list[i].attempts < MaxAttempts /\ t.list[i].attempts <= tries[t.list[i].id]
        /\ change[t.list[i].id[1]] = "made" /\ Kept(t.list[i].id)
        /\ s.draft[t.list[i].id] = None
        /\ \A j \in DOMAIN s.list : s.list[j].id = t.list[i].id => i + 1 = j
    BY <1>1, <2>2 DEF SessionInv, ListInv
  <2>5. \A j \in DOMAIN t.list : t.list[j].id = t.list[i].id => i = j
    <3> SUFFICES ASSUME NEW j \in DOMAIN t.list, t.list[j].id = t.list[i].id PROVE i = j
      OBVIOUS
    <3>1. i + 1 = j + 1
      BY <2>2, <2>4
    <3>2. QED
      BY <2>2, <3>1
  <2>6. t.list[i].attempts <= tries'[t.list[i].id]
    BY <1>5, <2>3, <2>4
  <2>7. QED
    BY <1>4, <1>6, <2>3, <2>4, <2>5, <2>6 DEF Kept
<1>8. DraftInv(t)'
  <2> SUFFICES ASSUME NEW c \in Delivery, t.draft[c] # None
               PROVE  /\ change'[c[1]] = "made" /\ Kept(c)'
                      /\ c \in t.locked \/ InTodo(t, c)
                      /\ row'[c] # None =>
                           /\ t.draft[c].attempts <= tries'[c]
                           /\ t.draft[c].status = "delivered" => c \in accepted'
                           /\ t.draft[c].status = "failed" =>
                                c \in refused' \/ tries'[c] >= MaxAttempts
    BY DEF DraftInv, InTodo
  <2>1. CASE c = d
    <3>1. /\ t.draft[c] = Outcome(answer, n)
          /\ Outcome(answer, n).attempts = n
          /\ Outcome(answer, n).status = "delivered" => answer = "ok"
          /\ Outcome(answer, n).status = "failed" =>
               answer \in {"gone", "terminal", "rejected"} \/ n >= MaxAttempts
      BY <1>1, <1>2, <1>4, <2>1, OutcomeIsARow
    <3>2. ASSUME row'[c] # None
          PROVE  /\ n <= tries'[c]
                 /\ answer = "ok" => c \in accepted'
                 /\ answer \in {"gone", "terminal", "rejected"} => c \in refused'
                 /\ n >= MaxAttempts => tries'[c] >= MaxAttempts
      <4>1. e # None
        BY <1>2, <1>6, <2>1, <3>2
      <4>2. n <= tries'[c]
        BY <1>2, <1>5, <2>1, <4>1
      <4>3. n >= MaxAttempts => tries'[c] >= MaxAttempts
        BY <1>2, <1>5, <4>2
      <4>4. QED
        BY <2>1, <4>1, <4>2, <4>3 DEF Recorded
    <3>3. QED
      BY <1>2, <1>4, <1>6, <2>1, <3>1, <3>2 DEF Kept
  <2>2. CASE c # d
    <3>1. t.draft[c] = s.draft[c]
      BY <1>4, <2>2
    <3>2. /\ change[c[1]] = "made" /\ Kept(c)
          /\ c \in s.locked \/ InTodo(s, c)
          /\ row[c] # None =>
               /\ s.draft[c].attempts <= tries[c]
               /\ s.draft[c].status = "delivered" => c \in accepted
               /\ s.draft[c].status = "failed" => c \in refused \/ tries[c] >= MaxAttempts
      BY <1>1, <3>1 DEF SessionInv, DraftInv
    <3>3. c \in t.locked
      BY <1>1, <1>4, <3>2 DEF InTodo
    <3>4. s.draft[c].attempts \in Nat
      <4>1. s.draft[c] \in Rows
        BY <1>1, <3>1, SessionParts
      <4>2. QED
        BY <4>1, RowParts
    <3>5. row[c] # None =>
            /\ s.draft[c].attempts <= tries'[c]
            /\ tries[c] >= MaxAttempts => tries'[c] >= MaxAttempts
      BY <1>5, <3>2, <3>4
    <3>6. QED
      BY <1>5, <1>6, <3>1, <3>2, <3>3, <3>5 DEF Kept
  <2>3. QED
    BY <2>1, <2>2
<1>9. SeenInv(t)'
  <2> SUFFICES ASSUME NEW g \in Hook
               PROVE  /\ t.wrote[g] # {} => t.seen[g] # None /\ (g \in t.locked \/ InTodo(t, g))
                      /\ t.seen[g] # None =>
                           /\ Exists(g) \/ g \in removed
                           /\ "active" \in t.wrote[g] => ~t.seen[g].active
                           /\ t.seen[g].active => t.seen[g].failures < AutoDisableAfter
                           /\ Exists(g) /\ ~t.seen[g].active =>
                                "active" \in t.wrote[g] \/ ~hook[g].active
    BY <1>6 DEF SeenInv, InTodo, Exists
  <2>1. SeenInv(s) /\ ~InTodo(s, g)
    BY <1>1 DEF SessionInv, InTodo
  <2>2. CASE g = h /\ e # None
    <3>1. /\ judged # None
          /\ judged.active => e.active /\ judged.failures < AutoDisableAfter
          /\ e.active # judged.active => "active" \in Changed(e, judged)
          /\ "active" \in Changed(e, judged) => ~judged.active
          /\ judged.active \in BOOLEAN /\ e.active \in BOOLEAN
      <4>1. e \in HookRows /\ (e.active => e.failures < AutoDisableAfter)
        BY <1>2, <1>3, <2>2
      <4>2. judged \in HookRows
        BY <1>1, <4>1, JudgedIsARow
      <4>3. judged.active \in BOOLEAN /\ e.active \in BOOLEAN
        BY <4>1, <4>2, RowParts
      <4>4. QED
        BY <1>1, <4>1, <4>3, JudgedIsARow
    <3>2. /\ t.seen[g] = judged /\ t.wrote[g] = s.wrote[h] \cup Changed(e, judged)
          /\ Changed(e, judged) # {} => InTodo(t, h)
          /\ s.wrote[h] # {} => h \in s.locked
      BY <1>4, <2>1, <2>2 DEF SeenInv
    <3> HIDE DEF judged
    <3>3. QED
      BY <1>3, <1>4, <2>2, <3>1, <3>2
  <2>3. CASE ~(g = h /\ e # None)
    BY <1>4, <2>1, <2>3 DEF SeenInv
  <2>4. QED
    BY <2>2, <2>3
<1>10. LockInv(t)'
  BY <1>1, <1>4, <1>6 DEF SessionInv, LockInv, RowExists, Exists
<1>11. QED
  BY <1>7, <1>8, <1>9, <1>10 DEF SessionInv

(* One more lost delivery is one more.                                     *)
LEMMA OneMoreLost ==
  ASSUME NEW lost \in SUBSET Delivery
  PROVE  /\ Cardinality(lost) \in Nat
         /\ \A some \in SUBSET lost : Cardinality(some) \in Nat
                                      /\ Cardinality(some) <= Cardinality(lost)
         /\ \A d : d \notin lost => Cardinality(lost \cup {d}) = Cardinality(lost) + 1
<1>1. IsFiniteSet(lost)
  BY IdsDiffer, FS_Subset
<1>2. Cardinality(lost) \in Nat
  BY <1>1, FS_CardinalityType
<1>3. ASSUME NEW some \in SUBSET lost
      PROVE  Cardinality(some) \in Nat /\ Cardinality(some) <= Cardinality(lost)
  BY <1>1, FS_Subset, FS_CardinalityType
<1>4. \A d : d \notin lost => Cardinality(lost \cup {d}) = Cardinality(lost) + 1
  BY <1>1, FS_AddElement
<1>5. QED
  BY <1>2, <1>3, <1>4

(* A cause stays one when more is lost.                                    *)
LEMMA CauseGrows ==
  ASSUME NEW e \in HookRows, NEW h, NEW lost \in SUBSET Delivery, NEW more \in SUBSET Delivery,
         lost \subseteq more, HasCause(e, h, lost)
  PROVE  HasCause(e, h, more)
<1>1. /\ Cardinality(lost) \in Nat /\ Cardinality(more) \in Nat
      /\ Cardinality(lost) <= Cardinality(more)
  <2>1. lost \in SUBSET more
    OBVIOUS
  <2>2. QED
    BY <2>1, OneMoreLost
<1>2. e.failures \in Nat /\ AutoDisableAfter \in Nat
  BY WebhookAssumption DEF WebhookAssumption, HookRows
<1>3. QED
  BY <1>1, <1>2 DEF HasCause

(* The causes, when drains do not overlap.                                 *)
LEMMA AttemptKeepsCauses ==
  ASSUME WebhookInv, NEW p \in Drain, NEW s, NEW d, NEW n, NEW h, NEW e, NEW answer, NEW t,
         AttemptOf(p, s, d, n, h, e, answer, t), Recorded(d, e, answer)
  PROVE  CalmInv'
<1> DEFINE judged == Judge(answer, StatusAfter(answer, n), e)
<1>1. /\ UNCHANGED <<change, hook, removed, row, calm>>
      /\ s = session[p] /\ s \in Sessions /\ SessionInv(s) /\ s.list # <<>>
      /\ answer \in Answer /\ h = HookOf(d) /\ n = Head(s.list).attempts + 1
      /\ d = Head(s.list).id
      /\ session' = [session EXCEPT ![p] = t]
      /\ session \in [Drain -> Sessions] /\ hook \in [Hook -> HookRows \cup {None}]
      /\ StoredInv
  BY DEF AttemptOf, Recorded, WebhookInv, WebhooksTyped
<1> SUFFICES ASSUME calm
             PROVE  /\ \A q, r \in Drain : Running(q)' /\ Running(r)' => q = r
                    /\ \A q \in Drain : CalmSession(session[q])'
                    /\ \A c \in Delivery :
                         row'[c] # None /\ (\A q \in Drain : session'[q].draft[c] = None) =>
                           row'[c].attempts = tries'[c]
                    /\ \A g \in Hook : Exists(g)' => HasCause(hook[g], g, Failed(g))'
  BY <1>1 DEF CalmInv
<1>2. /\ \A q, r \in Drain : Running(q) /\ Running(r) => q = r
      /\ CalmSession(s)
      /\ \A c \in Delivery :
           row[c] # None /\ (\A q \in Drain : session[q].draft[c] = None) =>
             row[c].attempts = tries[c]
      /\ \A g \in Hook : Exists(g) => HasCause(hook[g], g, Failed(g))
  BY <1>1 DEF WebhookInv, CalmInv
<1>3. /\ d \in Delivery /\ h \in Hook /\ n \in Nat /\ 1 <= n /\ n <= MaxAttempts
      /\ Kept(d) /\ s.draft[d] = None
      /\ \A i \in DOMAIN Tail(s.list) : Tail(s.list)[i].id # d
      /\ e \in HookRows \cup {None}
      /\ e = None => ~Exists(h) /\ row[d] = None
      /\ e # None => (e.active => e.failures < AutoDisableAfter)
  BY AttemptFacts
<1>0. judged = Judge(answer, StatusAfter(answer, n), e)
  OBVIOUS
<1> HIDE DEF judged
<1>4. /\ t \in Sessions /\ t.list = Tail(s.list)
      /\ \A c \in Delivery : t.draft[c] = IF c = d THEN Outcome(answer, n) ELSE s.draft[c]
      /\ \A g \in Hook : t.seen[g] = IF g = h /\ e # None THEN judged ELSE s.seen[g]
  <2>1. AttemptLeaves(s, d, n, h, e, answer, judged, t)
    BY <1>0, AttemptedIsASession
  <2>2. QED
    BY <2>1 DEF AttemptLeaves
<1>5. /\ Outcome(answer, n) # None /\ Outcome(answer, n).attempts = n
      /\ Outcome(answer, n).status = StatusAfter(answer, n)
  BY <1>1, <1>3, OutcomeIsARow
<1>6. /\ \A c \in Delivery : c # d => tries'[c] = tries[c]
      /\ e # None /\ tries[d] < MaxAttempts => tries'[d] = tries[d] + 1
      /\ refused \subseteq refused'
      /\ e # None /\ answer \in {"gone", "terminal", "rejected"} => d \in refused'
  BY <1>3, RecordedFacts DEF Recorded
<1>7. \A q \in Drain : session'[q] = IF q = p THEN t ELSE session[q]
  BY <1>1
<1>8. \A q \in Drain : q # p => session[q] = NoSession
  BY <1>1, <1>2, NothingHeld DEF Running
<1>9. \A q, r \in Drain : Running(q)' /\ Running(r)' => q = r
  BY <1>7, <1>8 DEF Running
<1>10. \A g \in Hook : Failed(g)' = Failed(g) /\ (HasRefused(g) => HasRefused(g)') /\ (Exists(g)' <=> Exists(g))
  BY <1>1, <1>6 DEF Failed, HasRefused, Exists
<1>11. ASSUME NEW g \in Hook, Exists(g)' PROVE HasCause(hook[g], g, Failed(g))'
  <2>1. HasCause(hook[g], g, Failed(g)) /\ hook' = hook
    BY <1>1, <1>2, <1>10, <1>11
  <2>2. QED
    BY <1>10, <2>1 DEF HasCause
<1>12. \A c \in Delivery :
         row'[c] # None /\ (\A q \in Drain : session'[q].draft[c] = None) =>
           row'[c].attempts = tries'[c]
  <2> SUFFICES ASSUME NEW c \in Delivery, row[c] # None,
                      \A q \in Drain : session'[q].draft[c] = None
               PROVE  row[c].attempts = tries'[c]
    BY <1>1
  <2>1. c # d /\ \A q \in Drain : session[q].draft[c] = None
    BY <1>1, <1>4, <1>5, <1>7
  <2>2. QED
    BY <1>2, <1>6, <2>1
<1>13. row[d] # None => row[d].status = "pending" /\ tries'[d] = n /\ e # None
  <2> SUFFICES ASSUME row[d] # None PROVE row[d].status = "pending" /\ tries'[d] = n /\ e # None
    OBVIOUS
  <2>1. row[d].status = "pending" /\ row[d].attempts = Head(s.list).attempts
    <3>1. 1 \in DOMAIN s.list /\ Head(s.list) = s.list[1]
      <4>1. s.list \in Seq([id : Delivery, attempts : Nat])
        BY <1>1, SessionParts
      <4>2. QED
        BY <1>1, <4>1, FirstAndRest
    <3>2. QED
      BY <1>1, <1>2, <3>1 DEF CalmSession
  <2>2. row[d].attempts = tries[d]
    <3>1. \A q \in Drain : session[q].draft[d] = None
      BY <1>1, <1>3, <1>8, NothingHeld
    <3>2. QED
      BY <1>2, <1>3, <3>1
  <2>3. tries[d] < MaxAttempts
    <3>1. tries[d] \in Nat /\ MaxAttempts \in Nat
      BY <1>3, AttemptBounds DEF WebhookInv, WebhooksTyped
    <3>2. QED
      BY <1>1, <1>3, <2>1, <2>2, <3>1
  <2>4. QED
    BY <1>1, <1>3, <1>6, <2>1, <2>2, <2>3
<1>14. CalmSession(t)'
  <2>1. \A i \in DOMAIN t.list : row[t.list[i].id] # None =>
          row[t.list[i].id].status = "pending" /\ row[t.list[i].id].attempts = t.list[i].attempts
    <3>1. s.list \in Seq([id : Delivery, attempts : Nat])
      BY <1>1, SessionParts
    <3>2. \A j \in DOMAIN t.list : j + 1 \in DOMAIN s.list /\ t.list[j] = s.list[j + 1]
      BY <1>1, <1>4, <3>1, FirstAndRest
    <3>3. QED
      BY <1>2, <3>2 DEF CalmSession
  <2>2. \A c \in Delivery : row[c] # None /\ t.draft[c] # None =>
          row[c].status = "pending" /\ t.draft[c].attempts = tries'[c]
    <3> SUFFICES ASSUME NEW c \in Delivery, row[c] # None, t.draft[c] # None
                 PROVE  row[c].status = "pending" /\ t.draft[c].attempts = tries'[c]
      OBVIOUS
    <3>1. CASE c = d
      BY <1>4, <1>5, <1>13, <3>1
    <3>2. CASE c # d
      BY <1>2, <1>4, <1>6, <3>2 DEF CalmSession
    <3>3. QED
      BY <3>1, <3>2
  <2>3. ASSUME NEW g \in Hook, Exists(g), t.seen[g] # None
        PROVE  HasCause(t.seen[g], g, Failed(g) \cup Drafted(t, g))'
    <3> DEFINE lost == Failed(g) \cup Drafted(s, g)
               more == Failed(g) \cup Drafted(t, g)
    <3>1. (Failed(g) \cup Drafted(t, g))' = more /\ (HasRefused(g) => HasRefused(g)')
      BY <1>1, <1>10, <2>3 DEF Drafted
    <3>2. lost \in SUBSET Delivery /\ more \in SUBSET Delivery /\ Failed(g) \subseteq lost
      BY DEF Failed, Drafted
    <3>3. \A c \in Delivery : c # d => (c \in Drafted(t, g) <=> c \in Drafted(s, g))
      BY <1>4 DEF Drafted
    <3>4. d \notin Drafted(s, g)
      BY <1>3 DEF Drafted
    <3>5. d \in Drafted(t, g) <=> g = h /\ row[d] # None /\ StatusAfter(answer, n) = "failed"
      BY <1>1, <1>3, <1>4, <1>5 DEF Drafted
    <3>6. d \notin lost
      BY <1>13, <3>4 DEF Failed
    <3>7. Drafted(s, g) \subseteq Delivery /\ Drafted(t, g) \subseteq Delivery
      BY DEF Drafted
    <3>8. lost \subseteq more /\ (d \in Drafted(t, g) => more = lost \cup {d})
      BY <1>3, <3>3, <3>4, <3>7
    <3> HIDE DEF lost, more
    <3>9. CASE ~(g = h /\ e # None)
      <4>1. t.seen[g] = s.seen[g]
        BY <1>4, <3>9
      <4>2. HasCause(s.seen[g], g, lost)
        BY <1>2, <2>3, <4>1 DEF CalmSession, lost
      <4>3. s.seen[g] \in HookRows
        BY <1>1, <2>3, <4>1, SessionParts
      <4>4. HasCause(s.seen[g], g, more)
        BY <3>2, <3>8, <4>2, <4>3, CauseGrows
      <4>5. QED
        BY <3>1, <4>1, <4>4 DEF HasCause
    <3>10. CASE g = h /\ e # None
      <4>1. row[d] # None
        BY <1>1, <1>3, <2>3, <3>10 DEF Kept, StoredInv
      <4>2. e \in HookRows /\ (e.active => e.failures < AutoDisableAfter)
        BY <1>3, <3>10
      <4>3. HasCause(e, g, lost)
        <5>1. s \in Sessions /\ e = EndpointOf(s, h)
          BY DEF AttemptOf
        <5>2. CASE s.seen[h] # None
          BY <1>2, <2>3, <3>10, <5>1, <5>2 DEF EndpointOf, CalmSession, lost
        <5>3. CASE s.seen[h] = None
          <6>1. HasCause(e, g, Failed(g))
            BY <1>2, <2>3, <3>10, <5>1, <5>3 DEF EndpointOf
          <6>2. Failed(g) \in SUBSET Delivery
            BY DEF Failed
          <6>3. QED
            BY <3>2, <4>2, <6>1, <6>2, CauseGrows
        <5>4. QED
          BY <5>2, <5>3
      <4>4. \/ answer \in {"gone", "terminal", "rejected"}
            \/ judged.failures <= e.failures /\ (~judged.active => ~e.active)
            \/ /\ answer = "retry" /\ StatusAfter(answer, n) = "failed"
               /\ judged.failures = e.failures + 1
               /\ ~judged.active => ~e.active \/ judged.failures >= AutoDisableAfter
        BY <1>1, <4>2, JudgedIsARow DEF judged
      <4>5. judged \in HookRows
        BY <1>1, <4>2, JudgedIsARow DEF judged
      <4>6. t.seen[g] = judged
        BY <1>4, <3>10
      <4>7. CASE HasRefused(g)
        BY <3>1, <4>7 DEF HasCause
      <4>8. CASE answer \in {"gone", "terminal", "rejected"}
        <5>1. d \in refused'
          BY <1>6, <3>10, <4>8
        <5>2. HasRefused(g)'
          BY <1>1, <1>3, <3>10, <4>1, <5>1 DEF HasRefused
        <5>3. QED
          BY <5>2 DEF HasCause
      <4>9. CASE ~HasRefused(g) /\ answer \notin {"gone", "terminal", "rejected"}
        <5>1. /\ e.failures \in Nat /\ judged.failures \in Nat /\ AutoDisableAfter \in Nat
              /\ Cardinality(lost) \in Nat /\ Cardinality(more) \in Nat
              /\ Cardinality(lost) <= Cardinality(more)
          <6>1. lost \in SUBSET more
            BY <3>8
          <6>2. QED
            BY <3>2, <4>2, <4>5, <6>1, OneMoreLost, RowParts, WebhookAssumption DEF WebhookAssumption
        <5>2. /\ e.failures <= Cardinality(lost)
              /\ ~e.active => Cardinality(lost) >= AutoDisableAfter
          BY <4>3, <4>9 DEF HasCause
        <5>3. StatusAfter(answer, n) = "failed" => Cardinality(more) = Cardinality(lost) + 1
          <6>1. StatusAfter(answer, n) = "failed" => more = lost \cup {d}
            BY <3>5, <3>8, <3>10, <4>1
          <6>2. QED
            BY <3>2, <3>6, <6>1, OneMoreLost
        <5>4. /\ judged.failures <= Cardinality(more)
              /\ ~judged.active => Cardinality(more) >= AutoDisableAfter
          <6>1. CASE judged.failures <= e.failures /\ (~judged.active => ~e.active)
            <7>1. judged.failures <= Cardinality(more)
              BY <5>1, <5>2, <6>1
            <7>2. Cardinality(lost) >= AutoDisableAfter => Cardinality(more) >= AutoDisableAfter
              BY <5>1
            <7>3. QED
              BY <5>2, <6>1, <7>1, <7>2
          <6>2. CASE /\ answer = "retry" /\ StatusAfter(answer, n) = "failed"
                     /\ judged.failures = e.failures + 1
                     /\ ~judged.active => ~e.active \/ judged.failures >= AutoDisableAfter
            <7>1. judged.failures <= Cardinality(more)
              BY <5>1, <5>2, <5>3, <6>2
            <7>2. /\ Cardinality(lost) >= AutoDisableAfter => Cardinality(more) >= AutoDisableAfter
                  /\ judged.failures >= AutoDisableAfter => Cardinality(more) >= AutoDisableAfter
              BY <5>1, <7>1
            <7>3. QED
              BY <5>2, <6>2, <7>1, <7>2
          <6>3. QED
            BY <4>4, <4>9, <6>1, <6>2
        <5>5. QED
          BY <3>1, <4>6, <5>4 DEF HasCause
      <4>10. QED
        BY <4>7, <4>8, <4>9
    <3>11. QED
      BY <3>9, <3>10
  <2>4. QED
    BY <1>1, <1>10, <2>1, <2>2, <2>3 DEF CalmSession
<1>15. ASSUME NEW q \in Drain PROVE CalmSession(session[q])'
  <2>1. CASE q = p
    BY <1>7, <1>14, <2>1
  <2>2. CASE q # p
    <3>1. session'[q] = NoSession
      BY <1>7, <1>8, <2>2
    <3>2. CalmSession(NoSession)'
      BY NothingHeld DEF CalmSession
    <3>3. QED
      BY <3>1, <3>2
  <2>3. QED
    BY <2>1, <2>2
<1>16. QED
  BY <1>9, <1>11, <1>12, <1>15

(* Several parts of a session at once.                                     *)
Updated(s, l, o, w, x, y, d, h) ==
  [s EXCEPT !.list = l, !.draft[d] = o, !.todo = w, !.seen[h] = x, !.wrote[h] = y]

(* Part by part.                                                           *)
LEMMA UpdatedSession ==
  ASSUME NEW s \in Sessions, NEW l, NEW o, NEW w, NEW x, NEW y, NEW d, NEW h
  PROVE  Updated(s, l, o, w, x, y, d, h)
         = [list |-> l, todo |-> w, draft |-> [s.draft EXCEPT ![d] = o],
            seen |-> [s.seen EXCEPT ![h] = x], wrote |-> [s.wrote EXCEPT ![h] = y],
            locked |-> s.locked]
<1>1. s = [list |-> s.list, todo |-> s.todo, draft |-> s.draft, seen |-> s.seen,
           wrote |-> s.wrote, locked |-> s.locked]
  BY DEF Sessions
<1> DEFINE s1 == [s EXCEPT !.list = l]
           s2 == [s1 EXCEPT !.draft = [s1.draft EXCEPT ![d] = o]]
           s3 == [s2 EXCEPT !.todo = w]
           s4 == [s3 EXCEPT !.seen = [s3.seen EXCEPT ![h] = x]]
           s5 == [s4 EXCEPT !.wrote = [s4.wrote EXCEPT ![h] = y]]
<1>2. Updated(s, l, o, w, x, y, d, h) = s5
  BY DEF Updated
<1>3. s1 = [list |-> l, todo |-> s.todo, draft |-> s.draft, seen |-> s.seen,
            wrote |-> s.wrote, locked |-> s.locked]
  BY <1>1
<1> HIDE DEF s1
<1>4. s2 = [list |-> l, todo |-> s.todo, draft |-> [s.draft EXCEPT ![d] = o], seen |-> s.seen,
            wrote |-> s.wrote, locked |-> s.locked]
  BY <1>3
<1> HIDE DEF s2
<1>5. s3 = [list |-> l, todo |-> w, draft |-> [s.draft EXCEPT ![d] = o], seen |-> s.seen,
            wrote |-> s.wrote, locked |-> s.locked]
  BY <1>4
<1> HIDE DEF s3
<1>6. s4 = [list |-> l, todo |-> w, draft |-> [s.draft EXCEPT ![d] = o],
            seen |-> [s.seen EXCEPT ![h] = x], wrote |-> s.wrote, locked |-> s.locked]
  BY <1>5
<1> HIDE DEF s4
<1>7. s5 = [list |-> l, todo |-> w, draft |-> [s.draft EXCEPT ![d] = o],
            seen |-> [s.seen EXCEPT ![h] = x], wrote |-> [s.wrote EXCEPT ![h] = y],
            locked |-> s.locked]
  BY <1>6
<1>8. QED
  BY <1>2, <1>7

(* An attempt, as the lemmas above see it.                                 *)
LEMMA AttemptIsOne ==
  ASSUME WebhookInv, NEW p \in Drain, Attempt(p)
  PROVE  \E s, d, n, h, e, answer, t :
           AttemptOf(p, s, d, n, h, e, answer, t) /\ Recorded(d, e, answer)
<1> DEFINE s == session[p]
           d == Head(s.list).id
           n == Head(s.list).attempts + 1
           h == HookOf(d)
           e == IF s.seen[h] # None THEN s.seen[h] ELSE hook[h]
<1>1. /\ session \in [Drain -> Sessions] /\ s \in Sessions /\ SessionInv(s)
      /\ tries \in [Delivery -> Nat]
  BY DEF WebhookInv, WebhooksTyped
<1>2. /\ s.todo = <<>> /\ s.list # <<>>
      /\ UNCHANGED <<change, hook, removed, row, held, calm, crashes>>
  BY DEF Attempt, database
<1>3. PICK answer \in Answer :
        LET status == StatusAfter(answer, n)
            judged == Judge(answer, status, e)
        IN  /\ e = None => answer = "retry"
            /\ session' = [session EXCEPT ![p] = [s EXCEPT
                 !.list = Tail(s.list),
                 !.draft[d] = Outcome(answer, n),
                 !.todo = IF e = None THEN <<d>> ELSE Flushes(answer, status, d),
                 !.seen[h] = IF e = None THEN None ELSE judged,
                 !.wrote[h] = s.wrote[h] \cup (IF e = None THEN {} ELSE Changed(e, judged))]]
            /\ IF e = None THEN UNCHANGED <<tries, accepted, refused>>
               ELSE /\ tries' = [tries EXCEPT ![d] = IF @ < MaxAttempts THEN @ + 1 ELSE @]
                    /\ accepted' = IF answer = "ok" THEN accepted \cup {d} ELSE accepted
                    /\ refused' = IF answer \in {"gone", "terminal", "rejected"}
                                  THEN refused \cup {d} ELSE refused
  BY DEF Attempt
<1> DEFINE status == StatusAfter(answer, n)
           judged == Judge(answer, status, e)
           t == Attempted(s, e, answer)
<1>4. Recorded(d, e, answer)
  <2>1. CASE e = None
    BY <1>2, <1>3, <2>1 DEF Recorded
  <2>2. CASE e # None
    <3>1. /\ tries' = [tries EXCEPT ![d] = IF @ < MaxAttempts THEN @ + 1 ELSE @]
          /\ accepted' = IF answer = "ok" THEN accepted \cup {d} ELSE accepted
          /\ refused' = IF answer \in {"gone", "terminal", "rejected"}
                        THEN refused \cup {d} ELSE refused
      BY <1>3, <2>2
    <3> HIDE DEF e, d
    <3>2. QED
      BY <1>2, <2>2, <3>1 DEF Recorded
  <2>3. QED
    BY <2>1, <2>2
<1>5. session' = [session EXCEPT ![p] = t]
  <2> DEFINE l == Tail(s.list)
             o == Outcome(answer, n)
             w == IF e = None THEN <<d>> ELSE Flushes(answer, status, d)
             x == IF e = None THEN None ELSE judged
             y == s.wrote[h] \cup (IF e = None THEN {} ELSE Changed(e, judged))
  <2>1. session' = [session EXCEPT ![p] = Updated(s, l, o, w, x, y, d, h)]
    BY <1>3 DEF Updated
  <2>2. t = [list |-> l, todo |-> w, draft |-> [s.draft EXCEPT ![d] = o],
             seen |-> [s.seen EXCEPT ![h] = x], wrote |-> [s.wrote EXCEPT ![h] = y],
             locked |-> s.locked]
    BY DEF Attempted
  <2> HIDE DEF t, l, o, w, x, y, s, d, n, h, e, status, judged
  <2>3. s \in Sessions
    BY <1>1
  <2>4. Updated(s, l, o, w, x, y, d, h) = t
    BY <2>2, <2>3, UpdatedSession
  <2>5. QED
    BY <2>1, <2>4
<1>6. AttemptOf(p, s, d, n, h, e, answer, t)
  <2>1. e = EndpointOf(s, h) /\ (e = None => answer = "retry")
    BY <1>3 DEF EndpointOf
  <2>2. QED
    BY <1>1, <1>2, <1>5, <2>1 DEF AttemptOf
<1>7. QED
  BY <1>4, <1>6

\* One post and the changes it leaves in the session.
LEMMA AttemptKeeps ==
  ASSUME WebhookInv, NEW p \in Drain, Attempt(p)
  PROVE  WebhookInv'
<1>1. PICK s, d, n, h, e, answer, t :
        AttemptOf(p, s, d, n, h, e, answer, t) /\ Recorded(d, e, answer)
  BY AttemptIsOne
<1>2. /\ WebhooksTyped /\ StoredInv /\ RowsHonest /\ LimitSwitchesOff
      /\ \A q \in Drain : session[q] \in Sessions /\ SessionInv(session[q])
      /\ session \in [Drain -> Sessions]
  BY DEF WebhookInv, WebhooksTyped
<1>3. /\ UNCHANGED <<change, hook, removed, row, held, calm, crashes>>
      /\ session' = [session EXCEPT ![p] = t]
  BY <1>1 DEF AttemptOf, Recorded
<1>4. d \in Delivery /\ change[d[1]] = "made"
  BY <1>1, AttemptFacts
<1>5. t \in Sessions
  <2> DEFINE judged == Judge(answer, StatusAfter(answer, n), e)
  <2>1. AttemptLeaves(s, d, n, h, e, answer, judged, t)
    BY <1>1, AttemptedIsASession
  <2>2. QED
    BY <2>1 DEF AttemptLeaves
<1>6. /\ session' \in [Drain -> Sessions]
      /\ \A q \in Drain : session'[q] = IF q = p THEN t ELSE session[q]
  BY <1>2, <1>3, <1>5
<1>7. /\ tries' \in [Delivery -> Nat] /\ tries \in [Delivery -> Nat] /\ MaxAttempts \in Nat
      /\ \A c \in Delivery : /\ tries[c] <= tries'[c] /\ tries'[c] <= MaxAttempts
                             /\ c # d => tries'[c] = tries[c]
      /\ accepted \subseteq accepted' /\ refused \subseteq refused'
  BY <1>1, <1>2, <1>4, RecordedFacts, AttemptBounds DEF WebhooksTyped
<1>8. WebhooksTyped'
  <2>1. accepted' \in SUBSET Delivery /\ refused' \in SUBSET Delivery
    BY <1>1, <1>2, <1>4 DEF Recorded, WebhooksTyped
  <2>2. QED
    BY <1>2, <1>3, <1>6, <1>7, <2>1 DEF WebhooksTyped
<1>9. StoredInv'
  <2>1. \A c \in Delivery : tries'[c] <= MaxAttempts /\ (change'[c[1]] # "made" => tries'[c] = 0)
    BY <1>2, <1>3, <1>4, <1>7 DEF StoredInv
  <2>2. QED
    BY <1>2, <1>3, <2>1 DEF StoredInv, Exists
<1>10. RowsHonest' /\ LimitSwitchesOff'
  <2>1. LimitSwitchesOff'
    BY <1>2, <1>3 DEF LimitSwitchesOff, Exists
  <2>2. ASSUME NEW c \in Delivery, row[c] # None
        PROVE  /\ row[c].attempts <= tries'[c]
               /\ row[c].status = "delivered" => c \in accepted'
               /\ row[c].status = "failed" => c \in refused' \/ tries'[c] >= MaxAttempts
    <3>1. row[c].attempts \in Nat
      <4>1. row[c] \in Rows
        BY <1>2, <2>2 DEF WebhooksTyped
      <4>2. QED
        BY <4>1, RowParts
    <3>2. /\ row[c].attempts <= tries[c]
          /\ row[c].status = "delivered" => c \in accepted
          /\ row[c].status = "failed" => c \in refused \/ tries[c] >= MaxAttempts
      BY <1>2, <2>2 DEF RowsHonest
    <3>3. row[c].attempts <= tries'[c] /\ (tries[c] >= MaxAttempts => tries'[c] >= MaxAttempts)
      BY <1>7, <3>1, <3>2
    <3>4. QED
      BY <1>7, <3>2, <3>3
  <2>3. QED
    BY <1>3, <2>1, <2>2 DEF RowsHonest
<1>11. ASSUME NEW q \in Drain PROVE SessionInv(session[q])'
  <2>1. CASE q = p
    <3>1. SessionInv(t)'
      BY <1>1, AttemptKeepsSession
    <3>2. QED
      BY <1>6, <2>1, <3>1
  <2>2. CASE q # p
    <3>1. WorldMoves
      BY <1>3, <1>7 DEF WorldMoves, Exists, Kept
    <3>2. session[q] \in Sessions /\ SessionInv(session[q]) /\ SameButWaits(session[q], session[q])
      BY <1>2 DEF SameButWaits
    <3>3. \A r : RowExists(r) => RowExists(r)'
      BY <1>3 DEF RowExists, Exists
    <3>5. session'[q] = session[q]
      BY <1>6, <2>2
    <3>6. QED
      BY <1>2, <1>7, <3>1, <3>2, <3>3, <3>5, OthersKeepTheirs
  <2>3. QED
    BY <2>1, <2>2
<1>12. CalmInv'
  BY <1>1, AttemptKeepsCauses
<1>13. QED
  BY <1>8, <1>9, <1>10, <1>11, <1>12 DEF WebhookInv

-----------------------------------------------------------------------------
(* The commit.                                                             *)

(* A row as a commit leaves it: there as before, and honest if the draft   *)
(* is.                                                                     *)
LEMMA WrittenRowIsARow ==
  ASSUME WebhookInv, NEW p \in Drain, session[p].todo = <<>>, NEW d \in Delivery
  PROVE  /\ WrittenRow(p, d) \in Rows \cup {None}
         /\ WrittenRow(p, d) = None <=> row[d] = None
         /\ session[p].draft[d] = None => WrittenRow(p, d) = row[d]
         /\ session[p].draft[d] # None =>
              /\ row[d] # None
              /\ WrittenRow(p, d).attempts = session[p].draft[d].attempts
              /\ WrittenRow(p, d).status =
                   IF session[p].draft[d].status = "pending" THEN row[d].status
                   ELSE session[p].draft[d].status
<1> DEFINE s == session[p]
           o == s.draft[d]
<1>1. s \in Sessions /\ SessionInv(s) /\ row[d] \in Rows \cup {None}
  BY DEF WebhookInv, WebhooksTyped
<1>2. CASE o = None
  BY <1>1, <1>2 DEF WrittenRow
<1>3. CASE o # None
  <2>1. row[d] # None
    <3>1. d \in s.locked
      BY <1>1, <1>3 DEF SessionInv, DraftInv, InTodo
    <3>2. QED
      BY <1>1, <3>1, IdsDiffer DEF SessionInv, LockInv, RowExists
  <2>2. o \in Rows /\ row[d] \in Rows
    BY <1>1, <1>3, <2>1, SessionParts
  <2> DEFINE status == IF o.status = "pending" THEN row[d].status ELSE o.status
  <2>3. WrittenRow(p, d) = [o EXCEPT !.status = status]
    BY <1>3 DEF WrittenRow
  <2>4. /\ status \in {"pending", "delivered", "failed"}
        /\ status = "pending" => o.status = "pending"
    BY <2>2, RowParts
  <2> HIDE DEF status, o
  <2>5. [o EXCEPT !.status = status] \in Rows
    <3>1. MaxAttempts \in Nat
      BY AttemptBounds
    <3>2. QED
      BY <2>2, <2>4, <3>1 DEF Rows
  <2>6. /\ [o EXCEPT !.status = status].status = status
        /\ [o EXCEPT !.status = status].attempts = o.attempts
    BY <2>2 DEF Rows
  <2>7. WrittenRow(p, d) \in Rows /\ WrittenRow(p, d) # None
        /\ WrittenRow(p, d).status = status /\ WrittenRow(p, d).attempts = o.attempts
    BY <2>3, <2>5, <2>6, NoneIsNoRow
  <2>8. QED
    BY <1>3, <2>1, <2>7 DEF status, o
<1>4. QED
  BY <1>2, <1>3

(* An endpoint as a commit leaves it: never on again, and never on at its  *)
(* limit.                                                                  *)
LEMMA WrittenHookIsARow ==
  ASSUME WebhookInv, NEW p \in Drain, session[p].todo = <<>>, NEW h \in Hook
  PROVE  /\ WrittenHook(p, h) \in HookRows \cup {None}
         /\ WrittenHook(p, h) = None <=> hook[h] = None
         /\ Exists(h) => /\ WrittenHook(p, h).active => hook[h].active
                         /\ WrittenHook(p, h).active => WrittenHook(p, h).failures < AutoDisableAfter
         /\ \/ WrittenHook(p, h) = hook[h]
            \/ /\ session[p].seen[h] # None /\ Exists(h)
               /\ \/ WrittenHook(p, h).failures = session[p].seen[h].failures
                  \/ WrittenHook(p, h).failures = hook[h].failures
               /\ ~WrittenHook(p, h).active => ~session[p].seen[h].active \/ ~hook[h].active
<1> DEFINE s == session[p]
           w == WrittenHook(p, h)
<1>1. /\ s \in Sessions /\ SessionInv(s) /\ hook[h] \in HookRows \cup {None}
      /\ LimitSwitchesOff
  BY DEF WebhookInv, WebhooksTyped
<1>2. CASE s.wrote[h] = {}
  <2>1. w = hook[h]
    BY <1>2 DEF WrittenHook
  <2>2. QED
    BY <1>1, <2>1 DEF LimitSwitchesOff, Exists
<1>3. CASE s.wrote[h] # {}
  <2>1. /\ s.seen[h] # None /\ h \in s.locked
        /\ "active" \in s.wrote[h] => ~s.seen[h].active
        /\ s.seen[h].active => s.seen[h].failures < AutoDisableAfter
        /\ Exists(h) /\ ~s.seen[h].active => "active" \in s.wrote[h] \/ ~hook[h].active
    BY <1>1, <1>3 DEF SessionInv, SeenInv, InTodo
  <2>2. Exists(h)
    BY <1>1, <2>1 DEF SessionInv, LockInv, RowExists
  <2>3. /\ s.seen[h] \in HookRows /\ hook[h] \in HookRows
        /\ hook[h].active => hook[h].failures < AutoDisableAfter
    BY <1>1, <2>1, <2>2, SessionParts DEF Exists, LimitSwitchesOff
  <2>4. /\ s.seen[h].active \in BOOLEAN /\ s.seen[h].failures \in Nat
        /\ hook[h].active \in BOOLEAN /\ hook[h].failures \in Nat
    BY <2>3, RowParts
  <2> DEFINE active == IF "active" \in s.wrote[h] THEN s.seen[h].active ELSE hook[h].active
             failures == IF "failures" \in s.wrote[h] THEN s.seen[h].failures
                         ELSE hook[h].failures
  <2>5. w = [active |-> active, failures |-> failures]
    BY <1>3 DEF WrittenHook
  <2>6. /\ active \in BOOLEAN /\ failures \in Nat
        /\ active => hook[h].active /\ s.seen[h].active
        /\ failures = s.seen[h].failures \/ failures = hook[h].failures
        /\ ~active => ~s.seen[h].active \/ ~hook[h].active
    BY <2>1, <2>2, <2>4
  <2> HIDE DEF active, failures
  <2>7. /\ w \in HookRows /\ w.active = active /\ w.failures = failures
    BY <2>5, <2>6 DEF HookRows
  <2> HIDE DEF w, s
  <2>8. w.active => w.failures < AutoDisableAfter
    BY <2>1, <2>3, <2>6, <2>7
  <2>9. w # None /\ hook[h] # None
    BY <2>2, <2>7, NoneIsNoRow DEF Exists
  <2>10. QED
    BY <2>1, <2>2, <2>6, <2>7, <2>8, <2>9 DEF w, s
<1>4. QED
  BY <1>2, <1>3

\* Writing what the drain changed to the rows it has locked.
LEMMA CommitKeeps ==
  ASSUME WebhookInv, NEW p \in Drain, Commit(p)
  PROVE  WebhookInv'
<1> DEFINE s == session[p]
<1>1. /\ WebhooksTyped /\ StoredInv /\ RowsHonest /\ LimitSwitchesOff /\ CalmInv
      /\ s \in Sessions /\ s.todo = <<>>
      /\ \A q \in Drain : session[q] \in Sessions /\ SessionInv(session[q])
      /\ s # NoSession
  BY DEF WebhookInv, WebhooksTyped, Commit, Running
<1>2. /\ row'  = [d \in Delivery |-> WrittenRow(p, d)]
      /\ hook' = [h \in Hook |-> WrittenHook(p, h)]
      /\ session' = [session EXCEPT ![p] = NoSession]
      /\ UNCHANGED <<change, removed, held, tries, accepted, refused, calm, crashes>>
  BY DEF Commit, history
<1>3. /\ row' \in [Delivery -> Rows \cup {None}]
      /\ \A d \in Delivery :
           /\ row'[d] = None <=> row[d] = None
           /\ s.draft[d] = None => row'[d] = row[d]
           /\ s.draft[d] # None =>
                /\ row[d] # None /\ row'[d].attempts = s.draft[d].attempts
                /\ row'[d].status = IF s.draft[d].status = "pending" THEN row[d].status
                                    ELSE s.draft[d].status
  BY <1>1, <1>2, WrittenRowIsARow
<1>4. /\ hook' \in [Hook -> HookRows \cup {None}]
      /\ \A h \in Hook : Exists(h)' <=> Exists(h)
      /\ \A h \in Hook : Exists(h) => /\ hook'[h].active => hook[h].active
                                      /\ hook'[h].active => hook'[h].failures < AutoDisableAfter
  <2>1. \A h \in Hook : /\ WrittenHook(p, h) \in HookRows \cup {None}
                        /\ WrittenHook(p, h) = None <=> hook[h] = None
                        /\ Exists(h) =>
                             /\ WrittenHook(p, h).active => hook[h].active
                             /\ WrittenHook(p, h).active =>
                                  WrittenHook(p, h).failures < AutoDisableAfter
    BY <1>1, WrittenHookIsARow
  <2>2. QED
    BY <1>2, <2>1 DEF Exists
<1>5. /\ session' \in [Drain -> Sessions]
      /\ \A q \in Drain : session'[q] = IF q = p THEN NoSession ELSE session[q]
  BY <1>1, <1>2, NothingHeld DEF WebhooksTyped
<1>6. WebhooksTyped' /\ StoredInv' /\ LimitSwitchesOff'
  <2>1. WebhooksTyped'
    BY <1>1, <1>2, <1>3, <1>4, <1>5 DEF WebhooksTyped
  <2>2. StoredInv'
    <3>1. \A d \in Delivery : row'[d] # None => change'[d[1]] = "made" /\ Exists(HookOf(d))'
      BY <1>1, <1>2, <1>3, <1>4, IdsDiffer DEF StoredInv
    <3>2. \A d \in held' : change'[d[1]] = "open" /\ Exists(HookOf(d))'
      <4>1. \A d \in held : d \in Delivery
        BY <1>1 DEF WebhooksTyped
      <4>2. QED
        BY <1>1, <1>2, <1>4, <4>1, IdsDiffer DEF StoredInv
    <3>3. \A h \in Hook : Exists(h)' => h \notin removed'
      BY <1>1, <1>2, <1>4 DEF StoredInv
    <3>4. \A d \in Delivery : tries'[d] <= MaxAttempts /\ (change'[d[1]] # "made" => tries'[d] = 0)
      BY <1>1, <1>2 DEF StoredInv
    <3>5. QED
      BY <3>1, <3>2, <3>3, <3>4 DEF StoredInv
  <2>3. LimitSwitchesOff'
    BY <1>4 DEF LimitSwitchesOff
  <2>4. QED
    BY <2>1, <2>2, <2>3
<1>7. RowsHonest'
  <2> SUFFICES ASSUME NEW d \in Delivery, row'[d] # None
               PROVE  /\ row'[d].attempts <= tries'[d]
                      /\ row'[d].status = "delivered" => d \in accepted'
                      /\ row'[d].status = "failed" => d \in refused' \/ tries'[d] >= MaxAttempts
    BY DEF RowsHonest
  <2>1. /\ row[d] # None
        /\ row[d].attempts <= tries[d]
        /\ row[d].status = "delivered" => d \in accepted
        /\ row[d].status = "failed" => d \in refused \/ tries[d] >= MaxAttempts
    BY <1>1, <1>3 DEF RowsHonest
  <2>2. s.draft[d] # None =>
          /\ s.draft[d].attempts <= tries[d]
          /\ s.draft[d].status = "delivered" => d \in accepted
          /\ s.draft[d].status = "failed" => d \in refused \/ tries[d] >= MaxAttempts
    BY <1>1, <2>1 DEF SessionInv, DraftInv
  <2>3. CASE s.draft[d] = None
    BY <1>2, <1>3, <2>1, <2>3
  <2>4. CASE s.draft[d] # None
    <3>1. /\ row'[d].attempts = s.draft[d].attempts
          /\ row'[d].status = row[d].status \/ row'[d].status = s.draft[d].status
      BY <1>3, <2>4
    <3>2. QED
      BY <1>2, <2>1, <2>2, <2>4, <3>1
  <2>5. QED
    BY <2>3, <2>4
<1>8. ASSUME NEW q \in Drain PROVE SessionInv(session[q])'
  <2>1. CASE q = p
    <3>1. session'[q] = NoSession
      BY <1>5, <2>1
    <3>2. SessionInv(NoSession)'
      BY NothingHeld DEF SessionInv, ListInv, DraftInv, SeenInv, LockInv
    <3>3. QED
      BY <3>1, <3>2
  <2>2. CASE q # p
    <3>1. WorldMoves
      <4>1. \A d \in Delivery : tries[d] <= tries'[d]
        BY <1>1, <1>2 DEF WebhooksTyped
      <4>2. \A d \in Delivery : Kept(d) => Kept(d)'
        BY <1>2, <1>3 DEF Kept
      <4>3. QED
        BY <1>2, <1>3, <1>4, <4>1, <4>2 DEF WorldMoves
    <3>2. session[q] \in Sessions /\ SessionInv(session[q]) /\ SameButWaits(session[q], session[q])
      BY <1>1 DEF SameButWaits
    <3>3. \A r \in session[q].locked : RowExists(r) => RowExists(r)'
      <4>1. session[q].locked \subseteq Hook \cup Delivery
        BY <3>2, SessionParts
      <4>2. QED
        BY <1>3, <1>4, <4>1 DEF RowExists
    <3>4. session'[q] = session[q] /\ tries' \in [Delivery -> Nat]
      BY <1>1, <1>2, <1>5, <2>2 DEF WebhooksTyped
    <3>5. QED
      BY <1>1, <3>1, <3>2, <3>3, <3>4, OthersKeepTheirs
  <2>3. QED
    BY <2>1, <2>2
<1>9. CalmInv'
  <2> SUFFICES ASSUME calm
               PROVE  /\ \A q, r \in Drain : Running(q)' /\ Running(r)' => q = r
                      /\ \A q \in Drain : CalmSession(session[q])'
                      /\ \A d \in Delivery :
                           row'[d] # None /\ (\A q \in Drain : session'[q].draft[d] = None) =>
                             row'[d].attempts = tries'[d]
                      /\ \A h \in Hook : Exists(h)' => HasCause(hook[h], h, Failed(h))'
    BY <1>2 DEF CalmInv
  <2>1. /\ \A q, r \in Drain : Running(q) /\ Running(r) => q = r
        /\ CalmSession(s)
        /\ \A d \in Delivery :
             row[d] # None /\ (\A q \in Drain : session[q].draft[d] = None) =>
               row[d].attempts = tries[d]
        /\ \A h \in Hook : Exists(h) => HasCause(hook[h], h, Failed(h))
    BY <1>1 DEF CalmInv
  <2>2. \A q \in Drain : session'[q] = NoSession /\ (q # p => session[q] = NoSession)
    BY <1>1, <1>5, <2>1 DEF Running
  <2>3. \A q \in Drain : CalmSession(session[q])'
    <3>1. CalmSession(NoSession)'
      BY NothingHeld DEF CalmSession
    <3>2. QED
      BY <2>2, <3>1
  <2>4. \A d \in Delivery : row'[d] # None => row'[d].attempts = tries'[d]
    <3> SUFFICES ASSUME NEW d \in Delivery, row'[d] # None PROVE row'[d].attempts = tries[d]
      BY <1>2
    <3>1. CASE s.draft[d] = None
      <4>1. row'[d] = row[d] /\ \A q \in Drain : session[q].draft[d] = None
        BY <1>3, <2>2, <3>1, NothingHeld
      <4>2. QED
        BY <2>1, <4>1
    <3>2. CASE s.draft[d] # None
      BY <1>3, <2>1, <3>2 DEF CalmSession
    <3>3. QED
      BY <3>1, <3>2
  <2>5. ASSUME NEW h \in Hook, Exists(h)' PROVE HasCause(hook[h], h, Failed(h))'
    <3> DEFINE lost == Failed(h) \cup Drafted(s, h)
    <3>1. Failed(h)' = lost
      <4>1. \A d \in Delivery : s.draft[d] # None => row[d] # None /\ row[d].status = "pending"
        BY <1>3, <2>1 DEF CalmSession
      <4>2. \A d \in Delivery : row'[d] # None /\ row'[d].status = "failed" <=>
              \/ row[d] # None /\ row[d].status = "failed"
              \/ row[d] # None /\ s.draft[d] # None /\ s.draft[d].status = "failed"
        BY <1>3, <4>1
      <4>3. QED
        BY <4>2 DEF Failed, Drafted
    <3>2. HasRefused(h) => HasRefused(h)'
      BY <1>2, <1>3 DEF HasRefused
    <3>3. /\ lost \in SUBSET Delivery /\ Failed(h) \in SUBSET Delivery /\ Failed(h) \subseteq lost
      BY DEF Failed, Drafted
    <3>4. /\ Exists(h) /\ hook[h] \in HookRows /\ HasCause(hook[h], h, Failed(h))
      BY <1>1, <1>4, <2>1, <2>5 DEF WebhooksTyped, Exists
    <3>5. HasCause(hook[h], h, lost)
      BY <3>3, <3>4, CauseGrows
    <3>6. s.seen[h] # None => HasCause(s.seen[h], h, lost)
      BY <2>1, <3>4 DEF CalmSession
    <3> HIDE DEF lost
    <3>7. \/ hook'[h] = hook[h]
          \/ /\ s.seen[h] # None
             /\ \/ hook'[h].failures = s.seen[h].failures
                \/ hook'[h].failures = hook[h].failures
             /\ ~hook'[h].active => ~s.seen[h].active \/ ~hook[h].active
      BY <1>1, <1>2, WrittenHookIsARow
    <3>8. HasRefused(h) \/ /\ hook'[h].failures <= Cardinality(lost)
                           /\ ~hook'[h].active => Cardinality(lost) >= AutoDisableAfter
      BY <3>5, <3>6, <3>7 DEF HasCause
    <3>9. QED
      BY <3>1, <3>2, <3>8 DEF HasCause
  <2>6. QED
    BY <2>2, <2>3, <2>4, <2>5 DEF Running
<1>10. QED
  BY <1>6, <1>7, <1>8, <1>9 DEF WebhookInv

-----------------------------------------------------------------------------
(* The invariant, and what follows from it.                                *)

\* The invariant holds of an empty database.
LEMMA WebhookInvInitially ==
  ASSUME WebhookInit
  PROVE  WebhookInv
<1>1. /\ change = [c \in Change |-> "none"] /\ hook = [h \in Hook |-> None]
      /\ removed = {} /\ row = [d \in Delivery |-> None] /\ held = {}
      /\ session = [p \in Drain |-> NoSession] /\ tries = [d \in Delivery |-> 0]
      /\ accepted = {} /\ refused = {} /\ calm = TRUE /\ crashes = 0
  BY DEF WebhookInit
<1>2. WebhooksTyped
  BY <1>1, NothingHeld DEF WebhooksTyped
<1>3. /\ \A d \in Delivery : row[d] = None /\ tries[d] = 0
      /\ \A h \in Hook : ~Exists(h)
      /\ \A p \in Drain : session[p] = NoSession /\ ~Running(p)
  BY <1>1 DEF Exists, Running
<1>4. StoredInv
  BY <1>1, <1>3, AttemptBounds DEF StoredInv
<1>5. RowsHonest /\ LimitSwitchesOff
  BY <1>3 DEF RowsHonest, LimitSwitchesOff
<1>6. \A p \in Drain : SessionInv(session[p]) /\ CalmSession(session[p])
  BY <1>3, NothingHeld
<1>7. CalmInv
  BY <1>3, <1>6 DEF CalmInv
<1>8. QED
  BY <1>2, <1>4, <1>5, <1>6, <1>7 DEF WebhookInv

(* Every step of the queue, whoever takes it.                              *)
LEMMA WebhookInvInductive ==
  ASSUME WebhookInv, [WebhookNext]_vars
  PROVE  WebhookInv'
<1>1. CASE UNCHANGED vars
  <2>1. /\ UNCHANGED <<database, tries, accepted, refused, session, calm, crashes>>
        /\ WebhooksTyped /\ \A p \in Drain : SessionInv(session[p])
    BY <1>1 DEF vars, history, WebhookInv
  <2>2. /\ session' \in [Drain -> Sessions] /\ calm' \in BOOLEAN /\ crashes' \in Nat
        /\ \A p \in Drain : SessionInv(session'[p])
    BY <2>1 DEF WebhooksTyped
  <2>3. NothingAttempted
    BY <2>1 DEF NothingAttempted, SameWork, Running, Exists, database
  <2>4. QED
    BY <2>1, <2>2, <2>3, SessionStepKeeps
<1>2. ASSUME NEW h \in Hook, Subscribe(h) \/ DeleteWebhook(h) PROVE WebhookInv'
  BY <1>2, SubscribeKeeps, DeleteWebhookKeeps
<1>3. ASSUME NEW c \in Change, Emit(c) \/ EndRequest(c, "made") \/ EndRequest(c, "undone")
      PROVE  WebhookInv'
  BY <1>3, EmitKeeps, EndRequestKeeps
<1>4. ASSUME NEW p \in Drain, StartDrain(p) PROVE WebhookInv'
  BY <1>4, StartDrainKeeps
<1>5. ASSUME NEW p \in Drain, Stale(p) \/ Crash(p) PROVE WebhookInv'
  <2>1. Rollback(p) /\ crashes' \in Nat
    BY <1>5 DEF Stale, Crash, WebhookInv, WebhooksTyped
  <2>2. QED
    BY <2>1, RollbackKeeps
<1>6. ASSUME NEW p \in Drain, Attempt(p) \/ Write(p) \/ Commit(p) \/ BreakDeadlock(p)
      PROVE  WebhookInv'
  BY <1>6, AttemptKeeps, WriteKeeps, CommitKeeps, BreakDeadlockKeeps
<1>7. CASE Tick
  BY <1>7, TickKeeps
<1>8. QED
  BY <1>1, <1>2, <1>3, <1>4, <1>5, <1>6, <1>7 DEF WebhookNext, Request, DrainStep

\* The invariant holds in every run.
LEMMA WebhookInvHolds == WebhookSpec => []WebhookInv
<1>1. WebhookInit => WebhookInv
  BY WebhookInvInitially
<1>2. WebhookInv /\ [WebhookNext]_vars => WebhookInv'
  BY WebhookInvInductive
<1>3. QED
  BY <1>1, <1>2, PTL DEF WebhookSpec

(* Every row the queue stores is well formed, and one that waits for an    *)
(* attempt has one left and knows when.                                    *)
THEOREM RowsAreWellFormed == WebhookSpec => []WebhookTypeOK
<1>1. WebhookInv => WebhookTypeOK
  <2> SUFFICES ASSUME WebhookInv PROVE WebhookTypeOK
    OBVIOUS
  <2>1. WebhooksTyped
    BY DEF WebhookInv
  <2>2. \A h \in Hook : Exists(h) => hook[h] \in [active : BOOLEAN, failures : Nat]
    BY <2>1 DEF WebhooksTyped, HookRows, Exists
  <2>3. ASSUME NEW d \in Delivery, row[d] # None
        PROVE  /\ row[d].status \in {"pending", "delivered", "failed"}
               /\ row[d].attempts \in 0..MaxAttempts /\ row[d].wait \in Int \cup {None}
               /\ row[d].status = "pending" => row[d].attempts < MaxAttempts /\ row[d].wait # None
    <3>1. row[d] \in Rows
      BY <2>1, <2>3 DEF WebhooksTyped
    <3>2. MaxAttempts \in Nat
      BY AttemptBounds
    <3>3. QED
      BY <3>1, <3>2, RowParts
  <2>4. ASSUME NEW p \in Drain PROVE DOMAIN session[p] = DOMAIN NoSession
    <3>1. \A s \in Sessions : DOMAIN s = {"list", "todo", "draft", "seen", "wrote", "locked"}
      BY DEF Sessions
    <3>2. session[p] \in Sessions /\ NoSession \in Sessions
      BY <2>1, NothingHeld DEF WebhooksTyped
    <3>3. QED
      BY <3>1, <3>2
  <2>5. QED
    BY <2>1, <2>2, <2>3, <2>4 DEF WebhookTypeOK, WebhooksTyped
<1>2. QED
  BY <1>1, WebhookInvHolds, PTL

(* What the rows say of the deliveries is what happened: delivered means   *)
(* accepted, given up on means refused or out of attempts, and no attempt  *)
(* is recorded that was not made -- nor, without overlap or rollback, lost. *)
THEOREM WhatIsRecordedHappened == WebhookSpec => []RecordsAreTrue
<1>1. WebhookInv => RecordsAreTrue
  <2> SUFFICES ASSUME WebhookInv PROVE RecordsAreTrue
    OBVIOUS
  <2>1. DeliveredMeansAccepted /\ GivesUpForCause
    BY DEF WebhookInv, RowsHonest, DeliveredMeansAccepted, GivesUpForCause
  <2>2. AttemptsRecorded
    <3>1. \A d \in Delivery : row[d] # None => row[d].attempts <= tries[d]
      BY DEF WebhookInv, RowsHonest
    <3>2. ASSUME NEW d \in Delivery, row[d] # None, calm, \A p \in Drain : ~Running(p)
          PROVE  row[d].attempts = tries[d]
      BY <3>2, NothingHeld DEF WebhookInv, CalmInv, Running
    <3>3. QED
      BY <3>1, <3>2 DEF AttemptsRecorded
  <2>3. QED
    BY <2>1, <2>2 DEF RecordsAreTrue
<1>2. QED
  BY <1>1, WebhookInvHolds, PTL

(* An endpoint at its limit is off, however its drains overlap; and off    *)
(* only with a cause, when none overlapped or was rolled back.             *)
THEOREM OffExactlyWithCause == WebhookSpec => []SwitchedOffRightly
<1>1. WebhookInv => SwitchedOffRightly
  <2> SUFFICES ASSUME WebhookInv PROVE SwitchedOffRightly
    OBVIOUS
  <2>1. LimitSwitchesOff
    BY DEF WebhookInv
  <2>2. SwitchedOffForCause
    <3> SUFFICES ASSUME calm, NEW h \in Hook, Exists(h), ~hook[h].active
                 PROVE  LET ofHook == {d \in Delivery : HookOf(d) = h /\ row[d] # None}
                        IN  \/ \E d \in ofHook : d \in refused
                            \/ Cardinality({d \in ofHook : row[d].status = "failed"})
                                 >= AutoDisableAfter
      BY DEF SwitchedOffForCause
    <3>1. HasCause(hook[h], h, Failed(h))
      BY DEF WebhookInv, CalmInv
    <3>2. Failed(h) = {d \in {c \in Delivery : HookOf(c) = h /\ row[c] # None} :
                         row[d].status = "failed"}
      BY DEF Failed
    <3>3. QED
      BY <3>1, <3>2 DEF HasCause, HasRefused
  <2>3. QED
    BY <2>1, <2>2 DEF SwitchedOffRightly
<1>2. QED
  BY <1>1, WebhookInvHolds, PTL

-----------------------------------------------------------------------------
(* What no step does, and what the steps do for the promise.               *)

(* A delivery stays queued, settled or neither.                            *)
StaysPut(d) ==
  /\ row'[d] = None <=> row[d] = None
  /\ row[d] # None => (row'[d].status = "pending" <=> row[d].status = "pending")

(* What a step may do to the rows: a made change adds new ones, a commit   *)
(* settles some that were waiting, a deleted endpoint takes its own, and   *)
(* that is all.                                                            *)
Adds == \A d \in Delivery :
  \/ StaysPut(d)
  \/ /\ row[d] = None /\ HookOf(d) \notin removed
     /\ row'[d] # None /\ row'[d].status = "pending"

Settles == \A d \in Delivery :
  \/ StaysPut(d)
  \/ /\ row[d] # None /\ row[d].status = "pending" /\ HookOf(d) \notin removed
     /\ row'[d] # None /\ row'[d].status # "pending"

RowStep ==
  \/ UNCHANGED removed /\ (Adds \/ Settles)
  \/ \E h \in Hook :
       /\ h \notin removed /\ removed' = removed \cup {h}
       /\ \A d \in Delivery : IF HookOf(d) = h THEN row'[d] = None ELSE StaysPut(d)

(* What a step may do to an endpoint: none that is off comes on.           *)
HookStep == \A h \in Hook : Exists(h) /\ ~hook[h].active => hook'[h] = None \/ ~hook'[h].active

(* A commit settles, and never takes back what another drain settled.      *)
LEMMA CommitSettles ==
  ASSUME WebhookInv, NEW p \in Drain, Commit(p)
  PROVE  RowStep /\ HookStep
<1>1. /\ row'  = [d \in Delivery |-> WrittenRow(p, d)]
      /\ hook' = [h \in Hook |-> WrittenHook(p, h)]
      /\ session[p].todo = <<>> /\ UNCHANGED removed
  BY DEF Commit
<1>2. HookStep
  <2>1. \A h \in Hook : Exists(h) => (WrittenHook(p, h).active => hook[h].active)
    BY <1>1, WrittenHookIsARow
  <2>2. QED
    BY <1>1, <2>1 DEF HookStep
<1>3. Settles
  <2> SUFFICES ASSUME NEW d \in Delivery
               PROVE  \/ StaysPut(d)
                      \/ /\ row[d] # None /\ row[d].status = "pending"
                         /\ HookOf(d) \notin removed
                         /\ row'[d] # None /\ row'[d].status # "pending"
    BY DEF Settles
  <2>1. /\ row'[d] = None <=> row[d] = None
        /\ session[p].draft[d] = None => row'[d] = row[d]
        /\ session[p].draft[d] # None =>
             /\ row[d] # None
             /\ row'[d].status = IF session[p].draft[d].status = "pending" THEN row[d].status
                                 ELSE session[p].draft[d].status
    BY <1>1, WrittenRowIsARow
  <2>2. row[d] # None => HookOf(d) \notin removed
    BY IdsDiffer DEF WebhookInv, StoredInv
  <2>3. QED
    BY <2>1, <2>2 DEF StaysPut
<1>4. QED
  BY <1>1, <1>2, <1>3 DEF RowStep

\* No step takes a settled row back, nor brings a removed one back.
LEMMA EveryStepMovesOn ==
  ASSUME WebhookInv, [WebhookNext]_vars
  PROVE  RowStep /\ HookStep
<1>1. ASSUME UNCHANGED <<removed, row, hook>> PROVE RowStep /\ HookStep
  BY <1>1 DEF RowStep, Adds, StaysPut, HookStep
<1>2. CASE UNCHANGED vars
  BY <1>1, <1>2 DEF vars, database
<1>3. ASSUME NEW h \in Hook, Subscribe(h) PROVE RowStep /\ HookStep
  <2>1. /\ ~Exists(h) /\ hook' = [hook EXCEPT ![h] = [active |-> TRUE, failures |-> 0]]
        /\ UNCHANGED <<removed, row>>
    BY <1>3 DEF Subscribe
  <2>2. hook \in [Hook -> HookRows \cup {None}]
    BY DEF WebhookInv, WebhooksTyped
  <2>3. \A g \in Hook : g # h => hook'[g] = hook[g]
    BY <2>1, <2>2
  <2>4. QED
    BY <2>1, <2>3 DEF RowStep, Adds, StaysPut, HookStep
<1>4. ASSUME NEW h \in Hook, DeleteWebhook(h) PROVE RowStep /\ HookStep
  <2>1. /\ Exists(h) /\ hook' = [hook EXCEPT ![h] = None] /\ removed' = removed \cup {h}
        /\ row' = [d \in Delivery |->
                     IF d \in {c \in Delivery : HookOf(c) = h /\ row[c] # None} THEN None
                     ELSE row[d]]
    BY <1>4 DEF DeleteWebhook
  <2>2. hook \in [Hook -> HookRows \cup {None}] /\ h \notin removed
    BY <2>1 DEF WebhookInv, WebhooksTyped, StoredInv
  <2>3. \A g \in Hook : hook'[g] = IF g = h THEN None ELSE hook[g]
    BY <2>1, <2>2
  <2>4. \A d \in Delivery : IF HookOf(d) = h THEN row'[d] = None ELSE row'[d] = row[d]
    BY <2>1
  <2>5. QED
    BY <2>1, <2>2, <2>3, <2>4 DEF RowStep, StaysPut, HookStep
<1>5. ASSUME NEW c \in Change, Emit(c) PROVE RowStep /\ HookStep
  BY <1>1, <1>5 DEF Emit
<1>6. ASSUME NEW c \in Change, NEW outcome, EndRequest(c, outcome) PROVE RowStep /\ HookStep
  <2> DEFINE queued == [status |-> "pending", attempts |-> 0, wait |-> 0]
  <2>1. /\ change[c] = "open" /\ UNCHANGED <<hook, removed>>
        /\ \A d \in Delivery :
             row'[d] = IF d \in held /\ d[1] = c /\ outcome = "made" THEN queued ELSE row[d]
    BY <1>6 DEF EndRequest
  <2>2. queued.status = "pending" /\ queued # None
    <3>1. queued \in Rows
      BY AttemptBounds, NoneIsNoRow DEF Rows
    <3>2. QED
      BY <3>1, NoneIsNoRow
  <2> HIDE DEF queued
  <2>3. \A d \in Delivery : d \in held /\ d[1] = c => row[d] = None /\ HookOf(d) \notin removed
    BY <2>1, IdsDiffer DEF WebhookInv, StoredInv
  <2>4. Adds
    BY <2>1, <2>2, <2>3 DEF Adds, StaysPut
  <2>5. HookStep
    BY <2>1 DEF HookStep
  <2>6. QED
    BY <2>1, <2>4, <2>5 DEF RowStep
<1>7. ASSUME NEW p \in Drain,
             \/ StartDrain(p) \/ Attempt(p) \/ Write(p) \/ Stale(p) \/ BreakDeadlock(p)
             \/ Crash(p)
      PROVE  RowStep /\ HookStep
  <2>1. UNCHANGED database
    BY <1>7 DEF StartDrain, Attempt, Write, Stale, BreakDeadlock, Crash, Rollback
  <2>2. QED
    BY <1>1, <2>1 DEF database
<1>8. CASE Tick
  <2>1. UNCHANGED <<hook, removed>> /\ row' = [d \in Delivery |-> Older(row[d])]
    BY <1>8 DEF Tick
  <2>2. row \in [Delivery -> Rows \cup {None}]
    BY DEF WebhookInv, WebhooksTyped
  <2>3. ASSUME NEW d \in Delivery PROVE StaysPut(d)
    <3>1. CASE row[d] = None
      BY <2>1, <3>1 DEF Older, StaysPut
    <3>2. CASE row[d] # None
      <4>1. Older(row[d]) # None /\ Older(row[d]).status = row[d].status
        BY <2>2, <3>2, OlderIsARow
      <4>2. QED
        BY <2>1, <3>2, <4>1 DEF StaysPut
    <3>3. QED
      BY <3>1, <3>2
  <2>4. QED
    BY <2>1, <2>3 DEF RowStep, Adds, HookStep
<1>9. ASSUME NEW p \in Drain, Commit(p) PROVE RowStep /\ HookStep
  BY <1>9, CommitSettles
<1>10. QED
  BY <1>2, <1>3, <1>4, <1>5, <1>6, <1>7, <1>8, <1>9 DEF WebhookNext, Request, DrainStep

(* Whatever overlaps, nothing that was settled waits again, and no drain   *)
(* switches an endpoint on again that another one switched off.            *)
THEOREM SettledStaysSettled == WebhookSpec => NothingComesBack
<1> DEFINE Back ==
      /\ \A d \in Delivery : row[d] # None /\ row[d].status # "pending" =>
           row'[d] = None \/ row'[d].status # "pending"
      /\ \A h \in Hook : Exists(h) /\ ~hook[h].active => hook'[h] = None \/ ~hook'[h].active
<1>1. WebhookInv /\ [WebhookNext]_vars => [Back]_vars
  <2> SUFFICES ASSUME WebhookInv, [WebhookNext]_vars PROVE Back
    OBVIOUS
  <2>1. RowStep /\ HookStep
    BY EveryStepMovesOn
  <2>2. \A d \in Delivery : row[d] # None /\ row[d].status # "pending" =>
           row'[d] = None \/ row'[d].status # "pending"
    BY <2>1 DEF RowStep, Adds, Settles, StaysPut
  <2>3. QED
    BY <2>1, <2>2 DEF HookStep
<1>2. QED
  BY <1>1, WebhookInvHolds, PTL DEF WebhookSpec, NothingComesBack

-----------------------------------------------------------------------------
(* The promise.                                                            *)

(* The fates of the deliveries, as the promise sees them.                  *)
Fates == [d \in Delivery |-> Fate(d)]

(* The promise, but for the liveness that needs the scheduling of drains.  *)
OutboxSafety == Promise!OutboxInit /\ [][Promise!OutboxNext]_Fates

\* Every step is a step of the abstract queue, or none.
LEMMA StepKeepsThePromise ==
  ASSUME WebhookInv, [WebhookNext]_vars
  PROVE  [Promise!OutboxNext]_Fates
<1>1. RowStep
  BY EveryStepMovesOn
<1>2. \A d \in Delivery : HookOf(d) \in Hook
  BY IdsDiffer
<1>3. ASSUME NEW D \in SUBSET Delivery,
             \A d \in Delivery \ D : Fate(d)' = Fate(d),
             \/ (\A d \in D : Fate(d) = "none") /\ (\A d \in D : Fate(d)' = "queued")
             \/ (\A d \in D : Fate(d) = "queued") /\ (\A d \in D : Fate(d)' = "settled")
             \/ /\ \A d \in D : Fate(d) \in {"none", "queued", "settled"}
                /\ \A d \in D : Fate(d)' = "dropped"
      PROVE  [Promise!OutboxNext]_Fates
  <2>1. CASE D = {}
    <3>1. \A d \in Delivery : Fate(d)' = Fate(d)
      BY <1>3, <2>1
    <3>2. Fates' = Fates
      BY <3>1 DEF Fates
    <3>3. QED
      BY <3>2
  <2>2. ASSUME D # {}, NEW from, NEW to,
               \A d \in D : Fate(d) \in from /\ Fate(d)' = to
        PROVE  Promise!Become(D, from, to)
    <3>1. \A d \in D : [c \in Delivery |-> Fate(c)][d] = Fate(d)
      OBVIOUS
    <3>2. [c \in Delivery |-> Fate(c)]'
            = [d \in Delivery |-> IF d \in D THEN to ELSE [c \in Delivery |-> Fate(c)][d]]
      BY <1>3, <2>2
    <3>3. QED
      BY <2>2, <3>1, <3>2 DEF Promise!Become
  <2>3. CASE D # {}
    <3>1. \/ Promise!Become(D, {"none"}, "queued")
          \/ Promise!Become(D, {"queued"}, "settled")
          \/ Promise!Become(D, {"none", "queued", "settled"}, "dropped")
      BY <1>3, <2>2, <2>3
    <3>2. QED
      BY <3>1 DEF Promise!OutboxNext, Promise!Queue, Promise!Settle, Promise!Drop
  <2>4. QED
    BY <2>1, <2>3
<1>4. CASE UNCHANGED removed /\ Adds
  <2> DEFINE D == {d \in Delivery : ~StaysPut(d)}
  <2>1. \A d \in Delivery \ D : Fate(d)' = Fate(d)
    BY <1>4 DEF Fate, StaysPut
  <2>2. \A d \in D : Fate(d) = "none" /\ Fate(d)' = "queued"
    BY <1>4 DEF Fate, Adds
  <2>3. QED
    BY <1>3, <2>1, <2>2
<1>5. CASE UNCHANGED removed /\ Settles
  <2> DEFINE D == {d \in Delivery : ~StaysPut(d)}
  <2>1. \A d \in Delivery \ D : Fate(d)' = Fate(d)
    BY <1>5 DEF Fate, StaysPut
  <2>2. \A d \in D : Fate(d) = "queued" /\ Fate(d)' = "settled"
    BY <1>5 DEF Fate, Settles
  <2>3. QED
    BY <1>3, <2>1, <2>2
<1>6. ASSUME NEW h \in Hook, h \notin removed, removed' = removed \cup {h},
             \A d \in Delivery : IF HookOf(d) = h THEN row'[d] = None ELSE StaysPut(d)
      PROVE  [Promise!OutboxNext]_Fates
  <2> DEFINE D == {d \in Delivery : HookOf(d) = h}
  <2>1. \A d \in Delivery \ D : Fate(d)' = Fate(d)
    BY <1>6 DEF Fate, StaysPut
  <2>2. \A d \in D : Fate(d) \in {"none", "queued", "settled"} /\ Fate(d)' = "dropped"
    BY <1>6 DEF Fate
  <2>3. QED
    BY <1>3, <2>1, <2>2
<1>7. QED
  BY <1>1, <1>4, <1>5, <1>6 DEF RowStep

(* The queue takes only the steps its promise allows: an event is queued   *)
(* once, settled once, and otherwise goes with its endpoint.               *)
THEOREM QueueKeepsItsPromise == WebhookSpec => OutboxSafety
<1>1. WebhookInit => Promise!OutboxInit
  BY DEF WebhookInit, Promise!OutboxInit, Fate
<1>2. WebhookInv /\ [WebhookNext]_vars => [Promise!OutboxNext]_Fates
  BY StepKeepsThePromise
<1>3. QED
  BY <1>1, <1>2, WebhookInvHolds, PTL DEF WebhookSpec, OutboxSafety

=============================================================================
