------------------------------ MODULE LastPlanner ------------------------------
(***************************************************************************)
(* The production board: services/production.py over core/lastplanner.py,  *)
(* reached by the routes of blueprints/main.py.                            *)
(*                                                                         *)
(* A request loads the rows it needs, decides on what it loaded, and       *)
(* commits; two planners' requests interleave at those two points.  The    *)
(* session writes only the columns whose value differs from the loaded     *)
(* one, so a request that changes a column back to what it had loaded      *)
(* writes nothing.                                                         *)
(*                                                                         *)
(* Days count from the Monday of the first week.  A promise carries at     *)
(* most one constraint: `removed' is the day it was declared removed,      *)
(* Never while it is live, and Free when there is no constraint.           *)
(***************************************************************************)
EXTENDS Integers, FiniteSets, Sequences

CONSTANTS
    Planners,       \* clients with a request in flight at most once each
    Mondays,        \* the weeks a plan may be opened for
    LastDay,        \* bound: the last day the board is used on
    MaxPromises     \* bound: commitments ever stored

ASSUME BoardAssumption ==
    /\ IsFiniteSet(Planners) /\ Mondays \subseteq {7 * k : k \in 0..LastDay}
    /\ LastDay \in Nat /\ MaxPromises \in Nat

Free == -1
Never == 7 * LastDay + 1
NoAnswer == "not assessed"

VARIABLES
    today,      \* the date the server reads
    plans,      \* Mondays with a stored WeeklyPlanRow
    promises,   \* stored CommitmentRows: id -> row
    desk,       \* planner -> the request in flight, or Idle
    reply,      \* what the last request answered
    raced       \* history: promises whose assessment overlapped another's

boardVars == <<today, plans, promises, desk, reply, raced>>

Idle == [op |-> "idle"]
PromiseIds == DOMAIN promises

IsLive(row, on) == row.removed > on

(* A row the engine refuses to build: Commitment.__post_init__. *)
IsReadable(row) ==
    /\ row.completed = "missed" => row.reason
    /\ row.completed = "met" => ~row.reason

OfWeek(rows, monday) == {p \in DOMAIN rows : rows[p].week = monday}

(* What the page lists as blocked, as at today. *)
OpenConstraints == {p \in PromiseIds : IsLive(promises[p], today)}

(* The week's PPC as <<completed, committed>>; <<>> while unmeasurable. *)
Ppc(monday) ==
    LET rows == OfWeek(promises, monday)
    IN  IF rows = {} \/ \E p \in rows : promises[p].completed = NoAnswer
          THEN <<>>
          ELSE <<Cardinality({p \in rows : promises[p].completed = "met"}),
                 Cardinality(rows)>>

(* A row the engine refuses breaks every page of the project's board. *)
Answer(what) ==
    IF \A p \in PromiseIds : IsReadable(promises[p]) THEN what ELSE "broken page"

--------------------------------------------------------------------------------
BoardInit ==
    /\ today = 0
    /\ plans = {}
    /\ promises = <<>>
    /\ desk = [c \in Planners |-> Idle]
    /\ reply = "none"
    /\ raced = {}

(* POST .../production/commit loads the project and its weekly plans. *)
LoadForCommit(c) ==
    /\ desk[c] = Idle
    /\ desk' = [desk EXCEPT ![c] = [op |-> "commit", plans |-> plans, rows |-> promises]]
    /\ UNCHANGED <<today, plans, promises, reply, raced>>

(* What the form says: the week, the constraint and, for recorded history  *)
(* the service imports, allow_constrained.  The form itself never sets it. *)
Forms == [week : Mondays, removed : {Free, Never, 0}, imported : BOOLEAN]

(* open_week: the stored week, or a new one. *)
Opened(f) == plans \cup {f.week}

NewRow(f) == [week |-> f.week, removed |-> f.removed, completed |-> NoAnswer, reason |-> FALSE]

(* Why the engine refuses the form, if it does; for a week whose stored    *)
(* work is not make-ready, whether the page's log names any of that work.  *)
Refusal(f, rows) ==
    LET seen == OfWeek(rows, f.week)
        blockers == {p \in seen : IsLive(rows[p], f.week)}
    IN  CASE \E p \in seen : ~IsReadable(rows[p]) -> "unreadable"
          [] f.imported -> "none"
          [] blockers # {} -> IF blockers \cap OpenConstraints = {}
                                THEN "blocked, log silent" ELSE "blocked, log names it"
          [] IsLive(NewRow(f), f.week) -> "constrained"
          [] OTHER -> "none"

(* The whole week as the request loaded it goes through the engine: a row  *)
(* it cannot build, or one that is not make-ready, refuses the new promise *)
(* and the rollback takes the week it may have opened along.  Opening a    *)
(* week somebody else opened meanwhile breaks the unique (project, week).  *)
FinishCommit(c) ==
    LET loaded == desk[c] IN
    /\ loaded.op = "commit"
    /\ Cardinality(PromiseIds) < MaxPromises
    /\ desk' = [desk EXCEPT ![c] = Idle]
    /\ UNCHANGED <<today, raced>>
    /\ \E f \in Forms :
         LET why == Refusal(f, loaded.rows)
             rival == f.week \in plans \ loaded.plans
         IN  IF rival \/ why # "none"
               THEN /\ reply' = IF rival THEN "failed" ELSE Answer(why)
                    /\ UNCHANGED <<plans, promises>>
               ELSE /\ plans' = Opened(f)
                    /\ promises' = [p \in 1..(Cardinality(PromiseIds) + 1) |->
                                      IF p \in PromiseIds THEN promises[p] ELSE NewRow(f)]
                    /\ reply' = "stored"

(* The assess and clear routes find the row among the project's plans. *)
LoadForEdit(c) ==
    /\ desk[c] = Idle
    /\ \E p \in PromiseIds, op \in {"assess", "clear"} :
         /\ op = "clear" => promises[p].removed # Free
         /\ desk' = [desk EXCEPT ![c] = [op |-> op, of |-> p, row |-> promises[p]]]
         /\ raced' = IF op = "assess" /\ \E d \in Planners \ {c} :
                           desk[d].op = "assess" /\ desk[d].of = p
                       THEN raced \cup {p} ELSE raced
    /\ UNCHANGED <<today, plans, promises, reply>>

(* The columns an edit changed, over the row as it is stored now. *)
Flush(loaded, edited, stored) ==
    [f \in DOMAIN stored |-> IF edited[f] = loaded[f] THEN stored[f] ELSE edited[f]]

(* Fault: a reason given before stays when the promise turns out to be met. *)
AssessedOnTop(row, met) ==
    [row EXCEPT !.completed = IF met THEN "met" ELSE "missed", !.reason = @ \/ ~met]

(* assess_commitment: met clears the reason, missed always has one (a      *)
(* reason nobody gave is stored as not_recorded).                          *)
Assessed(row, met) ==
    [row EXCEPT !.completed = IF met THEN "met" ELSE "missed", !.reason = ~met]

FinishAssess(c) ==
    LET request == desk[c] IN
    /\ request.op = "assess"
    /\ \E met \in BOOLEAN :
         promises' = [promises EXCEPT ![request.of] =
                        Flush(request.row, Assessed(request.row, met), @)]
    /\ desk' = [desk EXCEPT ![c] = Idle]
    /\ reply' = "assessed"
    /\ UNCHANGED <<today, plans, raced>>

(* clear_constraint: on a stated day, past or future. *)
Cleared(row, day) == [row EXCEPT !.removed = day]

FinishClear(c) ==
    LET request == desk[c] IN
    /\ request.op = "clear"
    /\ \E day \in 0..LastDay :
         promises' = [promises EXCEPT ![request.of] =
                        Flush(request.row, Cleared(request.row, day), @)]
    /\ desk' = [desk EXCEPT ![c] = Idle]
    /\ reply' = "cleared"
    /\ UNCHANGED <<today, plans, raced>>

NextDay ==
    /\ today < LastDay
    /\ today' = today + 1
    /\ UNCHANGED <<plans, promises, desk, reply, raced>>

BoardNext ==
    \/ NextDay
    \/ \E c \in Planners :
         \/ LoadForCommit(c) \/ FinishCommit(c)
         \/ LoadForEdit(c) \/ FinishAssess(c) \/ FinishClear(c)

BoardSpec == BoardInit /\ [][BoardNext]_boardVars
================================================================================
