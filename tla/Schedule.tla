------------------------------ MODULE Schedule ------------------------------
(***************************************************************************)
(* The schedule as people read it (massingplan/core/schedule.py): the one  *)
(* place where half-open spans of instants become pairs of dates, the last *)
(* of which is the last day worked.                                        *)
(*                                                                         *)
(* kind[a] is "task", "start_milestone" or "finish_milestone".             *)
(***************************************************************************)
EXTENDS CPM, FiniteSetsExt

CONSTANT IdOrder     \* the activity ids, sorted: reports break ties by id

ASSUME IdAssumption ==
  IdOrder \in Seq(Node) /\ \A a \in Node : \E i \in DOMAIN IdOrder : IdOrder[i] = a

VARIABLE kind

Position(a) == CHOOSE i \in DOMAIN IdOrder : IdOrder[i] = a

Milestone == {"start_milestone", "finish_milestone"}

\* Fault: a finish milestone is shown on its boundary, like any other marker.
PresentAlike(lat, start, finish, k) ==
  IF start = finish THEN <<start, start>> ELSE <<start, finish - 1>>

\* Work shows the days it covers.  A milestone is a single day: its start, but
\* for a finish milestone the working day that its boundary closes.
Present(lat, start, finish, k) ==
  IF start # finish THEN <<start, finish - 1>>
  ELSE LET day == IF k = "finish_milestone" THEN SnapStartBack(lat, start - 1) ELSE start
       IN  <<day, day>>

Shown(a)     == Present(Days(a), es[a], ef[a], kind[a])
ShownLate(a) == Present(Days(a), ls[a], lf[a], kind[a])

\* The project finish is the latest date any activity shows, never a second
\* conversion of the same instant.
ShownFinish(span) == Max({span[a][2] : a \in Node})

ShownProjectFinish == ShownFinish([a \in Node |-> Shown(a)])
=============================================================================
