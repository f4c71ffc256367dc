----------------------------- MODULE Activities -----------------------------
(***************************************************************************)
(* What one activity brings to the scheduler: its progress                 *)
(* (massingplan/core/progress_logic.py) and its date constraint            *)
(* (massingplan/core/constraints.py).                                      *)
(*                                                                         *)
(* An activity is a record                                                 *)
(*   dur        original duration in working days                          *)
(*   cal        its calendar                                               *)
(*   constraint one of ConstraintType, cdate its instant or None           *)
(*   start      actual start or None,  finish  actual finish or None       *)
(*   remaining  explicit remaining days or None                            *)
(*   percent    percent complete in tenths or None                         *)
(***************************************************************************)
EXTENDS TimeAxis

CONSTANT None         \* the absence of a date, a number or an id

ASSUME NoneAssumption == None \notin Int

MaybeInt == Int \cup {None}

Later(a, b)   == IF a >= b THEN a ELSE b
Earlier(a, b) == IF a <= b THEN a ELSE b

-----------------------------------------------------------------------------
\* Progress.

IsComplete(t) == t.finish # None
IsStarted(t)  == t.start # None

\* Python's round(): ties go to the even integer.
RoundHalfEven(n, d) ==
  LET q == n \div d
      twice == 2 * (n % d)
  IN  IF twice > d \/ (twice = d /\ q % 2 = 1) THEN q + 1 ELSE q

\* How much work is left, most trustworthy source first.  Deriving it from
\* percent complete is the last resort, and only for work in progress.
RemainingDays(t) ==
  IF IsComplete(t) THEN 0
  ELSE IF t.remaining # None THEN Later(0, t.remaining)
  ELSE IF ~IsStarted(t) \/ t.percent = None THEN t.dur
  ELSE RoundHalfEven(t.dur * (10 - Earlier(Later(t.percent, 0), 10)), 10)

\* The days both passes schedule: what is left of work that has started.
Duration(t) == IF IsStarted(t) THEN RemainingDays(t) ELSE t.dur

\* Task.__post_init__: an actual finish needs an actual start not after it,
\* and a dated constraint needs its date.
IsTask(t) ==
  /\ t.dur >= 0
  /\ t.constraint \notin {"none", "as_late_as_possible"} => t.cdate # None
  /\ t.finish # None => t.start # None /\ t.start <= t.finish

-----------------------------------------------------------------------------
\* Constraints: the rows of EFFECTS, one set per column.

FloorsEarlyStart  == {"start_on_or_after", "start_on", "mandatory_start"}
FloorsEarlyFinish == {"finish_on_or_after", "finish_on", "mandatory_finish"}
CapsLateStart     == {"start_on_or_before", "start_on", "mandatory_start"}
CapsLateFinish    == {"finish_on_or_before", "finish_on", "mandatory_finish"}
Mandatory         == {"mandatory_start", "mandatory_finish"}

ConstraintType ==
  {"none", "as_late_as_possible"} \cup FloorsEarlyStart \cup FloorsEarlyFinish
    \cup CapsLateStart \cup CapsLateFinish

HasConstraint(t) == t.constraint # "none" /\ t.cdate # None

\* The earliest start the constraint permits, or None.
EarlyFloor(lat, t) ==
  IF ~HasConstraint(t) THEN None
  ELSE IF t.constraint \in FloorsEarlyStart THEN SnapStartForward(lat, t.cdate)
  ELSE IF t.constraint \in FloorsEarlyFinish
       THEN StartFromFinish(lat, SnapFinishForward(lat, t.cdate), Duration(t))
  ELSE None

\* Fault: the cap on a finish is snapped forward.
CapSnappedForward(lat, t) ==
  IF ~HasConstraint(t) THEN None
  ELSE IF t.constraint \in CapsLateFinish THEN SnapFinishForward(lat, t.cdate)
  ELSE IF t.constraint \in CapsLateStart
       THEN FinishFromStart(lat, SnapStartForward(lat, t.cdate), Duration(t))
  ELSE None

\* The latest finish boundary the constraint permits, or None.
LateCap(lat, t) ==
  IF ~HasConstraint(t) THEN None
  ELSE IF t.constraint \in CapsLateFinish THEN SnapFinishBack(lat, t.cdate)
  ELSE IF t.constraint \in CapsLateStart
       THEN FinishFromStart(lat, SnapStartBack(lat, t.cdate), Duration(t))
  ELSE None

\* Whether check() reports the constraint as not honoured by the early dates
\* s and f.  A floor that lands late is satisfied unless something beat it.
IsViolated(lat, t, s, f, overridden) ==
  LET startSide == t.constraint \in FloorsEarlyStart \cup CapsLateStart
      achieved  == IF startSide THEN s ELSE f
      required  == IF startSide THEN SnapStartForward(lat, t.cdate)
                                ELSE SnapFinishForward(lat, t.cdate)
      floors    == t.constraint \in FloorsEarlyStart \cup FloorsEarlyFinish
      caps      == t.constraint \in CapsLateStart \cup CapsLateFinish
  IN  /\ HasConstraint(t)
      /\ t.constraint # "as_late_as_possible"
      /\ achieved # required
      /\ achieved > required => caps \/ overridden # None
      /\ achieved < required => floors
=============================================================================
