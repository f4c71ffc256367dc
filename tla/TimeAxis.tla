------------------------------ MODULE TimeAxis ------------------------------
(***************************************************************************)
(* Working-day arithmetic on the absolute time axis                        *)
(* (massingplan/core/timeaxis.py).                                         *)
(*                                                                         *)
(* An instant is a day ordinal, read as the boundary at 00:00 of that day. *)
(* Spans are half open, so a finish lives one past the last day worked.    *)
(* The lattice of a calendar -- the sorted list of its working instants    *)
(* that the code bisects -- is here the finite set `lat` of those          *)
(* instants: BisectLeft recovers the list position.                        *)
(*                                                                         *)
(* Where the code raises TimeAxisWindowError (the lattice has no such day) *)
(* the operators return their argument; the modules that use the           *)
(* arithmetic check that the dates they compute are on the lattice.        *)
(***************************************************************************)
EXTENDS Integers, FiniteSets

\* A work pattern: the weekdays worked, the days removed, the days added back.
\* An extra work day wins over a holiday on the same date.
Covers(pattern, weekLength, i) ==
  \/ i \in pattern.extra
  \/ i \notin pattern.holidays /\ (i % weekLength) \in pattern.weekdays

\* The working instants of a pattern in the window lo..hi.
LatticeOf(pattern, weekLength, lo, hi) ==
  {i \in lo..hi : Covers(pattern, weekLength, i)}

-----------------------------------------------------------------------------
IsLeast(S, x)    == x \in S /\ \A y \in S : x <= y
IsGreatest(S, x) == x \in S /\ \A y \in S : y <= x

AtOrAfter(lat, i)  == {w \in lat : w >= i}
AtOrBefore(lat, i) == {w \in lat : w <= i}
DaysBefore(lat, i) == {w \in lat : w < i}

\* The list position of the first working instant at or after i.
BisectLeft(lat, i) == Cardinality(DaysBefore(lat, i))

\* Fault: a start that is left where it fell.
Unsnapped(lat, i) == i

\* The least working instant >= i.
SnapStartForward(lat, i) ==
  LET later == AtOrAfter(lat, i)
  IN  IF \E w \in later : IsLeast(later, w)
      THEN CHOOSE w \in later : IsLeast(later, w)
      ELSE i

\* The greatest working instant <= i.
SnapStartBack(lat, i) ==
  LET earlier == AtOrBefore(lat, i)
  IN  IF \E w \in earlier : IsGreatest(earlier, w)
      THEN CHOOSE w \in earlier : IsGreatest(earlier, w)
      ELSE i

\* Finish boundaries snap against the day before them.
SnapFinishForward(lat, i) == SnapStartForward(lat, i - 1) + 1
SnapFinishBack(lat, i)    == SnapStartBack(lat, i - 1) + 1

\* The working instant n list positions away from the working instant i.
IsDaysFrom(lat, i, n, w) == BisectLeft(lat, w) = BisectLeft(lat, i) + n

AddWorkingDays(lat, i, n) ==
  IF \E w \in lat : IsDaysFrom(lat, i, n, w)
  THEN CHOOSE w \in lat : IsDaysFrom(lat, i, n, w)
  ELSE i

SubWorkingDays(lat, i, n) == AddWorkingDays(lat, i, -n)

\* Working days in [a, b), signed: negative when b < a.
CountWorkingDays(lat, a, b) == BisectLeft(lat, b) - BisectLeft(lat, a)

\* A zero-duration activity finishes where it starts.
FinishFromStart(lat, start, duration) ==
  IF duration = 0 THEN start
  ELSE AddWorkingDays(lat, SnapStartForward(lat, start), duration - 1) + 1

StartFromFinish(lat, finish, duration) ==
  IF duration = 0 THEN finish
  ELSE SubWorkingDays(lat, SnapStartBack(lat, finish - 1), duration - 1)
=============================================================================
