------------------------------ MODULE Weather ------------------------------
(***************************************************************************)
(* Lost days a programme allows for the weather, put into its calendars    *)
(* (massingplan/core/weather.py).                                          *)
(*                                                                         *)
(* A calendar is a work pattern of TimeAxis with the days already taken by *)
(* an allowance kept apart in its field weather: the exceptions that carry *)
(* the allowance's name.  A year is YearLength months of MonthLength days. *)
(*                                                                         *)
(* An allowance is [cal, lost], lost: [months of the year -> days].        *)
(***************************************************************************)
EXTENDS TimeAxis, Sequences, FiniteSetsExt

CONSTANTS MonthLength, YearLength, DaysOfWeek

ASSUME MonthAssumption == {MonthLength, YearLength, DaysOfWeek} \subseteq Nat \ {0}

MonthOf(day) == day \div MonthLength

\* The pattern the engine is given: holidays are the exceptions not worked.
WorkCalendarOf(c) ==
  [weekdays |-> c.weekdays, holidays |-> c.holidays \cup c.weather, extra |-> c.extra]

\* Fault: days already taken can be taken again.
WorkingWeekdays(c, days) ==
  {d \in days : (d % DaysOfWeek) \in c.weekdays \/ d \in c.extra}

\* The days of a set the calendar works: not those already lost.
WorkingDays(c, days) ==
  {d \in days : /\ (d % DaysOfWeek) \in c.weekdays \/ d \in c.extra
                /\ d \notin c.holidays \cup c.weather}

\* The midpoints of count equal stretches of the days, in exact arithmetic; the
\* code's floats round one place down for three counts in months of 26 and 30.
Spread(days, count) ==
  LET n == Cardinality(days)
      places == {(n * (2 * i + 1)) \div (2 * count) : i \in 0..count - 1}
  IN  IF count >= n THEN days ELSE {d \in days : BisectLeft(days, d) \in places}

\* What an allowance takes from a calendar, month by month of the window.
LostDays(c, allowance, start, finish) ==
  UNION {LET month == {d \in start..finish : MonthOf(d) = m}
             count == allowance.lost[m % YearLength]
         IN  IF count = 0 THEN {} ELSE Spread(WorkingDays(c, month), count) :
           m \in MonthOf(start)..MonthOf(finish)}

ApplyAllowance(c, allowance, start, finish) ==
  [c EXCEPT !.weather = @ \cup LostDays(c, allowance, start, finish)]

WithoutAllowance(c) == [c EXCEPT !.weather = {}]

CanApply(calendars, allowances, start, finish) ==
  /\ allowances # <<>> /\ start <= finish
  /\ \A k \in DOMAIN allowances : allowances[k].cal \in DOMAIN calendars
  /\ \A k \in DOMAIN allowances : \A m \in 0..YearLength - 1 : allowances[k].lost[m] >= 0

\* Each allowance is applied to the calendar as it came: of two for one
\* calendar the last is in the result, though both are reported.
ApplyToAll(calendars, allowances, start, finish) ==
  [calendars |->
     [c \in DOMAIN calendars |->
        LET named == {k \in DOMAIN allowances : allowances[k].cal = c}
        IN  IF named = {} THEN calendars[c]
            ELSE ApplyAllowance(calendars[c], allowances[Max(named)], start, finish)],
   applied |->
     [k \in DOMAIN allowances |->
        LostDays(calendars[allowances[k].cal], allowances[k], start, finish)]]

\* Work done in turn, each of [cal, dur], from the data date: when each is
\* finished, the engine's dates for a chain of finish-to-start links.
FinishesOfWork(patterns, work, dataDate, horizon) ==
  LET finish[n \in 0..Len(work)] ==
        IF n = 0 THEN dataDate
        ELSE LET lat == LatticeOf(patterns[work[n].cal], DaysOfWeek, dataDate, horizon)
             IN  FinishFromStart(lat, SnapStartForward(lat, finish[n - 1]), work[n].dur)
  IN  finish

\* The window of the lattices has the days the work takes; where it has not, the
\* engine raises TimeAxisWindowError (timeaxis.py:234-317).
WindowHolds(patterns, work, dataDate, horizon) ==
  \A n \in DOMAIN work :
    LET lat   == LatticeOf(patterns[work[n].cal], DaysOfWeek, dataDate, horizon)
        ahead == AtOrAfter(lat, FinishesOfWork(patterns, work, dataDate, horizon)[n - 1])
    IN  ahead # {} /\ work[n].dur <= Cardinality(ahead)

Patterns(calendars) == [c \in DOMAIN calendars |-> WorkCalendarOf(calendars[c])]

FinishUnder(calendars, work, dataDate, horizon) ==
  FinishesOfWork(Patterns(calendars), work, dataDate, horizon)[Len(work)]

\* The same work can be scheduled without the allowance and with it.
CanCost(calendars, allowances, start, finish, work, dataDate, horizon) ==
  /\ CanApply(calendars, allowances, start, finish)
  /\ WindowHolds(Patterns(calendars), work, dataDate, horizon)
  /\ WindowHolds(Patterns(ApplyToAll(calendars, allowances, start, finish).calendars),
                 work, dataDate, horizon)

\* The same work with the allowance and without it.
WeatherCost(calendars, allowances, start, finish, work, dataDate, horizon) ==
  LET wet == ApplyToAll(calendars, allowances, start, finish)
  IN  [applied   |-> wet.applied,
       calendars |-> wet.calendars,
       dry       |-> FinishUnder(calendars, work, dataDate, horizon),
       wet       |-> FinishUnder(wet.calendars, work, dataDate, horizon)]
=============================================================================
