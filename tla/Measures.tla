------------------------------ MODULE Measures ------------------------------
(***************************************************************************)
(* How far the work has come, measured against a baseline: the progress    *)
(* report (massingplan/core/progress.py) and Earned Schedule               *)
(* (massingplan/core/earned.py).                                           *)
(*                                                                         *)
(* tasks:    [id -> activity], see Activities                              *)
(* baseline: [id -> <<start, finish>>], days, both included; it may hold   *)
(*           work since dropped and lack work since added                  *)
(* days:     [calendar -> its working instants]; lat: those of one         *)
(*                                                                         *)
(* Earned work is counted in grains of a working day; fractions of a       *)
(* duration the code keeps as floats are exact when Grain is a multiple of *)
(* ten and of every duration.                                              *)
(***************************************************************************)
EXTENDS Activities, FiniteSetsExt

CONSTANT Grain

ASSUME GrainAssumption == Grain \in Nat \ {0}

\* An index is never mistaken for the absence of one.
ASSUME IndexAssumption == None \notin Nat \X Nat

-----------------------------------------------------------------------------
\* Signed working days, positive when late.
Variance(lat, planned, actual) ==
  IF planned = None \/ actual = None THEN None ELSE CountWorkingDays(lat, planned, actual)

\* Where one activity stands: its baseline, its actuals, how far apart they are.
Standing(lat, t, planned, forecast) ==
  [planned |-> planned, start |-> t.start, finish |-> t.finish,
   remaining      |-> IF t.remaining # None THEN t.remaining ELSE t.dur,
   startVariance  |-> Variance(lat, planned[1], t.start),
   finishVariance |-> Variance(lat, planned[2], IF t.finish # None THEN t.finish ELSE forecast)]

NoPlan == <<None, None>>

Standings(days, tasks, baseline, forecast) ==
  [a \in DOMAIN tasks |->
     Standing(days[tasks[a].cal], tasks[a], IF a \in DOMAIN baseline THEN baseline[a] ELSE NoPlan,
              IF a \in DOMAIN forecast THEN forecast[a] ELSE None)]

IsUnstartedButDue(s, dataDate) ==
  s.planned[1] # None /\ s.planned[1] < dataDate /\ s.start = None

\* Finished late, still running past its finish, or due to start and not started.
IsBehind(s, dataDate) ==
  IF s.finish # None /\ s.planned[2] # None THEN s.finish > s.planned[2]
  ELSE \/ s.planned[2] # None /\ s.planned[2] < dataDate
       \/ IsUnstartedButDue(s, dataDate)

\* Completed out of should have been completed; None when nothing was due.
ExecutionIndex(report, dataDate) ==
  LET due  == {a \in DOMAIN report : report[a].planned[2] # None /\ report[a].planned[2] <= dataDate}
      done == {a \in due : report[a].finish # None}
  IN  IF due = {} THEN None ELSE <<Cardinality(done), Cardinality(due)>>

Measured(report) == {a \in DOMAIN report : report[a].finishVariance # None}

\* The total of the variances; the report divides it by their number.
TotalVariance(report) ==
  MapThenSumSet(LAMBDA a : report[a].finishVariance, Measured(report))

\* The greatest slip, the last id of several.
WorstSlippage(report) ==
  CHOOSE a \in Measured(report) \cup {None} :
    /\ a = None => Measured(report) = {}
    /\ \A b \in Measured(report) :
         \/ report[b].finishVariance < report[a].finishVariance
         \/ report[b].finishVariance = report[a].finishVariance /\ b <= a

ProgressReport(days, tasks, baseline, forecast, dataDate) ==
  LET rows == Standings(days, tasks, baseline, forecast)
  IN  [rows   |-> rows,
       behind |-> {a \in DOMAIN rows : IsBehind(rows[a], dataDate)},
       due    |-> {a \in DOMAIN rows : IsUnstartedButDue(rows[a], dataDate)},
       index  |-> ExecutionIndex(rows, dataDate),
       total  |-> TotalVariance(rows),
       worst  |-> WorstSlippage(rows)]

-----------------------------------------------------------------------------
\* How much of its duration an activity has earned, in grains of the whole: the
\* actual finish, then the planner's percentage, then what is left of it.
EarnedShare(t) ==
  IF IsComplete(t) THEN Grain
  ELSE IF t.percent # None THEN (Grain * Later(0, Earlier(10, t.percent))) \div 10
  ELSE IF t.remaining # None /\ t.dur > 0
       THEN (Grain * Later(0, Earlier(t.dur, t.dur - t.remaining))) \div t.dur
  ELSE IF IsStarted(t) /\ t.dur = 0 THEN Grain
  ELSE 0

\* Working days from one date to another, each taken at its next working day.
WorkingDaysTo(lat, a, b) ==
  CountWorkingDays(lat, SnapStartForward(lat, a), SnapStartForward(lat, b))

SpanDays(lat, planned) == WorkingDaysTo(lat, planned[1], planned[2]) + 1

\* Duration-days planned complete after each working day of the baseline, 0
\* before the first: scope is the work the baseline knows.
PlannedCurve(lat, baseline, scope, origin, length) ==
  [n \in 0..length |->
     MapThenSumSet(LAMBDA a :
       Earlier(Later(n - WorkingDaysTo(lat, origin, baseline[a][1]), 0),
               SpanDays(lat, baseline[a])), scope)]

\* Fault: the first day that reaches what was earned, not the last.
FirstDayReached(curve, length, earned) ==
  IF earned <= Grain * curve[0] THEN <<0, 1>>
  ELSE IF earned >= Grain * curve[length] THEN <<length, 1>>
  ELSE LET n == Max({n \in 0..length : Grain * curve[n] < earned})
           step == Grain * (curve[n + 1] - curve[n])
       IN  <<n * step + earned - Grain * curve[n], step>>

\* The offset, as a fraction, where the baseline planned what has been earned;
\* days on which nothing was planned are stepped over.
EarnedTime(curve, length, earned) ==
  IF earned <= Grain * curve[0] THEN <<0, 1>>
  ELSE IF earned >= Grain * curve[length] THEN <<length, 1>>
  ELSE LET n == Max({n \in 0..length : Grain * curve[n] <= earned})
           step == Grain * (curve[n + 1] - curve[n])
       IN  <<n * step + earned - Grain * curve[n], step>>

\* Duration-days planned by a whole working day, for the classic EV / PV.
PlannedValue(curve, length, at) == curve[Later(0, Earlier(at, length))]

Scope(tasks, baseline) == DOMAIN tasks \cap DOMAIN baseline

EarnedSchedule(lat, tasks, baseline, dataDate) ==
  LET scope   == Scope(tasks, baseline)
      origin  == Min({baseline[a][1] : a \in scope})
      length  == WorkingDaysTo(lat, origin, Max({baseline[a][2] : a \in scope})) + 1
      curve   == PlannedCurve(lat, baseline, scope, origin, length)
      earned  == MapThenSumSet(LAMBDA a : EarnedShare(tasks[a]) * SpanDays(lat, baseline[a]), scope)
      elapsed == Later(0, WorkingDaysTo(lat, origin, dataDate))
  IN  [length |-> length, elapsed |-> elapsed, earned |-> earned, curve |-> curve,
       total  |-> MapThenSumSet(LAMBDA a : SpanDays(lat, baseline[a]), scope),
       at     |-> EarnedTime(curve, length, earned),
       value  |-> PlannedValue(curve, length, elapsed)]

\* SPI(t) below one; no time passed is no index.
IsLate(measured) ==
  measured.elapsed > 0 /\ measured.at[1] < measured.elapsed * measured.at[2]
=============================================================================
