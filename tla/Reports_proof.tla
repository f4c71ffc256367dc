---------------------------- MODULE Reports_proof ----------------------------
(***************************************************************************)
(* Proofs about the studies told from their request alone: progress and    *)
(* earned schedule, weather, lines of balance, trains and take-offs, for   *)
(* every request.                                                          *)
(***************************************************************************)
EXTENDS Studies_proof

-----------------------------------------------------------------------------
\* What the other studies answer.

\* A report answers what was asked of it.
ReportsToldInv ==
  /\ request = NothingAsked \/ \E study \in DOMAIN Asked : request \in Asked[study]
  /\ Answered("progress") =>
       answer.result = ProgressReport(request.days, request.tasks, request.baseline,
                                      request.forecast, request.dataDate)
  /\ Answered("earned") =>
       /\ Scope(request.tasks, request.baseline) # {}
       /\ answer.result = EarnedSchedule(request.days[request.calendar], request.tasks,
                                         request.baseline, request.dataDate)
  /\ Answered("weather") =>
       /\ CanCost(request.calendars, request.allowances, request.start, request.finish,
                  request.work, request.dataDate, request.horizon)
       /\ answer.result = WeatherCost(request.calendars, request.allowances, request.start,
                                      request.finish, request.work, request.dataDate, request.horizon)
  /\ answer.status = "compressing" => request.study = "compression"

\* The studies that are told from their request and nothing else.
Told == {"progress", "earned", "weather"}

\* Whatever is done for another study, and a refusal, leaves it so.
LEMMA NotTold ==
  ASSUME ReportsToldInv, request' = request,
         request.study \notin Told \/ answer'.status # "answered",
         answer'.status # "compressing" \/ request.study = "compression"
  PROVE  ReportsToldInv'
BY DEF ReportsToldInv, Answered, Told

\* What is told follows from what was asked.
LEMMA ReportsAreTold ==
  StudiesSpec => []ReportsToldInv
<1>0. /\ \A x : Found(x).status = "answered" /\ Found(x).result = x
      /\ Pending.status = "pending" /\ Declined.status = "refused"
      /\ NotThere.status = "nothing to show"
  BY DEF Found, Pending, Declined, NotThere
<1>1. StudiesInit => ReportsToldInv
  <2>1. SUFFICES ASSUME StudiesInit PROVE ReportsToldInv
    OBVIOUS
  <2>2. request = NothingAsked /\ answer.status = "nothing to show"
    BY <1>0, <2>1 DEF StudiesInit
  <2> QED BY <2>2 DEF ReportsToldInv, Answered
<1>2. ASSUME ReportsToldInv, [StudiesNext]_studyVars PROVE ReportsToldInv'
  <2>1. CASE UNCHANGED studyVars
    BY <1>2, <2>1 DEF ReportsToldInv, studyVars, Answered
  <2>2. CASE Asks
    <3>1. /\ \E study \in DOMAIN Asked : request' \in Asked[study]
          /\ answer'.status = "pending"
      BY <1>0, <2>2 DEF Asks
    <3> QED BY <3>1 DEF ReportsToldInv, Answered
  <2>3. CASE \/ CompareBaselines \/ CompareToBaseline \/ AnalyseWindows \/ ModelDelay
             \/ SchedulePortfolio \/ ScheduleLinear \/ LinearSchedule \/ ScheduleTakt
             \/ TaktPlan \/ ParseQuantities
    <3>1. /\ request' = request /\ request.study \notin Told
          /\ answer' \in {Declined, NotThere} \/ \E x : answer' = Found(x)
      <4>1. CASE CompareBaselines
        BY <4>1 DEF CompareBaselines, IsOpen, Reply, Told
      <4>2. CASE CompareToBaseline
        BY <4>2 DEF CompareToBaseline, IsOpen, Reply, Told
      <4>3. CASE AnalyseWindows
        BY <4>3 DEF AnalyseWindows, IsOpen, Reply, Told
      <4>4. CASE ModelDelay
        BY <4>4 DEF ModelDelay, IsOpen, Reply, Told
      <4>5. CASE SchedulePortfolio
        BY <4>5 DEF SchedulePortfolio, IsOpen, Reply, Told
      <4>6. CASE ScheduleLinear
        BY <4>6 DEF ScheduleLinear, IsOpen, Reply, Told
      <4>7. CASE LinearSchedule
        BY <4>7 DEF LinearSchedule, IsOpen, Reply, Told
      <4>8. CASE ScheduleTakt
        BY <4>8 DEF ScheduleTakt, IsOpen, Reply, Told
      <4>9. CASE TaktPlan
        BY <4>9 DEF TaktPlan, IsOpen, Reply, Told
      <4>10. CASE ParseQuantities
        BY <4>10 DEF ParseQuantities, IsOpen, Reply, Told
      <4> QED BY <2>3, <4>1, <4>2, <4>3, <4>4, <4>5, <4>6, <4>7, <4>8, <4>9, <4>10
    <3>2. answer'.status # "compressing"
      BY <1>0, <3>1
    <3> QED BY <1>2, <3>1, <3>2, NotTold
  <2>4. CASE StartCompressing
    <3>1. request' = request /\ request.study = "compression"
      BY <2>4 DEF StartCompressing, IsOpen, Reply
    <3> QED BY <1>2, <3>1, NotTold DEF Told
  <2>5. CASE BuyADay \/ StopCompressing
    <3>1. answer.status = "compressing" /\ request' = request
      BY <2>5 DEF BuyADay, StopCompressing, IsCompressing, Reply
    <3>2. request.study = "compression"
      BY <1>2, <3>1 DEF ReportsToldInv
    <3> QED BY <1>2, <3>1, <3>2, NotTold DEF Told
  <2>6. CASE ApplyWeather
    <3>1. /\ request' = request /\ request.study = "weather"
          /\ \/ answer' = Declined
             \/ /\ CanCost(request.calendars, request.allowances, request.start, request.finish,
                           request.work, request.dataDate, request.horizon)
                /\ answer' = Found(WeatherCost(request.calendars, request.allowances, request.start,
                                     request.finish, request.work, request.dataDate, request.horizon))
      BY <2>6 DEF ApplyWeather, IsOpen, Reply
    <3>2. CASE answer' = Declined
      BY <1>0, <1>2, <3>1, <3>2, NotTold
    <3>3. CASE answer' # Declined
      <4>1. /\ answer'.status = "answered"
            /\ CanCost(request.calendars, request.allowances, request.start, request.finish,
                       request.work, request.dataDate, request.horizon)
            /\ answer'.result = WeatherCost(request.calendars, request.allowances, request.start,
                                  request.finish, request.work, request.dataDate, request.horizon)
        BY <1>0, <3>1, <3>3
      <4> QED BY <1>2, <3>1, <4>1 DEF ReportsToldInv, Answered
    <3> QED BY <3>2, <3>3
  <2>7. CASE MeasureProgress
    <3>1. /\ request' = request /\ request.study = "progress"
          /\ answer' = Found(ProgressReport(request.days, request.tasks, request.baseline,
                                            request.forecast, request.dataDate))
      BY <2>7 DEF MeasureProgress, IsOpen, Reply
    <3>2. /\ answer'.status = "answered"
          /\ answer'.result = ProgressReport(request.days, request.tasks, request.baseline,
                                             request.forecast, request.dataDate)
      BY <1>0, <3>1
    <3> QED BY <1>2, <3>1, <3>2 DEF ReportsToldInv, Answered
  <2>8. CASE MeasureEarnedSchedule
    <3>1. /\ request' = request /\ request.study = "earned"
          /\ \/ answer' = Declined
             \/ /\ Scope(request.tasks, request.baseline) # {}
                /\ answer' = Found(EarnedSchedule(request.days[request.calendar], request.tasks,
                                                  request.baseline, request.dataDate))
      BY <2>8 DEF MeasureEarnedSchedule, IsOpen, Reply
    <3>2. CASE answer' = Declined
      BY <1>0, <1>2, <3>1, <3>2, NotTold
    <3>3. CASE answer' # Declined
      <4>1. /\ answer'.status = "answered"
            /\ Scope(request.tasks, request.baseline) # {}
            /\ answer'.result = EarnedSchedule(request.days[request.calendar], request.tasks,
                                               request.baseline, request.dataDate)
        BY <1>0, <3>1, <3>3
      <4> QED BY <1>2, <3>1, <4>1 DEF ReportsToldInv, Answered
    <3> QED BY <3>2, <3>3
  <2> QED BY <1>2, <2>1, <2>2, <2>3, <2>4, <2>5, <2>6, <2>7, <2>8 DEF StudiesNext
<1> QED BY <1>1, <1>2, PTL DEF StudiesSpec

-----------------------------------------------------------------------------
\* The progress report.

\* A row is typed, and says of the activity what it said of itself.
IsRow(s, t) ==
  /\ s.planned[1] \in MaybeInt /\ s.planned[2] \in MaybeInt
  /\ s.start = t.start /\ s.finish = t.finish
  /\ s.start \in MaybeInt /\ s.finish \in MaybeInt /\ s.finishVariance \in MaybeInt
  /\ s.finish # None => s.start # None

\* Where one activity stands; finished work that has slipped finished late.
LEMMA StandingIs ==
  ASSUME NEW lat, IsLattice(lat), NEW t, IsTask(t), t.start \in MaybeInt, t.finish \in MaybeInt,
         NEW planned, planned[1] \in MaybeInt, planned[2] \in MaybeInt,
         NEW forecast \in MaybeInt
  PROVE  LET s == Standing(lat, t, planned, forecast)
         IN  /\ IsRow(s, t)
             /\ s.finish # None /\ s.finishVariance # None /\ s.finishVariance > 0 =>
                  s.planned[2] # None /\ s.finish > s.planned[2]
<1> DEFINE s == Standing(lat, t, planned, forecast)
           shown == IF t.finish # None THEN t.finish ELSE forecast
<1>0. None \notin Int
  BY NoneAssumption
<1>1. /\ s.planned = planned /\ s.start = t.start /\ s.finish = t.finish
      /\ s.finishVariance = Variance(lat, planned[2], shown)
  BY DEF Standing
<1>2. shown \in MaybeInt
  OBVIOUS
<1>3. t.finish # None => t.start # None
  BY DEF IsTask
<1> HIDE DEF s, shown
<1>4. s.finishVariance \in MaybeInt
  BY <1>1, CountIsInteger DEF Variance, MaybeInt
<1>5. IsRow(s, t)
  BY <1>1, <1>3, <1>4 DEF IsRow
<1>6. ASSUME s.finish # None, s.finishVariance # None, s.finishVariance > 0
      PROVE  s.planned[2] # None /\ s.finish > s.planned[2]
  <2>1. shown = t.finish /\ t.finish # None
    BY <1>1, <1>6 DEF shown
  <2>2. planned[2] # None /\ s.finishVariance = CountWorkingDays(lat, planned[2], t.finish)
    BY <1>1, <1>6, <2>1 DEF Variance
  <2>3. planned[2] \in Int /\ t.finish \in Int
    BY <2>1, <2>2 DEF MaybeInt
  <2>4. BisectLeft(lat, planned[2]) \in Nat /\ BisectLeft(lat, t.finish) \in Nat
    BY PositionsCount
  <2>5. BisectLeft(lat, t.finish) > BisectLeft(lat, planned[2])
    BY <1>6, <2>2, <2>4 DEF CountWorkingDays
  <2>6. t.finish <= planned[2] => BisectLeft(lat, t.finish) <= BisectLeft(lat, planned[2])
    BY <2>3, PositionsGrow
  <2> QED BY <1>1, <2>2, <2>3, <2>4, <2>5, <2>6
<1> QED BY <1>5, <1>6 DEF s

\* The same of every row of a report.
LEMMA RowsAre ==
  ASSUME NEW r, IsReport(r), NEW rows, rows = Standings(r.days, r.tasks, r.baseline, r.forecast)
  PROVE  /\ DOMAIN rows = DOMAIN r.tasks /\ IsFiniteSet(DOMAIN rows) /\ DOMAIN rows \subseteq Nat
         /\ \A a \in DOMAIN rows :
              /\ IsRow(rows[a], r.tasks[a])
              /\ rows[a].finish # None /\ rows[a].finishVariance # None /\ rows[a].finishVariance > 0 =>
                   rows[a].planned[2] # None /\ rows[a].finish > rows[a].planned[2]
<1>1. DOMAIN rows = DOMAIN r.tasks
  BY DEF Standings
<1>2. ASSUME NEW a \in DOMAIN rows
      PROVE  /\ IsRow(rows[a], r.tasks[a])
             /\ rows[a].finish # None /\ rows[a].finishVariance # None /\ rows[a].finishVariance > 0 =>
                  rows[a].planned[2] # None /\ rows[a].finish > rows[a].planned[2]
  <2>1. PICK planned : planned = IF a \in DOMAIN r.baseline THEN r.baseline[a] ELSE NoPlan
    OBVIOUS
  <2>2. PICK forecast : forecast = IF a \in DOMAIN r.forecast THEN r.forecast[a] ELSE None
    OBVIOUS
  <2>3. PICK t : t = r.tasks[a]
    OBVIOUS
  <2>4. PICK lat : lat = r.days[t.cal]
    OBVIOUS
  <2>5. rows[a] = Standing(lat, t, planned, forecast)
    BY <1>1, <2>1, <2>2, <2>3, <2>4 DEF Standings
  <2>6. /\ IsTask(t) /\ t.cal \in DOMAIN r.days
        /\ t.start \in MaybeInt /\ t.finish \in MaybeInt
    BY <1>1, <2>3 DEF IsReport
  <2>7. IsLattice(lat)
    BY <2>4, <2>6 DEF IsReport, IsLattice
  <2>8. planned[1] \in MaybeInt /\ planned[2] \in MaybeInt
    <3>1. CASE a \in DOMAIN r.baseline
      <4>1. planned \in Int \X Int
        BY <2>1, <3>1 DEF IsReport
      <4> QED BY <4>1 DEF MaybeInt
    <3>2. CASE a \notin DOMAIN r.baseline
      BY <2>1, <3>2 DEF NoPlan, MaybeInt
    <3> QED BY <3>1, <3>2
  <2>9. forecast \in MaybeInt
    BY <2>2 DEF IsReport, MaybeInt
  <2>10. LET s == Standing(lat, t, planned, forecast)
         IN  /\ IsRow(s, t)
             /\ s.finish # None /\ s.finishVariance # None /\ s.finishVariance > 0 =>
                  s.planned[2] # None /\ s.finish > s.planned[2]
    BY <2>6, <2>7, <2>8, <2>9, StandingIs
  <2> QED BY <2>3, <2>5, <2>10
<1>3. IsFiniteSet(DOMAIN r.tasks) /\ DOMAIN r.tasks \subseteq Nat
  BY DEF IsReport
<1> QED BY <1>1, <1>2, <1>3

\* A sum is at most its greatest value for each.
LEMMA SumAtMost ==
  ASSUME NEW w, NEW S, IsFiniteSet(S), \A x \in S : w[x] \in Int, NEW m \in Int,
         \A x \in S : w[x] <= m
  PROVE  SumOver(w, S) \in Int /\ Cardinality(S) \in Nat /\ SumOver(w, S) <= m * Cardinality(S)
<1> DEFINE B == {T \in SUBSET S : ~(SumOver(w, T) <= m * Cardinality(T))}
<1>1. ASSUME B # {} PROVE FALSE
  <2>1. PICK T \in B : IsMinimal(T, B)
    <3>1. B \subseteq SUBSET S
      OBVIOUS
    <3> QED BY <1>1, <3>1, SmallestSubset
  <2>2. T \in SUBSET S /\ IsFiniteSet(T)
    BY FS_Subset
  <2>3. CASE T = {}
    <3>1. SumOver(w, T) = 0 /\ Cardinality(T) = 0
      BY <2>3, SumOfNone, FS_EmptySet
    <3> QED BY <2>1, <3>1
  <2>4. CASE T # {}
    <3>1. PICK x \in T : TRUE
      BY <2>4
    <3>2. PICK U : U = T \ {x}
      OBVIOUS
    <3>3. SumOver(w, T) = SumOver(w, U) + w[x] /\ SumOver(w, U) \in Int
      <4>1. IsFiniteSet(U) /\ \A y \in U : w[y] \in Int
        BY <2>2, <3>2, FS_Subset
      <4>2. \A y \in T : w[y] \in Int
        BY <2>2
      <4>3. SumOver(w, U) \in Int
        BY <4>1, SumIsWhole
      <4>4. SumOver(w, T) = SumOver(w, T \ {x}) + w[x]
        BY <2>2, <3>1, <4>2, SumTakesAny
      <4> QED BY <3>2, <4>3, <4>4
    <3>4. Cardinality(U) = Cardinality(T) - 1 /\ Cardinality(T) \in Nat /\ Cardinality(U) \in Nat
      <4>1. IsFiniteSet(U)
        BY <2>2, <3>2, FS_Subset
      <4> QED BY <2>2, <3>1, <3>2, <4>1, FS_RemoveElement, FS_CardinalityType
    <3>5. SumOver(w, U) <= m * Cardinality(U)
      <4>1. U \in SUBSET S /\ U # T /\ U \subseteq T
        BY <2>2, <3>1, <3>2
      <4>2. U \notin B
        BY <2>1, <4>1 DEF IsMinimal
      <4> QED BY <4>1, <4>2
    <3>6. w[x] \in Int /\ w[x] <= m
      BY <2>2
    <3>7. \A c \in Nat, d \in Nat : c = d - 1 => m * c + m = m * d
      OBVIOUS
    <3>8. m * Cardinality(U) \in Int /\ m * Cardinality(T) \in Int
          /\ m * Cardinality(U) + m = m * Cardinality(T)
      BY <3>4, <3>7
    <3> QED BY <2>1, <3>3, <3>5, <3>6, <3>8
  <2> QED BY <2>3, <2>4
<1>2. SumOver(w, S) \in Int /\ Cardinality(S) \in Nat
  BY SumIsWhole, FS_CardinalityType
<1> QED BY <1>1, <1>2

\* The mean of the slips is no more than the worst of them.
LEMMA WorstIsWorst ==
  ASSUME NEW rows, IsFiniteSet(DOMAIN rows), DOMAIN rows \subseteq Nat,
         \A a \in DOMAIN rows : rows[a].finishVariance \in MaybeInt,
         WorstSlippage(rows) # None
  PROVE  TotalVariance(rows) <= rows[WorstSlippage(rows)].finishVariance * Cardinality(Measured(rows))
<1> DEFINE M == Measured(rows)
           slip == [a \in M |-> rows[a].finishVariance]
           w == WorstSlippage(rows)
<1>0. None \notin Int
  BY NoneAssumption
<1>1. /\ M \subseteq DOMAIN rows /\ IsFiniteSet(M)
      /\ \A a \in M : rows[a].finishVariance \in Int
  <2>1. M \subseteq DOMAIN rows /\ \A a \in M : rows[a].finishVariance \in Int
    BY DEF Measured, MaybeInt
  <2> HIDE DEF M
  <2> QED BY <2>1, FS_Subset
<1>2. TotalVariance(rows) = SumOver(slip, M)
  BY DEF TotalVariance, MapThenSumSet, MapThenFoldSet, SumOver, IsTally, Chosen
<1>3. /\ \A a \in M : slip[a] = rows[a].finishVariance
      /\ DOMAIN slip = M
  OBVIOUS
<1>4. M # {} => \E a \in M : \A b \in M :
                  \/ rows[b].finishVariance < rows[a].finishVariance
                  \/ rows[b].finishVariance = rows[a].finishVariance /\ b <= a
  <2> HIDE DEF M
  <2>1. ASSUME M # {}
        PROVE  \E a \in M : \A b \in M :
                  \/ rows[b].finishVariance < rows[a].finishVariance
                  \/ rows[b].finishVariance = rows[a].finishVariance /\ b <= a
    <3> HIDE DEF slip
    <3> DEFINE V == {slip[a] : a \in M}
    <3>1. IsFiniteSet(V)
      BY <1>1, <1>3, FinitelyMany
    <3>2. V \in SUBSET Int /\ V # {}
      BY <1>1, <1>3, <2>1
    <3>3. PICK v \in V : \A u \in V : u <= v
      <4> HIDE DEF V
      <4> QED BY <3>1, <3>2, HasGreatest
    <3> DEFINE T == {a \in M : slip[a] = v}
    <3>4. T \in SUBSET Int /\ IsFiniteSet(T) /\ T # {}
      <4>1. T \subseteq M /\ T # {}
        BY <3>3
      <4> HIDE DEF T
      <4> QED BY <1>1, <4>1, FS_Subset
    <3>5. PICK a \in T : \A b \in T : b <= a
      <4> HIDE DEF T
      <4> QED BY <3>4, HasGreatest
    <3>6. a \in M /\ rows[a].finishVariance = v
      BY <1>3
    <3>7. ASSUME NEW b \in M
          PROVE  \/ rows[b].finishVariance < rows[a].finishVariance
                 \/ rows[b].finishVariance = rows[a].finishVariance /\ b <= a
      <4>1. slip[b] <= v /\ slip[b] = rows[b].finishVariance /\ slip[b] \in Int /\ v \in Int
        BY <1>1, <1>3, <3>3, <3>2
      <4>2. slip[b] = v => b <= a
        BY <3>5
      <4> QED BY <3>6, <4>1, <4>2
    <3> QED BY <3>6, <3>7
  <2> QED BY <2>1
<1>5. /\ w \in M
      /\ \A b \in M : \/ rows[b].finishVariance < rows[w].finishVariance
                      \/ rows[b].finishVariance = rows[w].finishVariance /\ b <= w
  <2>1. None \notin M
    BY <1>0, <1>1
  <2>2. \E a \in M \cup {None} :
          /\ a = None => M = {}
          /\ \A b \in M : \/ rows[b].finishVariance < rows[a].finishVariance
                          \/ rows[b].finishVariance = rows[a].finishVariance /\ b <= a
    <3>1. CASE M = {}
      <4>1. None \in M \cup {None}
        OBVIOUS
      <4> HIDE DEF M
      <4> QED BY <3>1, <4>1
    <3>2. CASE M # {}
      <4> HIDE DEF M
      <4> QED BY <1>4, <2>1, <3>2
    <3> QED BY <3>1, <3>2
  <2>3. /\ w \in M \cup {None}
        /\ w = None => M = {}
        /\ \A b \in M : \/ rows[b].finishVariance < rows[w].finishVariance
                        \/ rows[b].finishVariance = rows[w].finishVariance /\ b <= w
    BY <2>2, Zenon DEF w, M, WorstSlippage
  <2> HIDE DEF w, M
  <2>4. w # None
    BY DEF w
  <2> QED BY <2>3, <2>4
<1> HIDE DEF w, M, slip
<1>6. PICK m : m = rows[w].finishVariance
  OBVIOUS
<1>7. m \in Int /\ \A a \in M : slip[a] \in Int /\ slip[a] <= m
  BY <1>1, <1>3, <1>5, <1>6
<1>8. SumOver(slip, M) <= m * Cardinality(M)
  BY <1>1, <1>7, SumAtMost
<1> QED BY <1>2, <1>6, <1>8 DEF w, M

\* Nothing behind: what was due is done, or is due to be finished today.
LEMMA IndexIs ==
  ASSUME NEW rows, IsFiniteSet(DOMAIN rows), NEW date \in Int,
         \A a \in DOMAIN rows :
           /\ rows[a].planned[2] \in MaybeInt /\ ~IsBehind(rows[a], date),
         NEW index, index = ExecutionIndex(rows, date), index # None,
         NEW today, today = {a \in DOMAIN rows : rows[a].planned[2] = date /\ rows[a].finish = None}
  PROVE  index[1] + Cardinality(today) = index[2]
<1> DEFINE due  == {a \in DOMAIN rows : rows[a].planned[2] # None /\ rows[a].planned[2] <= date}
           done == {a \in due : rows[a].finish # None}
<1>0. None \notin Int
  BY NoneAssumption
<1>1. index = <<Cardinality(done), Cardinality(due)>>
  BY DEF ExecutionIndex
<1>2. IsFiniteSet(due)
  <2>1. due \subseteq DOMAIN rows
    OBVIOUS
  <2> HIDE DEF due
  <2> QED BY <2>1, FS_Subset
<1>3. ASSUME NEW a
      PROVE  a \in due \ done <=> a \in today
  <2>1. ASSUME a \in due \ done PROVE a \in today
    <3>1. /\ a \in DOMAIN rows /\ rows[a].planned[2] # None /\ rows[a].planned[2] <= date
          /\ rows[a].finish = None
      BY <2>1
    <3>2. rows[a].planned[2] \in Int
      BY <3>1 DEF MaybeInt
    <3>3. ~(rows[a].planned[2] < date)
      BY <3>1 DEF IsBehind
    <3> QED BY <3>1, <3>2, <3>3
  <2>2. ASSUME a \in today PROVE a \in due \ done
    BY <1>0, <2>2
  <2> QED BY <2>1, <2>2
<1>4. done \subseteq due /\ today = due \ done
  BY <1>3
<1> HIDE DEF due, done
<1>5. Cardinality(today) = Cardinality(due) - Cardinality(done)
  <2>1. IsFiniteSet(due \ done) /\ due \cap done = done
    BY <1>2, <1>4, FS_Difference
  <2>2. Cardinality(due \ done) = Cardinality(due) - Cardinality(due \cap done)
    BY <1>2, FS_Difference
  <2> QED BY <1>4, <2>1, <2>2
<1>6. Cardinality(due) \in Nat /\ Cardinality(done) \in Nat
  <2>1. IsFiniteSet(done)
    BY <1>2, <1>4, FS_Subset
  <2> QED BY <1>2, <2>1, FS_CardinalityType
<1> QED BY <1>1, <1>5, <1>6

\* What the report calls behind is; the rest is in order.
LEMMA ReportIsTold ==
  ASSUME NEW r, IsReport(r), NEW report,
         report = ProgressReport(r.days, r.tasks, r.baseline, r.forecast, r.dataDate)
  PROVE  LET rows == report.rows
             today == {a \in DOMAIN rows : rows[a].planned[2] = r.dataDate /\ rows[a].finish = None}
         IN  /\ \A a \in DOMAIN rows :
                  rows[a].finish # None /\ rows[a].finishVariance # None /\ rows[a].finishVariance > 0
                    => a \in report.behind
             /\ report.due \subseteq report.behind
             /\ report.behind = {} /\ report.index # None =>
                  report.index[1] + Cardinality(today) = report.index[2]
             /\ report.worst # None =>
                  report.total <= rows[report.worst].finishVariance * Cardinality(Measured(rows))
<1> DEFINE rows  == Standings(r.days, r.tasks, r.baseline, r.forecast)
           today == {a \in DOMAIN rows : rows[a].planned[2] = r.dataDate /\ rows[a].finish = None}
<1>1. /\ report.rows = rows
      /\ report.behind = {a \in DOMAIN rows : IsBehind(rows[a], r.dataDate)}
      /\ report.due = {a \in DOMAIN rows : IsUnstartedButDue(rows[a], r.dataDate)}
      /\ report.index = ExecutionIndex(rows, r.dataDate)
      /\ report.total = TotalVariance(rows) /\ report.worst = WorstSlippage(rows)
  BY DEF ProgressReport
<1>2. /\ IsFiniteSet(DOMAIN rows) /\ DOMAIN rows \subseteq Nat
      /\ \A a \in DOMAIN rows :
           /\ IsRow(rows[a], r.tasks[a])
           /\ rows[a].finish # None /\ rows[a].finishVariance # None /\ rows[a].finishVariance > 0 =>
                rows[a].planned[2] # None /\ rows[a].finish > rows[a].planned[2]
  BY RowsAre
<1>3. r.dataDate \in Int
  BY DEF IsReport
<1> HIDE DEF rows
<1>4. ASSUME NEW a \in DOMAIN rows,
             rows[a].finish # None, rows[a].finishVariance # None, rows[a].finishVariance > 0
      PROVE  a \in report.behind
  <2>1. IsBehind(rows[a], r.dataDate)
    BY <1>2, <1>4 DEF IsBehind
  <2> QED BY <1>1, <2>1
<1>5. ASSUME NEW a \in report.due PROVE a \in report.behind
  <2>1. a \in DOMAIN rows /\ IsUnstartedButDue(rows[a], r.dataDate)
    BY <1>1
  <2>2. rows[a].finish = None
    BY <1>2, <2>1 DEF IsRow, IsUnstartedButDue
  <2>3. IsBehind(rows[a], r.dataDate)
    BY <2>1, <2>2 DEF IsBehind
  <2> QED BY <1>1, <2>1, <2>3
<1>6. ASSUME report.behind = {}, report.index # None
      PROVE  report.index[1] + Cardinality(today) = report.index[2]
  <2>1. \A a \in DOMAIN rows : rows[a].planned[2] \in MaybeInt /\ ~IsBehind(rows[a], r.dataDate)
    BY <1>1, <1>2, <1>6 DEF IsRow
  <2>2. PICK t : t = today
    OBVIOUS
  <2> HIDE DEF today
  <2>3. t = {a \in DOMAIN rows : rows[a].planned[2] = r.dataDate /\ rows[a].finish = None}
    BY <2>2 DEF today
  <2>4. report.index[1] + Cardinality(t) = report.index[2]
    BY <1>1, <1>2, <1>3, <1>6, <2>1, <2>3, IndexIs
  <2> QED BY <2>2, <2>4
<1>7. ASSUME report.worst # None
      PROVE  report.total <= rows[report.worst].finishVariance * Cardinality(Measured(rows))
  <2>1. \A a \in DOMAIN rows : rows[a].finishVariance \in MaybeInt
    BY <1>2 DEF IsRow
  <2>2. WorstSlippage(rows) # None
    BY <1>1, <1>7
  <2>3. TotalVariance(rows) <= rows[WorstSlippage(rows)].finishVariance * Cardinality(Measured(rows))
    BY <1>2, <2>1, <2>2, WorstIsWorst
  <2> QED BY <1>1, <2>3
<1> QED BY <1>1, <1>4, <1>5, <1>6, <1>7

-----------------------------------------------------------------------------
\* Earned Schedule.

\* A product grows with either number.
LEMMA ProductGrows ==
  ASSUME NEW n \in Nat, NEW a \in Int, NEW b \in Int, a <= b
  PROVE  n * a \in Int /\ n * b \in Int /\ n * a <= n * b
<1>1. PICK d \in Nat : b = a + d
  <2>1. b - a \in Nat /\ b = a + (b - a)
    OBVIOUS
  <2> QED BY <2>1
<1>2. n * b = n * a + n * d
  BY <1>1
<1>3. n * d \in Nat /\ n * a \in Int
  BY <1>1
<1> QED BY <1>2, <1>3

\* What is left of a division is less than what was divided by.
LEMMA DivisionIs ==
  ASSUME NEW x \in Int, NEW d \in Nat \ {0}
  PROVE  /\ x \div d \in Int
         /\ d * (x \div d) <= x /\ x < d * (x \div d) + d
<1>1. x \div d \in Int /\ x % d \in 0..(d - 1) /\ x = d * (x \div d) + (x % d)
  OBVIOUS
<1>2. d * (x \div d) \in Int
  BY <1>1
<1> QED BY <1>1, <1>2

\* ... and no other number has that of it.
LEMMA DivisionKnown ==
  ASSUME NEW x \in Int, NEW d \in Nat \ {0}, NEW q \in Int, d * q <= x, x < d * q + d
  PROVE  x \div d = q
<1>1. PICK p \in Int : p = x \div d
  BY DivisionIs
<1>2. d * p <= x /\ x < d * p + d /\ d * p \in Int /\ d * q \in Int
  BY <1>1, DivisionIs
<1>3. ASSUME NEW a \in Int, NEW b \in Int, a < b PROVE d * a + d <= d * b
  <2>1. a + 1 <= b /\ a + 1 \in Int /\ d \in Nat
    BY <1>3
  <2>2. d * (a + 1) <= d * b
    BY <2>1, ProductGrows
  <2>3. d * (a + 1) = d * a + d
    OBVIOUS
  <2> QED BY <2>2, <2>3
<1>4. ~(p < q)
  <2>1. SUFFICES ASSUME p < q PROVE FALSE
    OBVIOUS
  <2>2. d * p + d <= d * q
    BY <1>3, <2>1
  <2> QED BY <1>2, <2>2
<1>5. ~(q < p)
  <2>1. SUFFICES ASSUME q < p PROVE FALSE
    OBVIOUS
  <2>2. d * q + d <= d * p
    BY <1>3, <2>1
  <2> QED BY <1>2, <2>2
<1> QED BY <1>1, <1>4, <1>5

\* A part of the whole in grains is no more than all of them.
LEMMA PartOfAGrain ==
  ASSUME NEW d \in Nat \ {0}, NEW p \in 0..d
  PROVE  (Grain * p) \div d \in 0..Grain
<1>0. Grain \in Nat /\ p \in Nat
  BY GrainAssumption
<1>1. PICK x \in Int : x = Grain * p
  BY <1>0
<1>2. 0 <= x /\ x <= Grain * d
  <2>1. Grain * p <= Grain * d /\ Grain * 0 <= Grain * p
    BY <1>0, ProductGrows
  <2>2. Grain * 0 = 0
    BY <1>0
  <2> QED BY <1>1, <2>1, <2>2
<1>3. PICK q \in Int : q = x \div d
  BY DivisionIs
<1>4. d * q <= x /\ x < d * q + d /\ d * q \in Int
  BY <1>3, DivisionIs
<1>5. q >= 0
  <2>1. SUFFICES ASSUME q <= -1 PROVE FALSE
    OBVIOUS
  <2>2. d * q <= d * (-1) /\ d * (-1) = -d
    BY <2>1, ProductGrows
  <2> QED BY <1>2, <1>4, <2>2
<1>6. q <= Grain
  <2>1. SUFFICES ASSUME Grain + 1 <= q PROVE FALSE
    BY <1>0
  <2>2. d * (Grain + 1) <= d * q /\ d * (Grain + 1) = Grain * d + d /\ Grain * d \in Int
    BY <1>0, <2>1, ProductGrows
  <2> QED BY <1>2, <1>4, <2>2
<1> QED BY <1>0, <1>1, <1>3, <1>5, <1>6

\* An activity earns between nothing and its whole.
LEMMA ShareIs ==
  ASSUME NEW t, t.dur \in Nat, t.percent \in MaybeInt, t.remaining \in MaybeInt
  PROVE  EarnedShare(t) \in 0..Grain
<1>0. Grain \in Nat /\ 0 \in 0..Grain /\ Grain \in 0..Grain
  BY GrainAssumption
<1>1. CASE t.percent # None
  <2>1. Later(0, Earlier(10, t.percent)) \in 0..10
    BY <1>1 DEF Later, Earlier, MaybeInt
  <2>2. (Grain * Later(0, Earlier(10, t.percent))) \div 10 \in 0..Grain
    BY <2>1, PartOfAGrain
  <2> QED BY <1>0, <1>1, <2>2 DEF EarnedShare
<1>2. CASE t.percent = None /\ t.remaining # None /\ t.dur > 0
  <2>1. Later(0, Earlier(t.dur, t.dur - t.remaining)) \in 0..t.dur
    BY <1>2 DEF Later, Earlier, MaybeInt
  <2>2. (Grain * Later(0, Earlier(t.dur, t.dur - t.remaining))) \div t.dur \in 0..Grain
    BY <1>2, <2>1, PartOfAGrain
  <2> QED BY <1>0, <1>2, <2>2 DEF EarnedShare
<1>3. CASE t.percent = None /\ ~(t.remaining # None /\ t.dur > 0)
  BY <1>0, <1>3 DEF EarnedShare
<1> QED BY <1>1, <1>2, <1>3

\* Snapped or not, the days between two dates are those between their positions.
LEMMA WorkingDaysBetween ==
  ASSUME NEW lat, IsLattice(lat), NEW a \in Int, NEW b \in Int
  PROVE  WorkingDaysTo(lat, a, b) = BisectLeft(lat, b) - BisectLeft(lat, a)
BY SnapSkipsNothing DEF WorkingDaysTo, CountWorkingDays

\* Sums are ordered as their values are, strictly where one of them is.
LEMMA SumsCompare ==
  ASSUME NEW w, NEW v, NEW S, IsFiniteSet(S), \A x \in S : w[x] \in Int /\ v[x] \in Int /\ w[x] <= v[x]
  PROVE  /\ SumOver(w, S) \in Int /\ SumOver(v, S) \in Int /\ SumOver(w, S) <= SumOver(v, S)
         /\ (\E x \in S : w[x] < v[x]) => SumOver(w, S) < SumOver(v, S)
<1> DEFINE Fine(T) == /\ SumOver(w, T) <= SumOver(v, T)
                      /\ (\E x \in T : w[x] < v[x]) => SumOver(w, T) < SumOver(v, T)
           B == {T \in SUBSET S : ~Fine(T)}
<1>1. ASSUME B # {} PROVE FALSE
  <2>1. PICK T \in B : IsMinimal(T, B)
    <3>1. B \subseteq SUBSET S
      OBVIOUS
    <3> HIDE DEF B
    <3> QED BY <1>1, <3>1, SmallestSubset
  <2>2. T \in SUBSET S /\ IsFiniteSet(T) /\ ~Fine(T)
    BY FS_Subset
  <2>3. CASE T = {}
    <3>1. SumOver(w, T) = 0 /\ SumOver(v, T) = 0
      BY <2>3, SumOfNone
    <3> QED BY <2>2, <2>3, <3>1
  <2>4. CASE T # {}
    <3>1. \E x \in T : (\E y \in T : w[y] < v[y]) => w[x] < v[x]
      BY <2>4
    <3>2. PICK x \in T : (\E y \in T : w[y] < v[y]) => w[x] < v[x]
      BY <3>1
    <3>3. PICK U : U = T \ {x}
      OBVIOUS
    <3>4. U \in SUBSET S /\ U # T /\ U \subseteq T /\ IsFiniteSet(U)
      BY <2>2, <3>2, <3>3, FS_Subset
    <3>5. Fine(U)
      <4>1. U \notin B
        BY <2>1, <3>4 DEF IsMinimal
      <4> HIDE DEF Fine
      <4> QED BY <3>4, <4>1
    <3>6. \A y \in T : w[y] \in Int /\ v[y] \in Int /\ w[y] <= v[y]
      BY <2>2
    <3>7. /\ SumOver(w, T) = SumOver(w, T \ {x}) + w[x]
          /\ SumOver(v, T) = SumOver(v, T \ {x}) + v[x]
      BY <2>2, <3>2, <3>6, SumTakesAny
    <3>8. SumOver(w, U) \in Int /\ SumOver(v, U) \in Int
      <4>1. \A y \in U : w[y] \in Int /\ v[y] \in Int
        BY <3>4, <3>6
      <4> QED BY <3>4, <4>1, SumIsWhole
    <3>9. /\ SumOver(w, T) = SumOver(w, U) + w[x]
          /\ SumOver(v, T) = SumOver(v, U) + v[x]
          /\ w[x] \in Int /\ v[x] \in Int /\ w[x] <= v[x]
      BY <3>3, <3>6, <3>7
    <3>10. SumOver(w, U) <= SumOver(v, U)
      BY <3>5
    <3>11. SumOver(w, T) <= SumOver(v, T) /\ (w[x] < v[x] => SumOver(w, T) < SumOver(v, T))
      BY <3>8, <3>9, <3>10
    <3>12. Fine(T)
      BY <3>2, <3>11
    <3> QED BY <2>2, <3>12
  <2> QED BY <2>3, <2>4
<1>2. Fine(S)
  BY <1>1
<1> QED BY <1>2, SumIsWhole

\* A curve that starts with nothing, moves on its first day and never falls.
IsCurve(curve, length) ==
  /\ length \in Nat \ {0} /\ DOMAIN curve = 0..length
  /\ \A n \in 0..length : curve[n] \in Nat
  /\ curve[0] = 0 /\ curve[1] > 0
  /\ \A n, m \in 0..length : n <= m => curve[n] <= curve[m]

\* The work of a baseline: each begins off days after the first of it and takes
\* span days.
AreSpans(S, off, span, length) ==
  /\ IsFiniteSet(S) /\ length \in Nat \ {0}
  /\ \A a \in S : off[a] \in Nat /\ span[a] \in Nat \ {0} /\ off[a] + span[a] <= length
  /\ \E a \in S : off[a] = 0

\* What is planned complete of one activity after n days.
LEMMA DoneIs ==
  ASSUME NEW n \in Nat, NEW o \in Nat, NEW s \in Nat \ {0}
  PROVE  /\ Earlier(Later(n - o, 0), s) \in Nat
         /\ \A m \in Nat : n <= m => Earlier(Later(n - o, 0), s) <= Earlier(Later(m - o, 0), s)
         /\ Earlier(Later(0 - o, 0), s) = 0
         /\ o = 0 => 0 < Earlier(Later(1 - o, 0), s)
         /\ o + s <= n => Earlier(Later(n - o, 0), s) = s
BY DEF Earlier, Later

\* What is planned complete of each after n days, and of all of it.
IsPlannedBy(S, off, span, length, done, curve) ==
  /\ DOMAIN curve = 0..length
  /\ \A n \in 0..length :
       /\ \A a \in S : done[n][a] = Earlier(Later(n - off[a], 0), span[a])
       /\ curve[n] = SumOver(done[n], S)

\* Its curve is one, and ends with all of it.
LEMMA CurveIs ==
  ASSUME NEW S, NEW off, NEW span, NEW length, AreSpans(S, off, span, length),
         NEW done, NEW curve, IsPlannedBy(S, off, span, length, done, curve)
  PROVE  IsCurve(curve, length) /\ curve[length] = SumOver(span, S)
<1>0. /\ DOMAIN curve = 0..length
      /\ \A n \in 0..length : curve[n] = SumOver(done[n], S)
      /\ \A n \in 0..length, a \in S : done[n][a] = Earlier(Later(n - off[a], 0), span[a])
  BY DEF IsPlannedBy
<1>1. IsFiniteSet(S) /\ length \in Nat /\ length # 0 /\ 0 \in 0..length /\ 1 \in 0..length
  BY DEF AreSpans
<1>2. ASSUME NEW n \in 0..length, NEW a \in S
      PROVE  /\ done[n][a] \in Nat
             /\ \A m \in 0..length : n <= m => done[n][a] <= done[m][a]
             /\ n = 0 => done[n][a] = 0
             /\ off[a] = 0 /\ n = 1 => 0 < done[n][a]
             /\ n = length => done[n][a] = span[a]
  <2>1. /\ n \in Nat /\ off[a] \in Nat /\ span[a] \in Nat \ {0} /\ off[a] + span[a] <= length
        /\ done[n][a] = Earlier(Later(n - off[a], 0), span[a])
        /\ \A m \in 0..length : m \in Nat /\ done[m][a] = Earlier(Later(m - off[a], 0), span[a])
    <3>1. /\ n \in Nat /\ off[a] \in Nat /\ span[a] \in Nat \ {0} /\ off[a] + span[a] <= length
          /\ \A m \in 0..length : m \in Nat
      BY DEF AreSpans
    <3>2. \A m \in 0..length : done[m][a] = Earlier(Later(m - off[a], 0), span[a])
      BY <1>0, Zenon
    <3>3. done[n][a] = Earlier(Later(n - off[a], 0), span[a])
      BY <3>2, Zenon
    <3> QED BY <3>1, <3>2, <3>3, Zenon
  <2>2. /\ done[n][a] \in Nat
        /\ \A m \in Nat : n <= m => done[n][a] <= Earlier(Later(m - off[a], 0), span[a])
        /\ n = 0 => done[n][a] = 0
        /\ off[a] = 0 /\ n = 1 => 0 < done[n][a]
        /\ n = length => done[n][a] = span[a]
    <3>1. PICK o \in Nat, s \in Nat \ {0} : o = off[a] /\ s = span[a]
      BY <2>1
    <3>2. /\ Earlier(Later(n - o, 0), s) \in Nat
          /\ \A m \in Nat : n <= m => Earlier(Later(n - o, 0), s) <= Earlier(Later(m - o, 0), s)
          /\ Earlier(Later(0 - o, 0), s) = 0
          /\ o = 0 => 0 < Earlier(Later(1 - o, 0), s)
          /\ o + s <= n => Earlier(Later(n - o, 0), s) = s
      BY <2>1, DoneIs
    <3> QED BY <2>1, <3>1, <3>2
  <2> QED BY <2>1, <2>2
<1>3. ASSUME NEW n \in 0..length PROVE curve[n] \in Nat
  <2>1. \A a \in S : done[n][a] \in Nat
    BY <1>2
  <2>2. S \in SUBSET S
    OBVIOUS
  <2>3. SumOver(done[n], S) \in Nat
    BY <1>1, <2>1, <2>2, SumGrows
  <2> QED BY <1>0, <2>3
<1>4. ASSUME NEW n \in 0..length, NEW m \in 0..length, n <= m
      PROVE  curve[n] <= curve[m]
  <2>1. \A a \in S : done[n][a] \in Int /\ done[m][a] \in Int /\ done[n][a] <= done[m][a]
    BY <1>2, <1>4
  <2>2. SumOver(done[n], S) <= SumOver(done[m], S)
    BY <1>1, <2>1, SumsCompare
  <2> QED BY <1>0, <2>2
<1>5. curve[0] = 0
  <2>1. \A a \in S : done[0][a] \in Int /\ done[0][a] <= 0
    BY <1>1, <1>2
  <2>2. SumOver(done[0], S) <= 0 * Cardinality(S) /\ Cardinality(S) \in Nat
    <3>1. 0 \in Int
      OBVIOUS
    <3> QED BY <1>1, <2>1, <3>1, SumAtMost
  <2>3. 0 * Cardinality(S) = 0
    BY <2>2
  <2> QED BY <1>0, <1>1, <1>3, <2>2, <2>3
<1>6. curve[1] > 0
  <2>1. PICK a \in S : off[a] = 0
    BY DEF AreSpans
  <2>2. \A b \in S : done[0][b] \in Int /\ done[1][b] \in Int /\ done[0][b] <= done[1][b]
    BY <1>1, <1>2
  <2>3. done[0][a] < done[1][a]
    BY <1>1, <1>2, <2>1
  <2>4. SumOver(done[0], S) < SumOver(done[1], S)
    BY <1>1, <2>2, <2>3, SumsCompare
  <2> QED BY <1>0, <1>1, <1>5, <2>4
<1>7. curve[length] = SumOver(span, S)
  <2>1. length \in 0..length
    BY <1>1
  <2>2. \A a \in S : done[length][a] = span[a]
    BY <1>2, <2>1
  <2>3. SumOver(done[length], S) = SumOver(span, S)
    BY <1>1, <2>2, SumAgrees
  <2> QED BY <1>0, <2>1, <2>3
<1> QED BY <1>0, <1>1, <1>3, <1>4, <1>5, <1>6, <1>7 DEF IsCurve

\* What the property asks of a measurement, for one that is not its own record.
ReadsBack(curve, length, earned, num, den) ==
  LET n == num \div den
      step == IF n = length THEN 0 ELSE curve[n + 1] - curve[n]
  IN  /\ den \in Nat \ {0} /\ num \in Nat /\ num <= length * den
      /\ Grain * (curve[n] * den + step * (num - n * den)) = earned * den
      /\ \A e \in 1..length : num < e * den <=> earned < Grain * curve[e]

\* Between two days the offset reads back what was earned.
LEMMA BetweenReadsBack ==
  ASSUME NEW curve, NEW length, IsCurve(curve, length), NEW n \in 0..(length - 1),
         NEW earned \in Nat, Grain * curve[n] <= earned, earned < Grain * curve[n + 1],
         NEW den, den = Grain * (curve[n + 1] - curve[n]),
         NEW num, num = n * den + earned - Grain * curve[n]
  PROVE  ReadsBack(curve, length, earned, num, den)
<1>0. Grain \in Nat \ {0} /\ Grain \in Nat
  BY GrainAssumption
<1>1. /\ length \in Nat /\ n \in Nat /\ n + 1 \in 0..length /\ n \in 0..length /\ n + 1 <= length
      /\ curve[n] \in Nat /\ curve[n + 1] \in Nat
  BY DEF IsCurve
<1>2. PICK x \in Nat, y \in Nat : x = curve[n] /\ y = curve[n + 1]
  BY <1>1
<1>3. PICK lo \in Nat, hi \in Nat : lo = Grain * x /\ hi = Grain * y
  BY <1>0, <1>2
<1>4. den = hi - lo
  BY <1>0, <1>2, <1>3
<1>5. den \in Nat \ {0} /\ lo <= earned /\ earned < hi
  BY <1>2, <1>3, <1>4
<1>6. PICK e \in Nat : e = earned - lo
  BY <1>5
<1>7. num = n * den + e /\ e < den /\ n * den \in Nat /\ num \in Nat
  BY <1>1, <1>2, <1>3, <1>4, <1>5, <1>6
<1>8. num \div den = n
  <2>1. den * n = n * den
    BY <1>1, <1>5
  <2>2. den * n <= num /\ num < den * n + den
    BY <1>7, <2>1, <1>5
  <2> QED BY <1>1, <1>5, <1>7, <2>2, DivisionKnown
<1>9. num <= length * den
  <2>1. den * (n + 1) <= den * length
    BY <1>1, <1>5, ProductGrows
  <2>2. den * (n + 1) = n * den + den /\ den * length = length * den /\ length * den \in Nat
    <3>1. \A c \in Nat, d \in Nat : d * (c + 1) = c * d + d /\ d * c = c * d /\ c * d \in Nat
      OBVIOUS
    <3> QED BY <1>1, <1>5, <3>1
  <2> QED BY <1>5, <1>7, <2>1, <2>2
<1>10. Grain * (x * den + (y - x) * (num - n * den)) = earned * den
  <2>1. num - n * den = e
    BY <1>7
  <2>2. PICK d \in Int : d = y - x
    OBVIOUS
  <2>3. den = Grain * d
    BY <1>2, <2>2
  <2>4. Grain * (x * den + d * e) = Grain * (x * den) + Grain * (d * e)
    BY <1>0, <1>5, <2>2
  <2>5. Grain * (d * e) = e * den
    BY <1>0, <2>2, <2>3
  <2>6. Grain * (x * den) = lo * den
    BY <1>0, <1>3, <1>5
  <2>7. earned * den = lo * den + e * den
    <3>1. earned = lo + e
      BY <1>6
    <3>2. (lo + e) * den = lo * den + e * den
      BY <1>5
    <3> QED BY <3>1, <3>2
  <2> QED BY <2>1, <2>2, <2>4, <2>5, <2>6, <2>7
<1>11. ASSUME NEW f \in 1..length
       PROVE  num < f * den <=> earned < Grain * curve[f]
  <2>1. f \in Int /\ f \in 0..length /\ curve[f] \in Nat
    BY <1>1 DEF IsCurve
  <2>2. f * den = den * f /\ n * den = den * n /\ f * den \in Int
    BY <1>1, <1>5, <2>1
  <2>3. CASE f <= n
    <3>1. den * f <= den * n
      BY <1>1, <1>5, <2>1, <2>3, ProductGrows
    <3>2. ~(num < f * den)
      BY <1>7, <2>2, <3>1
    <3>3. curve[f] <= x
      BY <1>1, <1>2, <2>1, <2>3 DEF IsCurve
    <3>4. Grain * curve[f] <= Grain * x /\ Grain * curve[f] \in Int
      BY <1>0, <1>2, <2>1, <3>3, ProductGrows
    <3> QED BY <1>3, <1>5, <3>2, <3>4
  <2>4. CASE n + 1 <= f
    <3>0. \A c \in Nat, d \in Nat : d * (c + 1) = c * d + d
      OBVIOUS
    <3>1. den * (n + 1) <= den * f /\ den * (n + 1) = n * den + den
      <4>1. n + 1 \in Int /\ den \in Nat
        BY <1>1, <1>5
      <4>2. den * (n + 1) <= den * f
        BY <2>1, <2>4, <4>1, ProductGrows
      <4> QED BY <1>1, <3>0, <4>1, <4>2
    <3>2. num < f * den
      BY <1>5, <1>7, <2>2, <3>1
    <3>3. y <= curve[f]
      BY <1>1, <1>2, <2>1, <2>4 DEF IsCurve
    <3>4. Grain * y <= Grain * curve[f] /\ Grain * curve[f] \in Int
      BY <1>0, <1>2, <2>1, <3>3, ProductGrows
    <3> QED BY <1>3, <1>5, <3>2, <3>4
  <2> QED BY <1>1, <2>1, <2>3, <2>4
<1>12. n # length
  BY <1>1
<1> QED BY <1>2, <1>5, <1>7, <1>8, <1>9, <1>10, <1>11, <1>12 DEF ReadsBack

\* So it does wherever on the curve that is.
LEMMA EarnedReadsBack ==
  ASSUME NEW curve, NEW length, IsCurve(curve, length), NEW earned \in Nat,
         earned <= Grain * curve[length],
         NEW at, at = EarnedTime(curve, length, earned)
  PROVE  ReadsBack(curve, length, earned, at[1], at[2])
<1>0. Grain \in Nat \ {0} /\ Grain \in Nat
  BY GrainAssumption
<1>1. /\ length \in Nat \ {0} /\ length \in Nat /\ 0 \in 0..length /\ 1 \in 0..length /\ length \in 0..length
      /\ curve[0] = 0 /\ curve[1] > 0 /\ curve[1] \in Nat /\ curve[length] \in Nat
  <2>1. length \in Nat \ {0}
    BY DEF IsCurve
  <2>2. 0 \in 0..length /\ 1 \in 0..length /\ length \in 0..length
    BY <2>1
  <2> QED BY <2>1, <2>2 DEF IsCurve
<1>2. Grain * curve[0] = 0
  BY <1>0, <1>1
<1>3. CASE earned <= Grain * curve[0]
  <2>1. earned = 0 /\ at[1] = 0 /\ at[2] = 1
    BY <1>2, <1>3 DEF EarnedTime
  <2>2. Grain * curve[1] > 0
    <3>0. 1 \in Int /\ curve[1] \in Int /\ 1 <= curve[1] /\ Grain * 1 = Grain
      BY <1>0, <1>1
    <3>1. Grain * 1 <= Grain * curve[1] /\ Grain * curve[1] \in Int
      BY <1>0, <3>0, ProductGrows
    <3> QED BY <1>0, <3>0, <3>1
  <2>3. ASSUME NEW e \in 1..length PROVE 0 < e * 1 /\ 0 < Grain * curve[e]
    <3>1. e \in 0..length /\ curve[e] \in Nat /\ curve[1] <= curve[e] /\ e * 1 = e
      BY <1>1 DEF IsCurve
    <3>2. Grain * curve[1] <= Grain * curve[e] /\ Grain * curve[1] \in Int /\ Grain * curve[e] \in Int
      BY <1>0, <1>1, <3>1, ProductGrows
    <3> QED BY <2>2, <3>1, <3>2
  <2>4. 0 \div 1 = 0
    BY DivisionKnown
  <2>5. curve[0 + 1] - curve[0] \in Int
    BY <1>1
  <2>6. /\ 0 <= length * 1 /\ 0 # length
        /\ Grain * (curve[0] * 1 + (curve[0 + 1] - curve[0]) * (0 - 0 * 1)) = 0 * 1
    BY <1>0, <1>1, <2>5
  <2> QED BY <2>1, <2>3, <2>4, <2>6 DEF ReadsBack
<1>4. CASE earned > Grain * curve[0] /\ earned >= Grain * curve[length]
  <2>1. at[1] = length /\ at[2] = 1
    BY <1>1, <1>2, <1>4 DEF EarnedTime
  <2>2. earned = Grain * curve[length]
    BY <1>0, <1>1, <1>4
  <2>3. length \div 1 = length
    <3>1. 1 * length = length
      BY <1>1
    <3> QED BY <1>1, <3>1, DivisionKnown
  <2>4. /\ length <= length * 1
        /\ Grain * (curve[length] * 1 + 0 * (length - length * 1)) = earned * 1
    BY <1>0, <1>1, <2>2
  <2>5. ASSUME NEW e \in 1..length PROVE ~(length < e * 1) /\ ~(earned < Grain * curve[e])
    <3>1. e \in 0..length /\ curve[e] \in Nat /\ curve[e] <= curve[length] /\ e * 1 = e
      BY <1>1 DEF IsCurve
    <3>2. Grain * curve[e] <= Grain * curve[length] /\ Grain * curve[e] \in Int /\ Grain * curve[length] \in Int
      BY <1>0, <1>1, <3>1, ProductGrows
    <3> QED BY <1>1, <2>2, <3>1, <3>2
  <2> QED BY <1>1, <2>1, <2>3, <2>4, <2>5 DEF ReadsBack
<1>5. CASE earned > Grain * curve[0] /\ earned < Grain * curve[length]
  <2> DEFINE K == {n \in 0..length : Grain * curve[n] <= earned}
  <2>1. /\ K \in SUBSET Int /\ IsFiniteSet(K) /\ K # {}
    <3>1. K \subseteq 0..length /\ 0 \in K
      BY <1>1, <1>2, <1>5
    <3>2. IsFiniteSet(0..length)
      BY <1>1, FS_Interval
    <3> HIDE DEF K
    <3>3. IsFiniteSet(K)
      BY <3>1, <3>2, FS_Subset
    <3> QED BY <3>1, <3>3
  <2>2. PICK n : n = Max(K)
    OBVIOUS
  <2>3. n \in K /\ \A m \in K : m <= n
    <3> HIDE DEF K
    <3> QED BY <2>1, <2>2, MaxIs
  <2>4. n \in 0..length /\ Grain * curve[n] <= earned /\ n # length
    <3>1. n \in 0..length /\ Grain * curve[n] <= earned
      BY <2>3
    <3>2. Grain * curve[length] \in Int
      BY <1>0, <1>1
    <3> QED BY <1>5, <3>1, <3>2
  <2>5. n \in 0..(length - 1) /\ n + 1 \in 0..length
    BY <1>1, <2>4
  <2>6. earned < Grain * curve[n + 1]
    <3>1. n + 1 \notin K
      BY <2>3, <2>5
    <3>2. curve[n + 1] \in Nat
      BY <2>5 DEF IsCurve
    <3> QED BY <1>0, <2>5, <3>1, <3>2
  <2>7. PICK den : den = Grain * (curve[n + 1] - curve[n])
    OBVIOUS
  <2>8. PICK num : num = n * den + earned - Grain * curve[n]
    OBVIOUS
  <2>9. at = <<num, den>>
    <3>1. ~(earned <= Grain * curve[0]) /\ ~(earned >= Grain * curve[length])
      BY <1>0, <1>1, <1>5
    <3> QED BY <2>2, <2>7, <2>8, <3>1 DEF EarnedTime
  <2>10. ReadsBack(curve, length, earned, num, den)
    BY <2>4, <2>5, <2>6, <2>7, <2>8, BetweenReadsBack
  <2> QED BY <2>9, <2>10
<1> QED BY <1>0, <1>1, <1>2, <1>3, <1>4, <1>5

\* What is measured against a baseline that runs forward.
IsPlanned(lat, tasks, baseline, dataDate) ==
  /\ IsLattice(lat) /\ dataDate \in Int
  /\ IsFiniteSet(DOMAIN tasks) /\ DOMAIN tasks \cap DOMAIN baseline # {}
  /\ \A a \in DOMAIN tasks : /\ tasks[a].dur \in Nat
                             /\ tasks[a].percent \in MaybeInt /\ tasks[a].remaining \in MaybeInt
  /\ \A a \in DOMAIN baseline :
       /\ baseline[a][1] \in Int /\ baseline[a][2] \in Int /\ baseline[a][1] <= baseline[a][2]

\* The first day of a baseline, and its last.
FirstDay(baseline, S) == Min({baseline[a][1] : a \in S})
LastDay(baseline, S)  == Max({baseline[a][2] : a \in S})

\* How far from the first day each of it begins, and how long it takes.
PlacedFrom(lat, baseline, S, origin, off, span) ==
  \A a \in S : /\ off[a] = WorkingDaysTo(lat, origin, baseline[a][1])
              /\ span[a] = SpanDays(lat, baseline[a])

\* The spans of the baseline fit between its first day and its last.
LEMMA BaselineFits ==
  ASSUME NEW lat, NEW tasks, NEW baseline, NEW dataDate, IsPlanned(lat, tasks, baseline, dataDate),
         NEW S, S = Scope(tasks, baseline),
         NEW origin, origin = FirstDay(baseline, S),
         NEW length, length = WorkingDaysTo(lat, origin, LastDay(baseline, S)) + 1,
         NEW off, NEW span, PlacedFrom(lat, baseline, S, origin, off, span)
  PROVE  AreSpans(S, off, span, length) /\ origin \in Int
<1> DEFINE from == [a \in S |-> baseline[a][1]]
           to   == [a \in S |-> baseline[a][2]]
           F == {from[a] : a \in S}
           T == {to[a] : a \in S}
<1>1. /\ IsFiniteSet(S) /\ S # {}
      /\ \A a \in S : /\ baseline[a][1] \in Int /\ baseline[a][2] \in Int
                      /\ baseline[a][1] <= baseline[a][2]
  <2>1. S \subseteq DOMAIN tasks /\ S \subseteq DOMAIN baseline /\ S # {}
    BY DEF Scope, IsPlanned
  <2> QED BY <2>1, FS_Subset DEF IsPlanned
<1>2. IsLattice(lat)
  BY DEF IsPlanned
<1>3. /\ DOMAIN from = S /\ DOMAIN to = S
      /\ \A a \in S : from[a] = baseline[a][1] /\ to[a] = baseline[a][2]
  OBVIOUS
<1>4. F = {baseline[a][1] : a \in S} /\ T = {baseline[a][2] : a \in S}
  OBVIOUS
<1> HIDE DEF from, to
<1>5. IsFiniteSet(F) /\ IsFiniteSet(T)
  BY <1>1, <1>3, FinitelyMany
<1>6. F \in SUBSET Int /\ T \in SUBSET Int /\ F # {} /\ T # {}
  BY <1>1, <1>3
<1>7. origin = Min(F)
  BY <1>4 DEF FirstDay
<1>8. PICK last : last = Max(T)
  OBVIOUS
<1>9. length = WorkingDaysTo(lat, origin, last) + 1
  BY <1>4, <1>8 DEF LastDay
<1>10. origin \in F /\ \A x \in F : origin <= x
  <2> HIDE DEF F
  <2>1. Min(F) \in F /\ \A x \in F : Min(F) <= x
    BY <1>5, <1>6, MinIs
  <2> QED BY <1>7, <2>1
<1>11. last \in T /\ \A x \in T : x <= last
  <2> HIDE DEF T
  <2> QED BY <1>5, <1>6, <1>8, MaxIs
<1>12. /\ origin \in Int /\ last \in Int
       /\ \A a \in S : origin <= baseline[a][1] /\ baseline[a][2] <= last
       /\ \E a \in S : origin = baseline[a][1]
  BY <1>3, <1>6, <1>10, <1>11
<1> HIDE DEF F, T
<1>13. PICK o \in Nat, l \in Nat : o = BisectLeft(lat, origin) /\ l = BisectLeft(lat, last)
  BY <1>2, PositionsCount
<1>14. length = l - o + 1
  BY <1>2, <1>9, <1>12, <1>13, WorkingDaysBetween
<1>15. ASSUME NEW a \in S
       PROVE  /\ off[a] \in Nat /\ span[a] \in Nat \ {0} /\ off[a] + span[a] <= length
              /\ length \in Nat \ {0} /\ (origin = baseline[a][1] => off[a] = 0)
  <2>1. PICK s \in Nat, f \in Nat : s = BisectLeft(lat, baseline[a][1]) /\ f = BisectLeft(lat, baseline[a][2])
    BY <1>2, PositionsCount
  <2>2. off[a] = s - o
    <3>1. off[a] = WorkingDaysTo(lat, origin, baseline[a][1])
      BY DEF PlacedFrom
    <3> QED BY <1>1, <1>2, <1>12, <1>13, <2>1, <3>1, WorkingDaysBetween
  <2>3. span[a] = f - s + 1
    <3>1. span[a] = SpanDays(lat, baseline[a])
      BY DEF PlacedFrom
    <3>2. span[a] = WorkingDaysTo(lat, baseline[a][1], baseline[a][2]) + 1
      BY <3>1 DEF SpanDays
    <3> QED BY <1>1, <1>2, <2>1, <3>2, WorkingDaysBetween
  <2>4. o <= s /\ s <= f /\ f <= l
    BY <1>1, <1>2, <1>12, <1>13, <2>1, PositionsGrow
  <2>5. origin = baseline[a][1] => s = o
    BY <1>13, <2>1
  <2> QED BY <1>14, <2>2, <2>3, <2>4, <2>5
<1> QED BY <1>1, <1>12, <1>15 DEF AreSpans

\* A sum of multiples is the multiple of the sum.
LEMMA SumScales ==
  ASSUME NEW g \in Int, NEW w, NEW v, NEW S, IsFiniteSet(S),
         \A x \in S : w[x] \in Int /\ v[x] = g * w[x]
  PROVE  SumOver(v, S) = g * SumOver(w, S)
<1> DEFINE B == {T \in SUBSET S : SumOver(v, T) # g * SumOver(w, T)}
<1>1. ASSUME B # {} PROVE FALSE
  <2>1. PICK T \in B : IsMinimal(T, B)
    <3>1. B \subseteq SUBSET S
      OBVIOUS
    <3> HIDE DEF B
    <3> QED BY <1>1, <3>1, SmallestSubset
  <2>2. T \in SUBSET S /\ IsFiniteSet(T) /\ SumOver(v, T) # g * SumOver(w, T)
    BY FS_Subset
  <2>3. CASE T = {}
    <3>1. SumOver(w, T) = 0 /\ SumOver(v, T) = 0
      BY <2>3, SumOfNone
    <3> QED BY <2>2, <3>1
  <2>4. CASE T # {}
    <3>1. PICK x \in T : TRUE
      BY <2>4
    <3>2. PICK U : U = T \ {x}
      OBVIOUS
    <3>3. U \in SUBSET S /\ U # T /\ U \subseteq T /\ IsFiniteSet(U)
      BY <2>2, <3>1, <3>2, FS_Subset
    <3>4. SumOver(v, U) = g * SumOver(w, U)
      <4>1. U \notin B
        BY <2>1, <3>3 DEF IsMinimal
      <4> QED BY <3>3, <4>1
    <3>5. \A y \in T : w[y] \in Int /\ v[y] \in Int /\ v[y] = g * w[y]
      BY <2>2
    <3>6. /\ SumOver(w, T) = SumOver(w, T \ {x}) + w[x]
          /\ SumOver(v, T) = SumOver(v, T \ {x}) + v[x]
      BY <2>2, <3>1, <3>5, SumTakesAny
    <3>7. SumOver(w, U) \in Int
      <4>1. \A y \in U : w[y] \in Int
        BY <3>3, <3>5
      <4> QED BY <3>3, <4>1, SumIsWhole
    <3>8. PICK s \in Int, y \in Int : s = SumOver(w, U) /\ y = w[x]
      BY <3>5, <3>7
    <3>9. SumOver(v, T) = g * s + g * y /\ SumOver(w, T) = s + y
      BY <3>2, <3>4, <3>5, <3>6, <3>8
    <3>10. g * (s + y) = g * s + g * y
      OBVIOUS
    <3> QED BY <2>2, <3>9, <3>10
  <2> QED BY <2>3, <2>4
<1>2. S \notin B
  BY <1>1
<1> QED BY <1>2

\* What such a request asks is what may be asked.
LEMMA ToldIsRequest ==
  ASSUME ReportsToldInv, NEW study, request.study = study, study # "none"
  PROVE  IsRequest(request)
<1>1. request # NothingAsked
  BY DEF NothingAsked
<1>2. \E s \in DOMAIN Asked : request \in Asked[s]
  BY <1>1 DEF ReportsToldInv
<1> QED BY <1>2, AskedAssumption

\* The measurement of such a baseline reads back what was earned.
LEMMA MeasuredReadsBack ==
  ASSUME NEW lat, NEW tasks, NEW baseline, NEW dataDate, IsPlanned(lat, tasks, baseline, dataDate),
         NEW m, m = EarnedSchedule(lat, tasks, baseline, dataDate)
  PROVE  /\ ReadsBack(m.curve, m.length, m.earned, m.at[1], m.at[2])
         /\ m.length \in Nat \ {0} /\ m.elapsed \in Nat
<1> DEFINE S == Scope(tasks, baseline)
           origin == Min({baseline[a][1] : a \in S})
           length == WorkingDaysTo(lat, origin, Max({baseline[a][2] : a \in S})) + 1
           curve == PlannedCurve(lat, baseline, S, origin, length)
           share == [a \in S |-> EarnedShare(tasks[a]) * SpanDays(lat, baseline[a])]
           off == [a \in S |-> WorkingDaysTo(lat, origin, baseline[a][1])]
           span == [a \in S |-> SpanDays(lat, baseline[a])]
           done == [n \in 0..length |-> [a \in S |->
                      Earlier(Later(n - WorkingDaysTo(lat, origin, baseline[a][1]), 0),
                              SpanDays(lat, baseline[a]))]]
           earned == MapThenSumSet(LAMBDA a : EarnedShare(tasks[a]) * SpanDays(lat, baseline[a]), S)
<1>1. /\ m.length = length /\ m.curve = curve /\ m.earned = earned
      /\ m.at = EarnedTime(curve, length, earned)
      /\ m.elapsed = Later(0, WorkingDaysTo(lat, origin, dataDate))
  BY DEF EarnedSchedule
<1>2. earned = SumOver(share, S)
  BY DEF MapThenSumSet, MapThenFoldSet, SumOver, IsTally, Chosen
<1>3. /\ DOMAIN curve = 0..length
      /\ \A n \in 0..length : curve[n] =
           MapThenSumSet(LAMBDA a :
             Earlier(Later(n - WorkingDaysTo(lat, origin, baseline[a][1]), 0),
                     SpanDays(lat, baseline[a])), S)
  BY DEF PlannedCurve
<1>4. ASSUME NEW n \in 0..length
      PROVE  MapThenSumSet(LAMBDA a :
                 Earlier(Later(n - WorkingDaysTo(lat, origin, baseline[a][1]), 0),
                         SpanDays(lat, baseline[a])), S)
               = SumOver([a \in S |-> Earlier(Later(n - WorkingDaysTo(lat, origin, baseline[a][1]), 0),
                                              SpanDays(lat, baseline[a]))], S)
  <2> HIDE DEF S, origin, length
  <2> QED BY DEF MapThenSumSet, MapThenFoldSet, SumOver, IsTally, Chosen
<1>5. \A n \in 0..length : curve[n] = SumOver(done[n], S)
  <2> HIDE DEF curve, S, origin, length
  <2>1. \A n \in 0..length : done[n] =
          [a \in S |-> Earlier(Later(n - WorkingDaysTo(lat, origin, baseline[a][1]), 0),
                               SpanDays(lat, baseline[a]))]
    OBVIOUS
  <2> HIDE DEF done
  <2> QED BY <1>3, <1>4, <2>1
<1>6. /\ DOMAIN done = 0..length
      /\ \A n \in 0..length, a \in S : done[n][a] = Earlier(Later(n - off[a], 0), span[a])
  <2> HIDE DEF S, origin, length
  <2> QED OBVIOUS
<1>7. /\ \A a \in S : off[a] = WorkingDaysTo(lat, origin, baseline[a][1])
      /\ \A a \in S : span[a] = SpanDays(lat, baseline[a])
      /\ \A a \in S : share[a] = EarnedShare(tasks[a]) * span[a]
  <2> HIDE DEF S, origin
  <2> QED OBVIOUS
<1>8. /\ S = Scope(tasks, baseline)
      /\ origin = FirstDay(baseline, S)
      /\ length = WorkingDaysTo(lat, origin, LastDay(baseline, S)) + 1
  BY DEF FirstDay, LastDay
<1> HIDE DEF S, origin, length, curve, share, off, span, done, earned
<1>9. AreSpans(S, off, span, length) /\ origin \in Int
  <2>1. PlacedFrom(lat, baseline, S, origin, off, span)
    BY <1>7 DEF PlacedFrom
  <2> QED BY <1>8, <2>1, BaselineFits
<1>10. IsCurve(curve, length) /\ curve[length] = SumOver(span, S)
  <2>1. IsPlannedBy(S, off, span, length, done, curve)
    BY <1>3, <1>5, <1>6 DEF IsPlannedBy
  <2> QED BY <1>9, <2>1, CurveIs
<1>11. earned \in Nat /\ earned <= Grain * curve[length]
  <2>0. Grain \in Nat
    BY GrainAssumption
  <2>1. IsFiniteSet(S) /\ \A a \in S : span[a] \in Nat
    BY <1>9 DEF AreSpans
  <2> DEFINE whole == [a \in S |-> Grain * span[a]]
  <2>2. ASSUME NEW a \in S
        PROVE  /\ share[a] \in Nat /\ whole[a] \in Int /\ share[a] <= whole[a]
    <3>1. PICK g \in 0..Grain : g = EarnedShare(tasks[a])
      <4>1. a \in DOMAIN tasks
        BY <1>8 DEF Scope
      <4>2. /\ tasks[a].dur \in Nat
            /\ tasks[a].percent \in MaybeInt /\ tasks[a].remaining \in MaybeInt
        BY <4>1 DEF IsPlanned
      <4> QED BY <4>2, ShareIs
    <3>2. PICK s \in Nat : s = span[a]
      BY <2>1
    <3>3. s * g <= s * Grain
      BY <2>0, <3>1, <3>2, ProductGrows
    <3>4. share[a] = g * s /\ whole[a] = Grain * s
      BY <1>7, <3>1, <3>2
    <3>5. g * s = s * g /\ Grain * s = s * Grain /\ g * s \in Nat /\ Grain * s \in Nat
      BY <2>0, <3>1, <3>2
    <3> QED BY <3>3, <3>4, <3>5
  <2>3. SumOver(share, S) \in Nat
    <3>1. S \in SUBSET S
      OBVIOUS
    <3> QED BY <2>1, <2>2, <3>1, SumGrows
  <2>4. \A a \in S : whole[a] = Grain * span[a]
    OBVIOUS
  <2> HIDE DEF whole
  <2>5. SumOver(share, S) <= SumOver(whole, S)
    <3>1. \A a \in S : share[a] \in Int /\ whole[a] \in Int /\ share[a] <= whole[a]
      BY <2>2
    <3> QED BY <2>1, <3>1, SumsCompare
  <2>6. SumOver(whole, S) = Grain * SumOver(span, S)
    BY <2>0, <2>1, <2>4, SumScales
  <2> QED BY <1>2, <1>10, <2>3, <2>5, <2>6
<1>12. ReadsBack(curve, length, earned, m.at[1], m.at[2])
  BY <1>1, <1>10, <1>11, EarnedReadsBack
<1>13. m.elapsed \in Nat
  <2>1. WorkingDaysTo(lat, origin, dataDate) \in Int
    <3>1. IsLattice(lat) /\ dataDate \in Int
      BY DEF IsPlanned
    <3>2. BisectLeft(lat, dataDate) \in Nat /\ BisectLeft(lat, origin) \in Nat
      BY <3>1, PositionsCount
    <3> QED BY <1>9, <3>1, <3>2, WorkingDaysBetween
  <2> QED BY <1>1, <2>1 DEF Later
<1> QED BY <1>1, <1>10, <1>12, <1>13 DEF IsCurve

\* Progress is measured on one scale, and the report of it is in order
\* (earned.py:193-295, progress.py:48-214).
THEOREM MeasurementsAgree == StudiesSpec => []MeasuresAgree
<1>1. ReportsToldInv => MeasuresAgree
  <2>1. SUFFICES ASSUME ReportsToldInv PROVE MeasuresAgree
    OBVIOUS
  <2>2. ASSUME Answered("earned") PROVE EarnedOnTheCurve
    <3> DEFINE m == answer.result
               lat == request.days[request.calendar]
    <3>1. m = EarnedSchedule(lat, request.tasks, request.baseline, request.dataDate)
      BY <2>1, <2>2 DEF ReportsToldInv
    <3>2. IsPlanned(lat, request.tasks, request.baseline, request.dataDate)
      <4>1. request.study = "earned" /\ IsRequest(request)
        BY <2>1, <2>2, ToldIsRequest DEF Answered
      <4>2. /\ IsReport(request) /\ request.calendar \in DOMAIN request.days
            /\ \A a \in DOMAIN request.baseline : request.baseline[a][1] <= request.baseline[a][2]
        BY <4>1 DEF IsRequest
      <4>3. IsLattice(lat) /\ request.dataDate \in Int /\ IsFiniteSet(DOMAIN request.tasks)
        BY <4>2 DEF IsReport, IsLattice
      <4>4. \A a \in DOMAIN request.tasks :
              /\ request.tasks[a].dur \in Nat
              /\ request.tasks[a].percent \in MaybeInt /\ request.tasks[a].remaining \in MaybeInt
        BY <4>2 DEF IsReport
      <4>5. \A a \in DOMAIN request.baseline : request.baseline[a][1] \in Int /\ request.baseline[a][2] \in Int
        <5>1. \A a \in DOMAIN request.baseline : request.baseline[a] \in Int \X Int
          BY <4>2 DEF IsReport
        <5> QED BY <5>1
      <4>6. DOMAIN request.tasks \cap DOMAIN request.baseline # {}
        BY <2>1, <2>2 DEF ReportsToldInv, Scope
      <4> HIDE DEF lat
      <4> QED BY <4>2, <4>3, <4>4, <4>5, <4>6 DEF IsPlanned
    <3> HIDE DEF m, lat
    <3>3. /\ ReadsBack(m.curve, m.length, m.earned, m.at[1], m.at[2])
          /\ m.length \in Nat \ {0} /\ m.elapsed \in Nat
      BY <3>1, <3>2, MeasuredReadsBack
    <3>4. PICK num, den : num = m.at[1] /\ den = m.at[2]
      OBVIOUS
    <3>5. ReadsBack(m.curve, m.length, m.earned, num, den)
      BY <3>3, <3>4
    <3>6. /\ den \in Nat \ {0} /\ num \in Nat /\ num <= m.length * den
          /\ \A e \in 1..m.length : num < e * den <=> m.earned < Grain * m.curve[e]
      BY <3>5 DEF ReadsBack
    <3>7. LET n == num \div den
              step == IF n = m.length THEN 0 ELSE m.curve[n + 1] - m.curve[n]
          IN  Grain * (m.curve[n] * den + step * (num - n * den)) = m.earned * den
      BY <3>5 DEF ReadsBack
    <3>8. m.elapsed \in 1..m.length => (IsLate(m) <=> m.earned < Grain * m.curve[m.elapsed])
      BY <3>3, <3>4, <3>6 DEF IsLate
    <3>9. m.elapsed > m.length => IsLate(m)
      <4>1. SUFFICES ASSUME m.elapsed > m.length PROVE num < m.elapsed * den
        BY <3>3, <3>4 DEF IsLate
      <4>2. PICK l \in Nat \ {0}, e \in Nat : l = m.length /\ e = m.elapsed
        BY <3>3
      <4>3. l + 1 <= e /\ num <= l * den
        BY <3>6, <4>1, <4>2
      <4>4. den * (l + 1) <= den * e
        BY <3>6, <4>2, <4>3, ProductGrows
      <4>5. \A c \in Nat, d \in Nat : d * (c + 1) = c * d + d /\ d * c = c * d /\ c * d \in Nat
        OBVIOUS
      <4>6. den * (l + 1) = l * den + den /\ den * e = e * den /\ l * den \in Nat /\ e * den \in Nat
        BY <3>6, <4>2, <4>5
      <4>7. num < e * den
        BY <3>6, <4>3, <4>4, <4>6
      <4> QED BY <4>2, <4>7
    <3>10. 0 <= num
      BY <3>6
    <3> QED BY <3>4, <3>6, <3>7, <3>8, <3>9, <3>10 DEF EarnedOnTheCurve, m
  <2>3. ASSUME Answered("progress") PROVE ProgressTold
    <3>1. answer.result = ProgressReport(request.days, request.tasks, request.baseline,
                                         request.forecast, request.dataDate)
      BY <2>1, <2>3 DEF ReportsToldInv
    <3>2. request.study = "progress" /\ IsRequest(request)
      BY <2>1, <2>3, ToldIsRequest DEF Answered
    <3>3. IsReport(request)
      BY <3>2 DEF IsRequest
    <3>4. PICK report : report = answer.result
      OBVIOUS
    <3>5. LET rows == report.rows
              today == {a \in DOMAIN rows : rows[a].planned[2] = request.dataDate /\ rows[a].finish = None}
          IN  /\ \A a \in DOMAIN rows :
                   rows[a].finish # None /\ rows[a].finishVariance # None /\ rows[a].finishVariance > 0
                     => a \in report.behind
              /\ report.due \subseteq report.behind
              /\ report.behind = {} /\ report.index # None =>
                   report.index[1] + Cardinality(today) = report.index[2]
              /\ report.worst # None =>
                   report.total <= rows[report.worst].finishVariance * Cardinality(Measured(rows))
      BY <3>1, <3>3, <3>4, ReportIsTold
    <3> QED BY <3>4, <3>5 DEF ProgressTold
  <2> QED BY <2>2, <2>3 DEF MeasuresAgree
<1> QED BY <1>1, ReportsAreTold, PTL

-----------------------------------------------------------------------------
\* What the weather takes (weather.py:108-239).

\* The places of count days among n, in the middle of count equal stretches.
ArePlaces(place, n, count) ==
  /\ n \in Nat /\ count \in Nat \ {0} /\ count < n
  /\ \A i \in 0..count - 1 : place[i] = (n * (2 * i + 1)) \div (2 * count)

\* A place is at r or before if and only if its stretch is halfway there; they
\* are places, and no two are one.
LEMMA PlacesAre ==
  ASSUME NEW n, NEW count, NEW place, ArePlaces(place, n, count)
  PROVE  /\ \A i \in 0..count - 1 : place[i] \in 0..n - 1
         /\ \A i, j \in 0..count - 1 : i < j => place[i] < place[j]
         /\ \A i \in 0..count - 1, r \in Int :
              place[i] <= r <=> 2 * (n * i) + n < 2 * (count * (r + 1))
<1>0. n \in Nat /\ count \in Nat /\ count > 0 /\ count < n
  BY DEF ArePlaces
<1>1. PICK h \in Nat \ {0} : h = 2 * count
  BY <1>0
<1>2. ASSUME NEW i \in 0..count - 1, NEW r \in Int
      PROVE  /\ place[i] \in Int /\ n * i \in Int /\ count * (r + 1) \in Int
             /\ place[i] <= r <=> 2 * (n * i) + n < 2 * (count * (r + 1))
  <2>1. PICK p \in Int, x \in Int : p = place[i] /\ x = n * (2 * i + 1)
    <3>1. n * (2 * i + 1) \in Int
      BY <1>0
    <3>2. place[i] = (n * (2 * i + 1)) \div h
      BY <1>1 DEF ArePlaces
    <3> QED BY <3>1, <3>2, <1>1, DivisionIs
  <2>2. h * p <= x /\ x < h * p + h /\ h * p \in Int
    <3>1. p = x \div h
      BY <1>1, <2>1 DEF ArePlaces
    <3>2. h * (x \div h) <= x /\ x < h * (x \div h) + h
      BY <1>1, DivisionIs
    <3>3. h * p \in Int
      BY <1>1
    <3> QED BY <3>1, <3>2, <3>3
  <2>3. \A a, b \in Int : a <= b => h * a \in Int /\ h * b \in Int /\ h * a <= h * b
    BY <1>1, ProductGrows
  <2>4. \A a \in Int : h * (a + 1) = h * a + h /\ h * a \in Int
    BY <1>1
  <2>5. p <= r <=> x < h * (r + 1)
    <3>1. p <= r => h * p <= h * r
      BY <2>3
    <3>2. p > r => h * (r + 1) <= h * p
      <4>1. p > r => r + 1 <= p /\ r + 1 \in Int
        OBVIOUS
      <4> QED BY <4>1, <2>3
    <3>3. h * (r + 1) = h * r + h /\ h * r \in Int
      BY <2>4
    <3> QED BY <2>1, <2>2, <3>1, <3>2, <3>3
  <2>6. x = 2 * (n * i) + n
    BY <1>0, <2>1
  <2>7. h * (r + 1) = 2 * (count * (r + 1))
    <3>1. PICK q \in Int : q = r + 1
      OBVIOUS
    <3>2. h * q = 2 * (count * q)
      BY <1>0, <1>1
    <3> QED BY <3>1, <3>2
  <2>8. n * i \in Int /\ count * (r + 1) \in Int
    BY <1>0
  <2> QED BY <2>1, <2>5, <2>6, <2>7, <2>8
<1>3. ASSUME NEW i \in 0..count - 1 PROVE place[i] \in 0..n - 1
  <2>1. i \in Nat /\ i + 1 <= count
    BY <1>0
  <2>2. n * i \in Nat
    BY <1>0, <2>1
  <2>3. n * i + n <= n * count
    <3>1. n * (i + 1) <= n * count
      BY <1>0, <2>1, ProductGrows
    <3>2. n * (i + 1) = n * i + n
      BY <1>0, <2>1
    <3> QED BY <3>1, <3>2
  <2>4. n * count \in Int /\ count * ((n - 1) + 1) = n * count
    <3>1. (n - 1) + 1 = n
      BY <1>0
    <3>2. count * n = n * count /\ n * count \in Int
      BY <1>0
    <3> QED BY <3>1, <3>2
  <2>5. place[i] <= n - 1
    BY <1>0, <1>2, <2>2, <2>3, <2>4
  <2>6. ~(place[i] <= -1)
    <3>1. count * ((-1) + 1) = 0
      <4>1. (-1) + 1 = 0
        OBVIOUS
      <4>2. count * 0 = 0
        BY <1>0
      <4> QED BY <4>1, <4>2
    <3>2. -1 \in Int
      OBVIOUS
    <3>3. place[i] <= -1 <=> 2 * (n * i) + n < 2 * (count * ((-1) + 1))
      BY <1>2, <3>2
    <3> QED BY <1>0, <2>2, <3>1, <3>3
  <2>7. place[i] \in Int
    BY <1>0, <1>2
  <2> QED BY <1>0, <2>5, <2>6, <2>7
<1>4. ASSUME NEW i \in 0..count - 1, NEW j \in 0..count - 1, i < j PROVE place[i] < place[j]
  <2>1. PICK r \in Int : r = place[i]
    BY <1>0, <1>2
  <2>2. 2 * (n * j) + n >= 2 * (n * i) + n + 2 * n /\ n * i \in Int /\ n * j \in Int
    <3>1. i + 1 <= j /\ i + 1 \in Int /\ j \in Int /\ i \in Int
      BY <1>4
    <3>2. n * (i + 1) <= n * j /\ n * j \in Int
      BY <1>0, <3>1, ProductGrows
    <3>3. n * (i + 1) = n * i + n /\ n * i \in Int
      BY <1>0, <3>1
    <3> QED BY <1>0, <3>2, <3>3
  <2>3. ~(place[i] <= r - 1)
    BY <1>0, <1>2, <2>1
  <2>4. ~(2 * (n * i) + n < 2 * (count * ((r - 1) + 1)))
    BY <1>2, <2>3
  <2>5. (r - 1) + 1 = r /\ count * (r + 1) = count * r + count /\ count * r \in Int
    BY <1>0
  <2>6. ~(2 * (n * j) + n < 2 * (count * (r + 1)))
    BY <1>0, <2>2, <2>4, <2>5
  <2>7. ~(place[j] <= r)
    BY <1>2, <2>6
  <2>8. place[j] \in Int
    BY <1>2
  <2> QED BY <2>1, <2>7, <2>8
<1> QED BY <1>2, <1>3, <1>4

\* As many days stand at the positions given as there are positions.
LEMMA DaysAtPlaces ==
  ASSUME NEW lat, IsLattice(lat), NEW I, IsFiniteSet(I), NEW place,
         \A i \in I : place[i] \in 0..Cardinality(lat) - 1,
         \A i, j \in I : place[i] = place[j] => i = j,
         NEW D, \A d : d \in D <=> d \in lat /\ \E i \in I : BisectLeft(lat, d) = place[i]
  PROVE  IsFiniteSet(D) /\ Cardinality(D) = Cardinality(I)
<1>1. IsFiniteSet(D) /\ D \in SUBSET lat
  <2>1. D \in SUBSET lat
    OBVIOUS
  <2> QED BY <2>1, FS_Subset DEF IsLattice
<1>2. \A i \in I : \E d \in D : BisectLeft(lat, d) = place[i]
  <2>1. SUFFICES ASSUME NEW i \in I PROVE \E d \in D : BisectLeft(lat, d) = place[i]
    OBVIOUS
  <2>2. Cardinality(lat) \in Nat
    BY FS_CardinalityType DEF IsLattice
  <2>3. place[i] \in Nat /\ place[i] < Cardinality(lat)
    <3>1. place[i] \in 0..Cardinality(lat) - 1
      OBVIOUS
    <3> QED BY <2>2, <3>1
  <2>4. PICK j \in Int : BisectLeft(lat, j) = Cardinality(lat)
    <3>1. lat # {}
      BY <2>3, FS_EmptySet
    <3>2. PICK g \in lat : \A w \in lat : w <= g
      BY <3>1, HasGreatest DEF IsLattice
    <3>3. \A w \in lat : w \in Int
      BY DEF IsLattice
    <3>4. g + 1 \in Int /\ \A w \in lat : w < g + 1
      BY <3>2, <3>3
    <3>5. DaysBefore(lat, g + 1) = lat
      BY <3>4 DEF DaysBefore
    <3> QED BY <3>4, <3>5 DEF BisectLeft
  <2>5. PICK d \in lat : BisectLeft(lat, d) = place[i]
    BY <2>3, <2>4, PositionsHaveNoGaps
  <2> QED BY <2>5
<1> DEFINE f == [i \in I |-> CHOOSE d \in D : BisectLeft(lat, d) = place[i]]
<1>3. \A i \in I : f[i] \in D /\ BisectLeft(lat, f[i]) = place[i]
  BY <1>2
<1>4. DOMAIN f = I
  OBVIOUS
<1> HIDE DEF f
<1>5. f \in [I -> D]
  <2>1. f = [i \in I |-> f[i]]
    BY <1>4 DEF f
  <2> QED BY <1>3, <2>1, Zenon
<1>6. \A i, j \in I : f[i] = f[j] => i = j
  BY <1>3
<1>7. \A d \in D : \E i \in I : f[i] = d
  <2>1. SUFFICES ASSUME NEW d \in D PROVE \E i \in I : f[i] = d
    OBVIOUS
  <2>2. PICK i \in I : BisectLeft(lat, d) = place[i]
    OBVIOUS
  <2>3. f[i] \in lat /\ d \in lat /\ BisectLeft(lat, f[i]) = BisectLeft(lat, d)
    BY <1>3, <2>2
  <2> QED BY <2>3, PositionsAreUnique
<1>8. f \in Bijection(I, D)
  BY <1>5, <1>6, <1>7 DEF Bijection, Injection, Surjection, IsInjective
<1> QED BY <1>1, <1>8, FS_Bijection DEF ExistsBijection

\* The numbers that come first of a few.
LEMMA FirstOnes ==
  ASSUME NEW n \in Nat, NEW I \in SUBSET (0..n - 1), \A i \in I, j \in 0..n - 1 : j < i => j \in I
  PROVE  /\ IsFiniteSet(I) /\ Cardinality(I) \in 0..n
         /\ Cardinality(I) > 0 => Cardinality(I) - 1 \in I
         /\ Cardinality(I) < n => Cardinality(I) \notin I
<1>1. IsFiniteSet(I)
  <2>1. IsFiniteSet(0..n - 1)
    <3>1. 0 \in Int /\ n - 1 \in Int
      OBVIOUS
    <3> QED BY <3>1, FS_Interval
  <2> QED BY <2>1, FS_Subset
<1>2. CASE I = {}
  BY <1>1, <1>2, FS_EmptySet
<1>3. CASE I # {}
  <2>1. I \in SUBSET Int
    OBVIOUS
  <2>2. PICK g \in I : \A y \in I : y <= g
    BY <1>1, <1>3, <2>1, HasGreatest
  <2>3. g \in Nat /\ g <= n - 1
    BY <2>2
  <2>4. I = 0..g
    <3>1. \A j \in I : j \in 0..g
      BY <2>2, <2>3
    <3>2. \A j \in 0..g : j \in I
      <4>1. \A j \in 0..g : j \in 0..n - 1 /\ (j < g \/ j = g)
        BY <2>3
      <4> QED BY <2>2, <4>1
    <3> QED BY <3>1, <3>2
  <2>5. Cardinality(0..g) = g + 1
    <3>1. 0 \in Int /\ g \in Int /\ ~(0 > g)
      BY <2>3
    <3>2. Cardinality(0..g) = IF 0 > g THEN 0 ELSE g - 0 + 1
      BY <3>1, FS_Interval
    <3> QED BY <2>3, <3>1, <3>2
  <2>6. Cardinality(I) = g + 1
    BY <2>4, <2>5
  <2> QED BY <1>1, <2>3, <2>4, <2>6
<1> QED BY <1>2, <1>3

\* The days of a calendar up to one of them.
UpTo(s, d) == {x \in s : x <= d}

LEMMA DaysUpTo ==
  ASSUME NEW lat, IsLattice(lat), NEW d \in lat
  PROVE  /\ Cardinality(UpTo(lat, d)) = BisectLeft(lat, d) + 1
         /\ \A e \in lat : e <= d <=> BisectLeft(lat, e) <= BisectLeft(lat, d)
<1>1. \A e \in lat : e \in Int
  BY DEF IsLattice
<1>2. UpTo(lat, d) = DaysBefore(lat, d + 1)
  <2>1. \A e \in lat : e <= d <=> e < d + 1
    BY <1>1
  <2> QED BY <2>1 DEF UpTo, DaysBefore
<1>3. Cardinality(UpTo(lat, d)) = BisectLeft(lat, d) + 1
  BY <1>2, PastAWorkingDay DEF BisectLeft
<1>4. ASSUME NEW e \in lat PROVE e <= d <=> BisectLeft(lat, e) <= BisectLeft(lat, d)
  <2>1. e <= d => BisectLeft(lat, e) <= BisectLeft(lat, d)
    BY <1>1, PositionsGrow
  <2>2. d < e => BisectLeft(lat, d) < BisectLeft(lat, e)
    BY <1>1, PositionsGrow
  <2>3. BisectLeft(lat, e) \in Nat /\ BisectLeft(lat, d) \in Nat
    BY PositionsCount
  <2> QED BY <1>1, <2>1, <2>2, <2>3
<1> QED BY <1>3, <1>4

\* How far the days lost are ahead of their share, among the days up to one.
IsEven(days, lost, taken, d) ==
  LET n == Cardinality(days)
      skew == 2 * (n * Cardinality(UpTo(lost, d)) - taken * Cardinality(UpTo(days, d)))
  IN  -n <= skew /\ skew <= n

\* Spread, they are never half a day's share ahead or behind.
LEMMA SpreadKeepsUp ==
  ASSUME NEW days, IsLattice(days), NEW count \in Nat \ {0}, count < Cardinality(days),
         NEW lost, lost = Spread(days, count)
  PROVE  /\ lost \subseteq days /\ Cardinality(lost) = count
         /\ \A d \in days : IsEven(days, lost, count, d)
<1>0. PICK n \in Nat : n = Cardinality(days)
  BY FS_CardinalityType DEF IsLattice
<1> DEFINE place == [i \in 0..count - 1 |-> (n * (2 * i + 1)) \div (2 * count)]
<1>1. ArePlaces(place, n, count)
  BY <1>0 DEF ArePlaces
<1>2. \A d : d \in lost <=> d \in days /\ \E i \in 0..count - 1 : BisectLeft(days, d) = place[i]
  <2>1. \A i \in 0..count - 1 : place[i] = (n * (2 * i + 1)) \div (2 * count)
    OBVIOUS
  <2> HIDE DEF place
  <2>2. lost = {d \in days : BisectLeft(days, d) \in
                              {(n * (2 * i + 1)) \div (2 * count) : i \in 0..count - 1}}
    <3>1. ~(count >= n)
      BY <1>0
    <3> QED BY <1>0, <3>1, Zenon DEF Spread
  <2> QED BY <2>1, <2>2, Zenon
<1> HIDE DEF place
<1>3. /\ \A i \in 0..count - 1 : place[i] \in 0..n - 1
      /\ \A i, j \in 0..count - 1 : i < j => place[i] < place[j]
      /\ \A i \in 0..count - 1, r \in Int :
           place[i] <= r <=> 2 * (n * i) + n < 2 * (count * (r + 1))
  BY <1>1, PlacesAre
<1>4. \A i, j \in 0..count - 1 : place[i] = place[j] => i = j
  BY <1>3
<1>5. lost \subseteq days
  BY <1>2
<1>6. Cardinality(lost) = count
  <2>1. IsFiniteSet(0..count - 1) /\ Cardinality(0..count - 1) = count
    <3>1. 0 \in Int /\ count - 1 \in Int /\ ~(0 > count - 1)
      OBVIOUS
    <3>2. Cardinality(0..count - 1) = IF 0 > count - 1 THEN 0 ELSE (count - 1) - 0 + 1
      BY <3>1, FS_Interval
    <3>3. IsFiniteSet(0..count - 1)
      BY <3>1, FS_Interval
    <3> QED BY <3>1, <3>2, <3>3
  <2>2. \A i \in 0..count - 1 : place[i] \in 0..Cardinality(days) - 1
    BY <1>0, <1>3
  <2>3. PICK I : I = 0..count - 1
    OBVIOUS
  <2>4. Cardinality(lost) = Cardinality(I)
    <3>1. IsFiniteSet(I) /\ \A i \in I : place[i] \in 0..Cardinality(days) - 1
      BY <2>1, <2>2, <2>3
    <3>2. /\ \A i, j \in I : place[i] = place[j] => i = j
          /\ \A d : d \in lost <=> d \in days /\ \E i \in I : BisectLeft(days, d) = place[i]
      BY <1>2, <1>4, <2>3
    <3> QED BY <3>1, <3>2, DaysAtPlaces
  <2> QED BY <2>1, <2>3, <2>4
<1>7. ASSUME NEW d \in days PROVE IsEven(days, lost, count, d)
  <2>1. PICK r \in Nat : r = BisectLeft(days, d)
    BY PositionsCount
  <2>2. Cardinality(UpTo(days, d)) = r + 1
    BY <2>1, DaysUpTo
  <2> DEFINE I == {i \in 0..count - 1 : place[i] <= r}
  <2>3. \A i : i \in I <=> i \in 0..count - 1 /\ place[i] <= r
    OBVIOUS
  <2> HIDE DEF I
  <2>4. \A i \in I, j \in 0..count - 1 : j < i => j \in I
    <3>1. SUFFICES ASSUME NEW i \in I, NEW j \in 0..count - 1, j < i PROVE j \in I
      OBVIOUS
    <3>2. place[j] < place[i] /\ place[i] <= r /\ place[i] \in Int /\ place[j] \in Int
      BY <1>0, <1>3, <2>3, <3>1
    <3> QED BY <2>1, <2>3, <3>2
  <2>5. PICK k \in Nat : k = Cardinality(I)
    <3>1. I \in SUBSET (0..count - 1)
      BY <2>3
    <3> QED BY <2>4, <3>1, FirstOnes
  <2>6. /\ IsFiniteSet(I) /\ k <= count
        /\ k > 0 => k - 1 \in I
        /\ k < count => k \notin I
    <3>1. I \in SUBSET (0..count - 1)
      BY <2>3
    <3>2. /\ IsFiniteSet(I) /\ Cardinality(I) \in 0..count
          /\ Cardinality(I) > 0 => Cardinality(I) - 1 \in I
          /\ Cardinality(I) < count => Cardinality(I) \notin I
      BY <2>4, <3>1, FirstOnes
    <3> QED BY <2>5, <3>2
  <2>7. Cardinality(UpTo(lost, d)) = k
    <3>1. \A e : e \in UpTo(lost, d) <=> e \in days /\ \E i \in I : BisectLeft(days, e) = place[i]
      <4>1. \A e : e \in UpTo(lost, d) <=> e \in lost /\ e <= d
        BY DEF UpTo
      <4>2. \A e \in days : e <= d <=> BisectLeft(days, e) <= r
        BY <2>1, DaysUpTo
      <4> QED BY <1>2, <2>3, <4>1, <4>2
    <3>2. \A i \in I : place[i] \in 0..Cardinality(days) - 1
      BY <1>0, <1>3, <2>3
    <3>3. \A i, j \in I : place[i] = place[j] => i = j
      BY <1>4, <2>3
    <3> QED BY <2>5, <2>6, <3>1, <3>2, <3>3, DaysAtPlaces
  <2>8. r < n
    <3>1. Cardinality(UpTo(days, d)) <= Cardinality(days)
      <4>1. UpTo(days, d) \in SUBSET days
        BY DEF UpTo
      <4> QED BY <4>1, FS_Subset DEF IsLattice
    <3> QED BY <1>0, <2>2, <3>1
  <2>9. /\ n * k \in Int /\ count * (r + 1) \in Int /\ count * n \in Int
        /\ n * k = n * (k - 1) + n /\ n * (k - 1) \in Int /\ n * count = count * n
    OBVIOUS
  <2>10. 2 * (n * k - count * (r + 1)) <= n
    <3>1. CASE k = 0
      <4>1. n * k = 0 /\ count * (r + 1) >= 0
        BY <3>1
      <4> QED BY <2>9, <4>1
    <3>2. CASE k > 0
      <4>1. k - 1 \in 0..count - 1 /\ place[k - 1] <= r
        BY <2>3, <2>6, <3>2
      <4>2. 2 * (n * (k - 1)) + n < 2 * (count * (r + 1))
        BY <1>3, <4>1
      <4> QED BY <2>9, <4>2
    <3> QED BY <3>1, <3>2
  <2>11. -n <= 2 * (n * k - count * (r + 1))
    <3>1. CASE k < count
      <4>1. k \in 0..count - 1 /\ ~(place[k] <= r)
        BY <2>3, <2>6, <3>1
      <4>2. ~(2 * (n * k) + n < 2 * (count * (r + 1)))
        BY <1>3, <4>1
      <4> QED BY <2>9, <4>2
    <3>2. CASE k = count
      <4>1. count * (r + 1) <= count * n
        <5>1. r + 1 <= n /\ r + 1 \in Int /\ n \in Int /\ count \in Nat
          BY <2>8
        <5> QED BY <5>1, ProductGrows
      <4>2. n * k = count * n
        BY <2>9, <3>2
      <4> QED BY <2>9, <4>1, <4>2
    <3> QED BY <2>6, <3>1, <3>2
  <2> QED BY <1>0, <2>2, <2>7, <2>10, <2>11 DEF IsEven
<1> QED BY <1>5, <1>6, <1>7

\* So are the days a month loses, whatever number it is to lose.
LEMMA SpreadIsEven ==
  ASSUME NEW days, IsLattice(days), NEW count \in Nat,
         NEW lost, lost = IF count = 0 THEN {} ELSE Spread(days, count)
  PROVE  SpreadEvenly(days, lost, count)
<1>0. PICK n \in Nat : n = Cardinality(days)
  BY FS_CardinalityType DEF IsLattice
<1>1. Min({count, n}) = IF count <= n THEN count ELSE n
  <2>1. {count, n} \in SUBSET Int /\ {count, n} # {} /\ IsFiniteSet({count, n})
    <3>1. IsFiniteSet({count})
      BY FS_Singleton
    <3>2. IsFiniteSet({count} \cup {n})
      BY <3>1, FS_AddElement
    <3>3. {count} \cup {n} = {count, n}
      OBVIOUS
    <3> QED BY <3>2, <3>3
  <2>2. Min({count, n}) \in {count, n} /\ \A x \in {count, n} : Min({count, n}) <= x
    BY <2>1, MinIs
  <2> QED BY <2>2
<1>2. ASSUME NEW taken \in Nat, Min({count, n}) = taken, lost \subseteq days, Cardinality(lost) = taken,
             \A d \in days : IsEven(days, lost, taken, d)
      PROVE  SpreadEvenly(days, lost, count)
  <2>1. \A d \in days : LET upTo(s) == Cardinality({x \in s : x <= d})
                            skew == 2 * (n * upTo(lost) - taken * upTo(days))
                        IN  -n <= skew /\ skew <= n
    BY <1>0, <1>2, Zenon DEF IsEven, UpTo
  <2> QED BY <1>0, <1>2, <2>1, Zenon DEF SpreadEvenly
<1>3. CASE count = 0
  <2>1. lost = {} /\ Cardinality(lost) = 0 /\ Min({count, n}) = 0
    BY <1>0, <1>1, <1>3, FS_EmptySet
  <2>2. ASSUME NEW d \in days PROVE IsEven(days, lost, 0, d)
    <3>1. UpTo(lost, d) = {} /\ Cardinality({}) = 0
      BY <2>1, FS_EmptySet DEF UpTo
    <3>2. PICK u \in Int : u = Cardinality(UpTo(days, d))
      BY DaysUpTo, PositionsCount
    <3>3. -n <= 2 * (n * 0 - 0 * u) /\ 2 * (n * 0 - 0 * u) <= n
      OBVIOUS
    <3>4. Cardinality(UpTo(lost, d)) = 0
      BY <3>1
    <3> QED BY <1>0, <3>2, <3>3, <3>4, Zenon DEF IsEven
  <2>3. lost \subseteq days /\ 0 \in Nat
    BY <2>1
  <2> QED BY <1>2, <2>1, <2>2, <2>3
<1>4. CASE count # 0 /\ count < n
  <2>1. Min({count, n}) = count
    BY <1>1, <1>4
  <2>2. lost = Spread(days, count) /\ count \in Nat \ {0} /\ count < Cardinality(days)
    BY <1>0, <1>4
  <2>3. lost \subseteq days /\ Cardinality(lost) = count /\ \A d \in days : IsEven(days, lost, count, d)
    BY <2>2, SpreadKeepsUp
  <2> QED BY <1>2, <2>1, <2>3
<1>5. CASE count # 0 /\ count >= n
  <2>1. Min({count, n}) = n
    BY <1>1, <1>5
  <2>2. lost = days
    BY <1>0, <1>5 DEF Spread
  <2>3. ASSUME NEW d \in days PROVE IsEven(days, lost, n, d)
    <3>1. Cardinality(UpTo(days, d)) \in Int
      BY DaysUpTo, PositionsCount
    <3>2. PICK u \in Int : u = Cardinality(UpTo(days, d))
      BY <3>1
    <3>3. 2 * (n * u - n * u) = 0
      OBVIOUS
    <3> QED BY <1>0, <2>2, <3>2, <3>3 DEF IsEven
  <2> QED BY <1>0, <1>2, <2>1, <2>2, <2>3
<1> QED BY <1>3, <1>4, <1>5

\* A position past them all.
LEMMA PastTheLast ==
  ASSUME NEW lat, IsLattice(lat)
  PROVE  Cardinality(lat) \in Nat /\ \E j \in Int : BisectLeft(lat, j) = Cardinality(lat)
<1>1. \A w \in lat : w \in Int
  BY DEF IsLattice
<1>2. PICK j \in Int : \A w \in lat : w < j
  <2>1. CASE lat = {}
    BY <2>1
  <2>2. CASE lat # {}
    <3>1. PICK g \in lat : \A w \in lat : w <= g
      BY <2>2, HasGreatest DEF IsLattice
    <3>2. g + 1 \in Int /\ \A w \in lat : w < g + 1
      BY <1>1, <3>1
    <3> QED BY <3>2
  <2> QED BY <2>1, <2>2
<1>3. DaysBefore(lat, j) = lat
  BY <1>2 DEF DaysBefore
<1> QED BY <1>3, FS_CardinalityType DEF BisectLeft, IsLattice

\* The working days from one instant to another.
DaysFrom(lat, i, j) == {w \in lat : i <= w /\ w < j}

LEMMA DaysBetween ==
  ASSUME NEW lat, IsLattice(lat), NEW i \in Int, NEW j \in Int, i <= j
  PROVE  /\ IsFiniteSet(DaysFrom(lat, i, j))
         /\ BisectLeft(lat, j) = BisectLeft(lat, i) + Cardinality(DaysFrom(lat, i, j))
<1>1. IsFiniteSet(DaysFrom(lat, i, j)) /\ IsFiniteSet(DaysBefore(lat, i))
  <2>1. DaysFrom(lat, i, j) \in SUBSET lat /\ DaysBefore(lat, i) \in SUBSET lat
    BY DEF DaysFrom, DaysBefore
  <2> QED BY <2>1, FS_Subset DEF IsLattice
<1>2. \A w \in lat : w \in Int
  BY DEF IsLattice
<1>3. /\ DaysBefore(lat, j) = DaysBefore(lat, i) \cup DaysFrom(lat, i, j)
      /\ DaysBefore(lat, i) \cap DaysFrom(lat, i, j) = {}
  BY <1>2 DEF DaysBefore, DaysFrom
<1>4. Cardinality({}) = 0
  BY FS_EmptySet
<1>5. Cardinality(DaysBefore(lat, i) \cup DaysFrom(lat, i, j))
        = Cardinality(DaysBefore(lat, i)) + Cardinality(DaysFrom(lat, i, j))
            - Cardinality(DaysBefore(lat, i) \cap DaysFrom(lat, i, j))
  BY <1>1, FS_Union
<1>6. Cardinality(DaysBefore(lat, i)) \in Nat /\ Cardinality(DaysFrom(lat, i, j)) \in Nat
  BY <1>1, FS_CardinalityType
<1> QED BY <1>1, <1>3, <1>4, <1>5, <1>6 DEF BisectLeft

\* A window has the days some work takes from an instant on.
HasDays(lat, i, d) ==
  AtOrAfter(lat, i) # {} /\ d <= Cardinality(AtOrAfter(lat, i))

\* Then the work starts on a working day, and its days are counted off there.
LEMMA WorkIsDone ==
  ASSUME NEW lat, IsLattice(lat), NEW i \in Int, NEW d \in Nat, HasDays(lat, i, d),
         NEW s, s = SnapStartForward(lat, i), NEW f, f = FinishFromStart(lat, s, d)
  PROVE  /\ s \in lat /\ s \in Int /\ s >= i /\ f \in Int /\ f >= i
         /\ BisectLeft(lat, f) = BisectLeft(lat, i) + d
         /\ d = 0 => f = s
         /\ d > 0 => \E w \in lat : f = w + 1 /\ w >= s /\ BisectLeft(lat, w) = BisectLeft(lat, i) + (d - 1)
<1>1. \A w \in lat : w \in Int
  BY DEF IsLattice
<1>2. s \in Int /\ s >= i /\ BisectLeft(lat, s) = BisectLeft(lat, i) /\ \A w \in lat : w < s => w < i
  BY SnapForwardMovesForward, SnapSkipsNothing
<1>3. s \in lat
  <2>1. PICK w \in lat : w >= i
    BY DEF HasDays, AtOrAfter
  <2>2. ~(w < s)
    BY <1>1, <1>2, <2>1
  <2>3. s \in lat \/ (\A v \in lat : v < s)
    BY SnapIsSettled
  <2> QED BY <2>2, <2>3
<1>4. BisectLeft(lat, i) \in Nat
  BY PositionsCount
<1>5. CASE d = 0
  BY <1>2, <1>3, <1>4, <1>5 DEF FinishFromStart
<1>6. CASE d > 0
  <2>1. BisectLeft(lat, i) + d <= Cardinality(lat)
    <3>1. PICK j \in Int : BisectLeft(lat, j) = Cardinality(lat)
      BY PastTheLast
    <3>2. PICK a : a = AtOrAfter(lat, i)
      OBVIOUS
    <3>3. a \in SUBSET lat /\ DaysBefore(lat, i) \in SUBSET lat
      BY <3>2 DEF AtOrAfter, DaysBefore
    <3>4. IsFiniteSet(a) /\ IsFiniteSet(DaysBefore(lat, i))
      BY <3>3, FS_Subset DEF IsLattice
    <3>5. lat = DaysBefore(lat, i) \cup a /\ DaysBefore(lat, i) \cap a = {}
      BY <1>1, <3>2 DEF DaysBefore, AtOrAfter
    <3>6. Cardinality(DaysBefore(lat, i) \cup a)
            = Cardinality(DaysBefore(lat, i)) + Cardinality(a) - Cardinality(DaysBefore(lat, i) \cap a)
      BY <3>4, FS_Union
    <3>7. Cardinality({}) = 0 /\ Cardinality(a) \in Nat /\ d <= Cardinality(a)
      BY <3>2, <3>4, FS_EmptySet, FS_CardinalityType DEF HasDays
    <3>8. Cardinality(lat) = BisectLeft(lat, i) + Cardinality(a)
      <4>1. Cardinality(lat) = Cardinality(DaysBefore(lat, i) \cup a)
        BY <3>5, Zenon
      <4>2. Cardinality(DaysBefore(lat, i) \cap a) = 0
        BY <3>5, <3>7, Zenon
      <4>3. Cardinality(DaysBefore(lat, i)) = BisectLeft(lat, i)
        BY DEF BisectLeft
      <4> QED BY <1>4, <3>6, <3>7, <4>1, <4>2, <4>3
    <3> QED BY <1>4, <3>7, <3>8
  <2>2. PICK n \in Nat : n = BisectLeft(lat, i) + (d - 1)
    BY <1>4, <1>6
  <2>3. PICK w \in lat : BisectLeft(lat, w) = n
    <3>1. PICK j \in Int : BisectLeft(lat, j) = Cardinality(lat)
      BY PastTheLast
    <3>2. n < BisectLeft(lat, j)
      BY <1>4, <2>1, <2>2, <3>1, PastTheLast
    <3> QED BY <3>2, PositionsHaveNoGaps
  <2>4. Lands(lat, s, d - 1) /\ d - 1 \in Int
    BY <1>2, <2>2, <2>3 DEF Lands, IsDaysFrom
  <2>5. PICK v \in lat : v = AddWorkingDays(lat, s, d - 1)
    BY <2>4, AddLands
  <2>6. BisectLeft(lat, v) = BisectLeft(lat, i) + (d - 1)
    <3>1. BisectLeft(lat, AddWorkingDays(lat, s, d - 1)) = BisectLeft(lat, s) + (d - 1)
      BY <2>4, AddLands
    <3> QED BY <1>2, <2>5, <3>1
  <2>7. v >= s
    <3>1. d - 1 >= 0
      BY <1>6
    <3> QED BY <1>2, <2>4, <2>5, <3>1, AddingMovesForward
  <2>8. f = v + 1
    <3>1. SnapStartForward(lat, s) = s
      BY <1>3, WorkingInstantsStay
    <3>2. d # 0
      BY <1>6
    <3> QED BY <2>5, <3>1, <3>2 DEF FinishFromStart
  <2>9. BisectLeft(lat, v + 1) = BisectLeft(lat, v) + 1
    BY PastAWorkingDay
  <2> QED BY <1>1, <1>2, <1>3, <1>4, <1>6, <2>5, <2>6, <2>7, <2>8, <2>9
<1> QED BY <1>5, <1>6

\* With fewer working days the same work is done no earlier.
LEMMA FewerDaysFinishLater ==
  ASSUME NEW dry, IsLattice(dry), NEW wet, IsLattice(wet), wet \subseteq dry,
         NEW i \in Int, NEW j \in Int, i <= j, NEW d \in Nat, HasDays(dry, i, d), HasDays(wet, j, d),
         NEW f, f = FinishFromStart(dry, SnapStartForward(dry, i), d),
         NEW g, g = FinishFromStart(wet, SnapStartForward(wet, j), d)
  PROVE  f \in Int /\ g \in Int /\ f <= g
<1>1. PICK s \in dry, t \in wet : s = SnapStartForward(dry, i) /\ t = SnapStartForward(wet, j)
  BY WorkIsDone
<1>2. /\ s \in Int /\ f \in Int
      /\ d = 0 => f = s
      /\ d > 0 => \E w \in dry : f = w + 1 /\ w >= s /\ BisectLeft(dry, w) = BisectLeft(dry, i) + (d - 1)
  BY <1>1, WorkIsDone
<1>3. /\ t \in Int /\ t >= j /\ g \in Int
      /\ d = 0 => g = t
      /\ d > 0 => \E w \in wet : g = w + 1 /\ w >= t /\ BisectLeft(wet, w) = BisectLeft(wet, j) + (d - 1)
  BY <1>1, WorkIsDone
<1>4. CASE d = 0
  <2>1. ~(t < s)
    BY <1>1, <1>3, SnapSkipsNothing
  <2> QED BY <1>2, <1>3, <1>4, <2>1
<1>5. CASE d > 0
  <2>1. PICK v \in dry : f = v + 1 /\ BisectLeft(dry, v) = BisectLeft(dry, i) + (d - 1)
    BY <1>2, <1>5
  <2>2. PICK w \in wet : g = w + 1 /\ w >= t /\ BisectLeft(wet, w) = BisectLeft(wet, j) + (d - 1)
    BY <1>3, <1>5
  <2>3. v \in Int /\ w \in Int /\ j <= w /\ w \in dry /\ i <= w
    BY <1>3, <2>2 DEF IsLattice
  <2>4. /\ BisectLeft(wet, w) = BisectLeft(wet, j) + Cardinality(DaysFrom(wet, j, w))
        /\ BisectLeft(dry, w) = BisectLeft(dry, i) + Cardinality(DaysFrom(dry, i, w))
        /\ IsFiniteSet(DaysFrom(dry, i, w))
    BY <2>3, DaysBetween
  <2>5. Cardinality(DaysFrom(wet, j, w)) <= Cardinality(DaysFrom(dry, i, w))
    <3>1. DaysFrom(wet, j, w) \in SUBSET DaysFrom(dry, i, w)
      <4>1. \A x \in wet : x \in Int /\ x \in dry
        BY DEF IsLattice
      <4> QED BY <4>1 DEF DaysFrom
    <3> QED BY <2>4, <3>1, FS_Subset
  <2>6. /\ BisectLeft(wet, j) \in Nat /\ BisectLeft(dry, i) \in Nat /\ BisectLeft(dry, v) \in Nat
        /\ Cardinality(DaysFrom(dry, i, w)) \in Nat /\ Cardinality(DaysFrom(wet, j, w)) \in Nat
    <3>1. IsFiniteSet(DaysFrom(wet, j, w))
      BY <2>3, DaysBetween
    <3> QED BY <2>4, <3>1, PositionsCount, FS_CardinalityType
  <2>7. BisectLeft(dry, w) >= BisectLeft(dry, v)
    BY <2>1, <2>2, <2>4, <2>5, <2>6
  <2>8. w >= v
    BY <2>3, <2>7, PositionsDecide
  <2> QED BY <1>2, <1>3, <2>1, <2>2, <2>3, <2>8
<1> QED BY <1>4, <1>5

\* The lattice of the calendar the n-th work is done on.
LatticeFor(patterns, work, from, horizon, n) ==
  LatticeOf(patterns[work[n].cal], DaysOfWeek, from, horizon)

\* When the n-th is finished, the one before it finished on a day.
FinishedFrom(patterns, work, from, horizon, n, day) ==
  FinishFromStart(LatticeFor(patterns, work, from, horizon, n),
                  SnapStartForward(LatticeFor(patterns, work, from, horizon, n), day), work[n].dur)

\* Each is finished after the one before it.
AreInTurn(patterns, work, N, from, horizon, f) ==
  /\ f[0] = from
  /\ \A n \in 1..N : f[n] = FinishedFrom(patterns, work, from, horizon, n, f[n - 1])

\* Work is done in turn.  Among the lengths for which there are no such finishes
\* there would be a least one, and one more finish could be told from those before.
LEMMA DoneInTurn ==
  ASSUME NEW patterns, NEW work, NEW N \in Nat, Len(work) = N, NEW from, NEW horizon,
         NEW f, f = FinishesOfWork(patterns, work, from, horizon)
  PROVE  AreInTurn(patterns, work, N, from, horizon, f)
<1> DEFINE G(n, day) == FinishedFrom(patterns, work, from, horizon, n, day)
           Runs(k, g) == g = [n \in 0..k |-> IF n = 0 THEN from ELSE G(n, g[n - 1])]
           B == {k \in 0..N : ~\E g : Runs(k, g)}
<1>1. ASSUME B # {} PROVE FALSE
  <2>1. B \in SUBSET Int /\ IsFiniteSet(B)
    <3>1. B \in SUBSET (0..N)
      OBVIOUS
    <3>2. IsFiniteSet(0..N)
      <4>1. 0 \in Int /\ N \in Int
        OBVIOUS
      <4> QED BY <4>1, FS_Interval
    <3> HIDE DEF B
    <3>3. IsFiniteSet(B)
      BY <3>1, <3>2, FS_Subset
    <3>4. B \in SUBSET Int
      BY <3>1
    <3> QED BY <3>3, <3>4
  <2>2. PICK k \in B : \A m \in B : k <= m
    <3> HIDE DEF B
    <3> QED BY <1>1, <2>1, HasLeast
  <2>3. k \in 0..N /\ ~\E g : Runs(k, g)
    BY <2>2
  <2> HIDE DEF G
  <2>4. CASE k = 0
    <3> DEFINE g == [n \in 0..0 |-> from]
    <3>1. Runs(0, g)
      <4>1. \A n \in 0..0 : n = 0
        OBVIOUS
      <4> QED BY <4>1
    <3> QED BY <2>3, <2>4, <3>1
  <2>5. CASE k # 0
    <3>1. k \in Nat /\ k - 1 \in 0..N /\ k - 1 \in Nat /\ ~(k <= k - 1)
      BY <2>3, <2>5
    <3>2. k - 1 \notin B
      <4> HIDE DEF B
      <4> QED BY <2>2, <3>1
    <3>3. PICK g : Runs(k - 1, g)
      BY <3>1, <3>2
    <3> DEFINE last == G(k, g[k - 1])
               h == [n \in 0..k |-> IF n = k THEN last ELSE g[n]]
    <3>4. \A n \in 0..k - 1 : g[n] = IF n = 0 THEN from ELSE G(n, g[n - 1])
      BY <3>3
    <3>5. \A n \in 0..k : h[n] = IF n = 0 THEN from ELSE G(n, h[n - 1])
      <4>1. SUFFICES ASSUME NEW n \in 0..k PROVE h[n] = IF n = 0 THEN from ELSE G(n, h[n - 1])
        OBVIOUS
      <4>2. CASE n = k
        <5>1. n # 0 /\ k - 1 \in 0..k /\ k - 1 # k /\ n - 1 = k - 1
          BY <3>1, <4>2, <2>5
        <5>2. h[n - 1] = g[k - 1] /\ h[n] = G(k, g[k - 1])
          BY <4>2, <5>1
        <5> QED BY <4>2, <5>1, <5>2
      <4>3. CASE n # k
        <5>1. n \in 0..k - 1 /\ (n # 0 => n - 1 \in 0..k /\ n - 1 # k)
          BY <3>1, <4>3
        <5>2. h[n] = g[n] /\ (n # 0 => h[n - 1] = g[n - 1])
          BY <4>3, <5>1
        <5> QED BY <3>4, <5>1, <5>2
      <4> QED BY <4>2, <4>3
    <3>6. DOMAIN h = 0..k /\ h = [n \in 0..k |-> h[n]]
      OBVIOUS
    <3> HIDE DEF h
    <3>7. Runs(k, h)
      BY <3>5, <3>6
    <3> QED BY <2>3, <3>7
  <2> QED BY <2>4, <2>5
<1>2. \E g : Runs(N, g)
  <2>1. N \in 0..N
    OBVIOUS
  <2> QED BY <1>1, <2>1
<1>3. PICK h : h = (CHOOSE g : Runs(N, g))
  OBVIOUS
<1>4. Runs(N, h)
  <2> HIDE DEF Runs
  <2> QED BY <1>2, <1>3, Zenon
<1>5. f = h
  BY <1>3, Zenon DEF FinishesOfWork, FinishedFrom, LatticeFor
<1> HIDE DEF G
<1>6. \A n \in 0..N : h[n] = IF n = 0 THEN from ELSE G(n, h[n - 1])
  BY <1>4
<1>7. 0 \in 0..N /\ \A n \in 1..N : n \in 0..N /\ n # 0
  OBVIOUS
<1>8. /\ f[0] = from
      /\ \A n \in 1..N : f[n] = FinishedFrom(patterns, work, from, horizon, n, f[n - 1])
  BY <1>5, <1>6, <1>7 DEF G
<1> QED BY <1>8, Zenon DEF AreInTurn

\* Work that its window has the days for.
IsWork(patterns, work, N, from, horizon) ==
  /\ N \in Nat /\ Len(work) = N /\ DOMAIN work = 1..N
  /\ from \in Int /\ horizon \in Int
  /\ \A n \in 1..N : work[n].dur \in Nat
  /\ WindowHolds(patterns, work, from, horizon)

LEMMA WorkHasItsDays ==
  ASSUME NEW patterns, NEW work, NEW N, NEW from, NEW horizon,
         IsWork(patterns, work, N, from, horizon),
         NEW f, f = FinishesOfWork(patterns, work, from, horizon)
  PROVE  /\ f[0] = from
         /\ \A n \in 1..N :
              /\ work[n].dur \in Nat
              /\ f[n] = FinishedFrom(patterns, work, from, horizon, n, f[n - 1])
              /\ IsLattice(LatticeFor(patterns, work, from, horizon, n))
              /\ HasDays(LatticeFor(patterns, work, from, horizon, n), f[n - 1], work[n].dur)
         /\ \A n \in 0..N : f[n] \in Int
<1>0. /\ N \in Nat /\ Len(work) = N /\ DOMAIN work = 1..N /\ from \in Int /\ horizon \in Int
      /\ \A n \in 1..N : work[n].dur \in Nat
      /\ WindowHolds(patterns, work, from, horizon)
  BY DEF IsWork
<1>1. /\ f[0] = from
      /\ \A n \in 1..N : f[n] = FinishedFrom(patterns, work, from, horizon, n, f[n - 1])
  <2>1. N \in Nat /\ Len(work) = N
    BY <1>0
  <2>2. AreInTurn(patterns, work, N, from, horizon, f)
    BY <2>1, DoneInTurn
  <2> QED BY <2>2, Zenon DEF AreInTurn
<1>2. ASSUME NEW n \in 1..N PROVE IsLattice(LatticeFor(patterns, work, from, horizon, n))
  <2>1. IsFiniteSet(from..horizon)
    BY <1>0, FS_Interval
  <2>2. LatticeFor(patterns, work, from, horizon, n) \in SUBSET (from..horizon)
    BY DEF LatticeFor, LatticeOf
  <2>3. from..horizon \in SUBSET Int
    BY <1>0
  <2> QED BY <2>1, <2>2, <2>3, FS_Subset DEF IsLattice
<1>3. \A n \in 1..N : HasDays(LatticeFor(patterns, work, from, horizon, n), f[n - 1], work[n].dur)
  BY <1>0, Zenon DEF WindowHolds, HasDays, LatticeFor
<1>4. \A n \in 0..N : f[n] \in Int
  <2> DEFINE B == {n \in 0..N : f[n] \notin Int}
  <2>1. ASSUME B # {} PROVE FALSE
    <3>1. B \in SUBSET Int /\ IsFiniteSet(B)
      <4>1. B \in SUBSET (0..N)
        OBVIOUS
      <4>2. IsFiniteSet(0..N)
        <5>1. 0 \in Int /\ N \in Int
          BY <1>0
        <5> QED BY <5>1, FS_Interval
      <4> HIDE DEF B
      <4>3. IsFiniteSet(B)
        BY <4>1, <4>2, FS_Subset
      <4>4. B \in SUBSET Int
        BY <4>1
      <4> QED BY <4>3, <4>4
    <3>2. PICK n \in B : \A m \in B : n <= m
      <4> HIDE DEF B
      <4> QED BY <2>1, <3>1, HasLeast
    <3>3. n \in 0..N /\ f[n] \notin Int
      BY <3>2
    <3>4. n # 0
      BY <1>0, <1>1, <3>3
    <3>5. n \in 1..N /\ n - 1 \in 0..N /\ ~(n <= n - 1)
      BY <1>0, <3>3, <3>4
    <3>6. n - 1 \notin B
      <4> HIDE DEF B
      <4> QED BY <3>2, <3>5
    <3>7. f[n - 1] \in Int
      BY <3>5, <3>6
    <3>8. PICK day, lat, d :
            /\ day = f[n - 1] /\ lat = LatticeFor(patterns, work, from, horizon, n) /\ d = work[n].dur
      OBVIOUS
    <3>9. day \in Int /\ d \in Nat /\ IsLattice(lat) /\ HasDays(lat, day, d)
      BY <1>0, <1>2, <1>3, <3>5, <3>7, <3>8
    <3>10. FinishFromStart(lat, SnapStartForward(lat, day), d) \in Int
      BY <3>8, <3>9, WorkIsDone
    <3>11. f[n] = FinishFromStart(lat, SnapStartForward(lat, day), d)
      BY <1>1, <3>5, <3>8, Zenon DEF FinishedFrom
    <3> QED BY <3>3, <3>10, <3>11
  <2> QED BY <2>1
<1> QED BY <1>0, <1>1, <1>2, <1>3, <1>4

\* Work done on calendars that work fewer days finishes no earlier, and on one
\* calendar it takes as many of the days that are left.
LEMMA WetWorkIsLater ==
  ASSUME NEW dry, NEW wet, NEW work, NEW N, NEW from, NEW horizon,
         IsWork(dry, work, N, from, horizon), IsWork(wet, work, N, from, horizon),
         \A n \in 1..N : LatticeFor(wet, work, from, horizon, n) \subseteq LatticeFor(dry, work, from, horizon, n),
         NEW f, f = FinishesOfWork(dry, work, from, horizon),
         NEW g, g = FinishesOfWork(wet, work, from, horizon)
  PROVE  \A n \in 0..N :
           /\ f[n] \in Int /\ g[n] \in Int /\ f[n] <= g[n]
           /\ \A L, W : (\A m \in 1..N : /\ LatticeFor(dry, work, from, horizon, m) = L
                                         /\ LatticeFor(wet, work, from, horizon, m) = W)
                          /\ BisectLeft(L, from) = 0 /\ BisectLeft(W, from) = 0
                        => BisectLeft(L, f[n]) = BisectLeft(W, g[n])
<1>0. N \in Nat /\ from \in Int
  BY DEF IsWork
<1>1. /\ f[0] = from
      /\ \A n \in 1..N :
           /\ work[n].dur \in Nat
           /\ f[n] = FinishedFrom(dry, work, from, horizon, n, f[n - 1])
           /\ IsLattice(LatticeFor(dry, work, from, horizon, n))
           /\ HasDays(LatticeFor(dry, work, from, horizon, n), f[n - 1], work[n].dur)
      /\ \A n \in 0..N : f[n] \in Int
  BY WorkHasItsDays
<1>2. /\ g[0] = from
      /\ \A n \in 1..N :
           /\ g[n] = FinishedFrom(wet, work, from, horizon, n, g[n - 1])
           /\ IsLattice(LatticeFor(wet, work, from, horizon, n))
           /\ HasDays(LatticeFor(wet, work, from, horizon, n), g[n - 1], work[n].dur)
      /\ \A n \in 0..N : g[n] \in Int
  BY WorkHasItsDays
<1> DEFINE Same(L, W) == /\ \A m \in 1..N : /\ LatticeFor(dry, work, from, horizon, m) = L
                                            /\ LatticeFor(wet, work, from, horizon, m) = W
                         /\ BisectLeft(L, from) = 0 /\ BisectLeft(W, from) = 0
           Fine(n) == /\ f[n] <= g[n]
                      /\ \A L, W : Same(L, W) => BisectLeft(L, f[n]) = BisectLeft(W, g[n])
           B == {n \in 0..N : ~Fine(n)}
<1>3. ASSUME NEW n \in 1..N, Fine(n - 1) PROVE Fine(n)
  <2>1. n - 1 \in 0..N
    BY <1>0
  <2>2. PICK i, j : i = f[n - 1] /\ j = g[n - 1]
    OBVIOUS
  <2>3. PICK dl, wl : /\ dl = LatticeFor(dry, work, from, horizon, n)
                      /\ wl = LatticeFor(wet, work, from, horizon, n)
    OBVIOUS
  <2>4. PICK d : d = work[n].dur
    OBVIOUS
  <2>5. /\ i \in Int /\ j \in Int /\ i <= j /\ d \in Nat
        /\ IsLattice(dl) /\ IsLattice(wl) /\ wl \subseteq dl
        /\ HasDays(dl, i, d) /\ HasDays(wl, j, d)
    BY <1>1, <1>2, <1>3, <2>1, <2>2, <2>3, <2>4
  <2>6. /\ f[n] = FinishFromStart(dl, SnapStartForward(dl, i), d)
        /\ g[n] = FinishFromStart(wl, SnapStartForward(wl, j), d)
    BY <1>1, <1>2, <2>2, <2>3, <2>4, Zenon DEF FinishedFrom
  <2>7. f[n] <= g[n]
    BY <2>5, <2>6, FewerDaysFinishLater
  <2>8. ASSUME NEW L, NEW W, Same(L, W) PROVE BisectLeft(L, f[n]) = BisectLeft(W, g[n])
    <3>1. dl = L /\ wl = W
      BY <2>3, <2>8
    <3>2. BisectLeft(L, i) = BisectLeft(W, j)
      BY <1>3, <2>2, <2>8
    <3>3. BisectLeft(dl, f[n]) = BisectLeft(dl, i) + d
      BY <2>5, <2>6, WorkIsDone
    <3>4. BisectLeft(wl, g[n]) = BisectLeft(wl, j) + d
      BY <2>5, <2>6, WorkIsDone
    <3> QED BY <3>1, <3>2, <3>3, <3>4
  <2> QED BY <2>7, <2>8
<1>4. Fine(0)
  BY <1>0, <1>1, <1>2
<1>5. ASSUME B # {} PROVE FALSE
  <2>1. B \in SUBSET Int /\ IsFiniteSet(B)
    <3>1. B \in SUBSET (0..N)
      OBVIOUS
    <3>2. IsFiniteSet(0..N)
      <4>1. 0 \in Int /\ N \in Int
        BY <1>0
      <4> QED BY <4>1, FS_Interval
    <3> HIDE DEF B
    <3>3. IsFiniteSet(B)
      BY <3>1, <3>2, FS_Subset
    <3>4. B \in SUBSET Int
      BY <3>1
    <3> QED BY <3>3, <3>4
  <2>2. PICK n \in B : \A m \in B : n <= m
    <3> HIDE DEF B
    <3> QED BY <1>5, <2>1, HasLeast
  <2>3. n \in 0..N /\ ~Fine(n)
    BY <2>2
  <2> HIDE DEF Fine
  <2>4. n # 0
    BY <1>4, <2>3
  <2>5. n \in 1..N /\ n - 1 \in 0..N /\ ~(n <= n - 1)
    BY <1>0, <2>3, <2>4
  <2>6. n - 1 \notin B
    <3> HIDE DEF B
    <3> QED BY <2>2, <2>5
  <2>7. Fine(n - 1)
    BY <2>5, <2>6
  <2> QED BY <1>3, <2>3, <2>5, <2>7
<1> HIDE DEF Same
<1>6. \A n \in 0..N : Fine(n)
  <2> HIDE DEF Fine
  <2> QED BY <1>5
<1> QED BY <1>1, <1>2, <1>6 DEF Same

\* The days between two dates on a calendar are those that stay and those lost.
LEMMA LostDaysBetween ==
  ASSUME NEW L, IsLattice(L), NEW W, IsLattice(W), W \subseteq L, NEW f, NEW g,
         BisectLeft(L, f) = BisectLeft(W, g)
  PROVE  CountWorkingDays(L, f, g) = Cardinality({d \in L \ W : d < g})
<1> DEFINE lost == {d \in L \ W : d < g}
<1>1. /\ DaysBefore(L, g) = DaysBefore(W, g) \cup lost /\ DaysBefore(W, g) \cap lost = {}
      /\ lost \in SUBSET L /\ DaysBefore(W, g) \in SUBSET W
  BY DEF DaysBefore
<1> HIDE DEF lost
<1>2. IsFiniteSet(lost) /\ IsFiniteSet(DaysBefore(W, g))
  BY <1>1, FS_Subset DEF IsLattice
<1>3. Cardinality(DaysBefore(W, g) \cup lost)
        = Cardinality(DaysBefore(W, g)) + Cardinality(lost) - Cardinality(DaysBefore(W, g) \cap lost)
  BY <1>2, FS_Union
<1>4. Cardinality(DaysBefore(W, g) \cap lost) = 0
  BY <1>1, FS_EmptySet, Zenon
<1>5. Cardinality(lost) \in Nat /\ BisectLeft(W, g) \in Nat
  BY <1>2, PositionsCount, FS_CardinalityType
<1>6. BisectLeft(L, g) = BisectLeft(W, g) + Cardinality(lost)
  <2>1. Cardinality(DaysBefore(L, g)) = Cardinality(DaysBefore(W, g) \cup lost)
    BY <1>1, Zenon
  <2>2. BisectLeft(W, g) = Cardinality(DaysBefore(W, g)) /\ BisectLeft(L, g) = Cardinality(DaysBefore(L, g))
    BY DEF BisectLeft
  <2> QED BY <1>3, <1>4, <1>5, <2>1, <2>2
<1>7. BisectLeft(L, g) - BisectLeft(L, f) = Cardinality(lost)
  BY <1>5, <1>6
<1> QED BY <1>7, Zenon DEF CountWorkingDays, lost

\* A calendar with an allowance works fewer days, and is as it was without it.
LEMMA AllowanceComesOff ==
  ASSUME NEW before, HasNoAllowance(before), NEW after,
         after = before \/ \E allowance, s, e : after = ApplyAllowance(before, allowance, s, e)
  PROVE  /\ WithoutAllowance(after) = before
         /\ \A weekLength, lo, hi : LatticeOf(WorkCalendarOf(after), weekLength, lo, hi)
                                      \subseteq LatticeOf(WorkCalendarOf(before), weekLength, lo, hi)
<1>1. before = [weekdays |-> before.weekdays, holidays |-> before.holidays, extra |-> before.extra,
                weather |-> {}]
  BY DEF HasNoAllowance
<1>2. PICK w, h, x : before = [weekdays |-> w, holidays |-> h, extra |-> x, weather |-> {}]
  BY <1>1
<1>3. PICK lost : after = [weekdays |-> w, holidays |-> h, extra |-> x, weather |-> lost]
  <2>1. CASE after = before
    BY <1>2, <2>1
  <2>2. CASE after # before
    <3>1. PICK allowance, s, e : after = ApplyAllowance(before, allowance, s, e)
      BY <2>2
    <3>2. after = [before EXCEPT !.weather = @ \cup LostDays(before, allowance, s, e)]
      BY <3>1 DEF ApplyAllowance
    <3> QED BY <1>2, <3>2
  <2> QED BY <2>1, <2>2
<1>4. WithoutAllowance(after) = before
  <2>1. WithoutAllowance(after) = [after EXCEPT !.weather = {}]
    BY DEF WithoutAllowance
  <2> QED BY <1>2, <1>3, <2>1
<1>5. /\ WorkCalendarOf(after) = [weekdays |-> w, holidays |-> h \cup lost, extra |-> x]
      /\ WorkCalendarOf(before) = [weekdays |-> w, holidays |-> h \cup {}, extra |-> x]
  BY <1>2, <1>3 DEF WorkCalendarOf
<1>6. \A weekLength, i : Covers(WorkCalendarOf(after), weekLength, i)
                           => Covers(WorkCalendarOf(before), weekLength, i)
  BY <1>5 DEF Covers
<1>7. \A weekLength, lo, hi : LatticeOf(WorkCalendarOf(after), weekLength, lo, hi)
                                \subseteq LatticeOf(WorkCalendarOf(before), weekLength, lo, hi)
  BY <1>6 DEF LatticeOf
<1> QED BY <1>4, <1>7

\* The days of a month, and those it loses.
MonthDays(s, e, m) == {d \in s..e : MonthOf(d) = m}

LostIn(c, allowance, s, e, m) ==
  IF allowance.lost[m % YearLength] = 0 THEN {}
  ELSE Spread(WorkingDays(c, MonthDays(s, e, m)), allowance.lost[m % YearLength])

\* Each month loses its own.
LEMMA LostByMonth ==
  ASSUME NEW c, NEW allowance, NEW s \in Int, NEW e \in Int
  PROVE  /\ LostDays(c, allowance, s, e) \subseteq s..e
         /\ \A m \in MonthOf(s)..MonthOf(e) :
              {d \in LostDays(c, allowance, s, e) : MonthOf(d) = m} = LostIn(c, allowance, s, e, m)
<1>1. \A m : LostIn(c, allowance, s, e, m) \subseteq MonthDays(s, e, m)
  <2>1. SUFFICES ASSUME NEW m PROVE LostIn(c, allowance, s, e, m) \subseteq MonthDays(s, e, m)
    OBVIOUS
  <2>2. \A count, days : Spread(days, count) \subseteq days
    BY DEF Spread
  <2>3. WorkingDays(c, MonthDays(s, e, m)) \subseteq MonthDays(s, e, m)
    BY DEF WorkingDays
  <2>4. CASE allowance.lost[m % YearLength] = 0
    BY <2>4 DEF LostIn
  <2>5. CASE allowance.lost[m % YearLength] # 0
    <3>1. LostIn(c, allowance, s, e, m)
            = Spread(WorkingDays(c, MonthDays(s, e, m)), allowance.lost[m % YearLength])
      BY <2>5, Zenon DEF LostIn
    <3> QED BY <2>2, <2>3, <3>1, Zenon
  <2> QED BY <2>4, <2>5
<1>2. \A d : d \in LostDays(c, allowance, s, e)
               <=> \E m \in MonthOf(s)..MonthOf(e) : d \in LostIn(c, allowance, s, e, m)
  <2>1. LostDays(c, allowance, s, e)
          = UNION {LostIn(c, allowance, s, e, m) : m \in MonthOf(s)..MonthOf(e)}
    BY Zenon DEF LostDays, LostIn, MonthDays
  <2> QED BY <2>1
<1>3. \A m : \A d \in LostIn(c, allowance, s, e, m) : d \in s..e /\ MonthOf(d) = m
  BY <1>1 DEF MonthDays
<1> QED BY <1>2, <1>3

\* The days of a calendar as it is read a month may take are those it works.
LEMMA OfferedAre ==
  ASSUME NEW c, HasNoAllowance(c), NEW m, {request.start, request.finish} \subseteq Int
  PROVE  /\ Offered(c, m) = WorkingDays(c, MonthDays(request.start, request.finish, m))
         /\ IsLattice(Offered(c, m))
<1>1. c.weather = {} /\ WorkCalendarOf(c).weekdays = c.weekdays
      /\ WorkCalendarOf(c).extra = c.extra /\ WorkCalendarOf(c).holidays = c.holidays
  <2>1. PICK w, h, x : c = [weekdays |-> w, holidays |-> h, extra |-> x, weather |-> {}]
    BY DEF HasNoAllowance
  <2> QED BY <2>1 DEF WorkCalendarOf
<1>2. \A d : d \in LatticeOf(WorkCalendarOf(c), DaysOfWeek, request.start, request.finish)
               <=> d \in request.start..request.finish
                   /\ (d \in c.extra \/ (d \notin c.holidays /\ (d % DaysOfWeek) \in c.weekdays))
  BY <1>1 DEF LatticeOf, Covers
<1>3. \A d : d \in WorkingDays(c, MonthDays(request.start, request.finish, m))
               <=> d \in request.start..request.finish /\ MonthOf(d) = m
                   /\ ((d % DaysOfWeek) \in c.weekdays \/ d \in c.extra) /\ d \notin c.holidays
  BY <1>1 DEF WorkingDays, MonthDays
<1>4. \A d : d \in Offered(c, m)
               <=> d \in LatticeOf(WorkCalendarOf(c), DaysOfWeek, request.start, request.finish)
                   /\ d \notin c.holidays /\ MonthOf(d) = m
  BY DEF Offered
<1>5. Offered(c, m) = WorkingDays(c, MonthDays(request.start, request.finish, m))
  BY <1>2, <1>3, <1>4
<1>6. Offered(c, m) \in SUBSET (request.start..request.finish)
  BY <1>2, <1>4
<1>7. request.start..request.finish \in SUBSET Int /\ IsFiniteSet(request.start..request.finish)
  BY FS_Interval
<1> QED BY <1>5, <1>6, <1>7, FS_Subset DEF IsLattice

\* The weather has been allowed for as it was asked.
IsAllowedFor(r) ==
  /\ IsRequest(request) /\ request.study = "weather"
  /\ CanCost(request.calendars, request.allowances, request.start, request.finish,
             request.work, request.dataDate, request.horizon)
  /\ r = WeatherCost(request.calendars, request.allowances, request.start, request.finish,
                     request.work, request.dataDate, request.horizon)

\* What is known of the request then.
LEMMA AllowanceAsked ==
  ASSUME NEW r, IsAllowedFor(r)
  PROVE  /\ request.start \in Int /\ request.finish \in Int
         /\ request.dataDate \in Int /\ request.horizon \in Int
         /\ \A c \in DOMAIN request.calendars : HasNoAllowance(request.calendars[c])
         /\ DOMAIN request.allowances = 1..Len(request.allowances) /\ Len(request.allowances) \in Nat
         /\ \A k \in DOMAIN request.allowances :
              /\ request.allowances[k].cal \in DOMAIN request.calendars
              /\ \A m \in Int : request.allowances[k].lost[m % YearLength] \in Nat
         /\ DOMAIN request.work = 1..Len(request.work) /\ Len(request.work) \in Nat
         /\ \A n \in DOMAIN request.work :
              request.work[n].cal \in DOMAIN request.calendars /\ request.work[n].dur \in Nat
<1>1. /\ {request.start, request.finish, request.dataDate, request.horizon} \subseteq Int
      /\ \A c \in DOMAIN request.calendars : HasNoAllowance(request.calendars[c])
      /\ request.allowances = [k \in 1..Len(request.allowances) |-> request.allowances[k]]
      /\ Len(request.allowances) \in Nat
      /\ \A k \in DOMAIN request.allowances : request.allowances[k].lost \in [0..YearLength - 1 -> Int]
      /\ request.work = [n \in 1..Len(request.work) |-> request.work[n]] /\ Len(request.work) \in Nat
      /\ \A n \in DOMAIN request.work :
           request.work[n].cal \in DOMAIN request.calendars /\ request.work[n].dur \in Nat
  BY DEF IsAllowedFor, IsRequest
<1>2. /\ DOMAIN request.allowances = 1..Len(request.allowances)
      /\ DOMAIN request.work = 1..Len(request.work)
  <2>1. DOMAIN request.allowances = 1..Len(request.allowances)
    <3>1. DOMAIN [k \in 1..Len(request.allowances) |-> request.allowances[k]] = 1..Len(request.allowances)
      OBVIOUS
    <3> QED BY <1>1, <3>1, Zenon
  <2>2. DOMAIN request.work = 1..Len(request.work)
    <3>1. DOMAIN [n \in 1..Len(request.work) |-> request.work[n]] = 1..Len(request.work)
      OBVIOUS
    <3> QED BY <1>1, <3>1, Zenon
  <2> QED BY <2>1, <2>2
<1>3. /\ \A k \in DOMAIN request.allowances : request.allowances[k].cal \in DOMAIN request.calendars
      /\ \A k \in DOMAIN request.allowances :
           \A m \in 0..YearLength - 1 : request.allowances[k].lost[m] >= 0
  BY DEF IsAllowedFor, CanCost, CanApply
<1>4. \A k \in DOMAIN request.allowances : \A m \in Int : request.allowances[k].lost[m % YearLength] \in Nat
  <2>1. SUFFICES ASSUME NEW k \in DOMAIN request.allowances, NEW m \in Int
                 PROVE  request.allowances[k].lost[m % YearLength] \in Nat
    OBVIOUS
  <2>2. m % YearLength \in 0..YearLength - 1
    BY MonthAssumption
  <2>3. request.allowances[k].lost[m % YearLength] \in Int
    BY <1>1, <2>2
  <2> QED BY <1>3, <2>2, <2>3
<1>5. /\ request.start \in Int /\ request.finish \in Int
      /\ request.dataDate \in Int /\ request.horizon \in Int
  BY <1>1
<1> QED BY <1>1, <1>2, <1>3, <1>4, <1>5

\* The calendars as they come back.
LEMMA CalendarsComeBack ==
  ASSUME NEW r, IsAllowedFor(r), NEW c \in DOMAIN request.calendars
  PROVE  /\ WithoutAllowance(r.calendars[c]) = request.calendars[c]
         /\ \A weekLength, lo, hi :
              LatticeOf(WorkCalendarOf(r.calendars[c]), weekLength, lo, hi)
                \subseteq LatticeOf(WorkCalendarOf(request.calendars[c]), weekLength, lo, hi)
<1>1. r.calendars = ApplyToAll(request.calendars, request.allowances,
                               request.start, request.finish).calendars
  BY DEF IsAllowedFor, WeatherCost
<1>2. PICK named : named = {k \in DOMAIN request.allowances : request.allowances[k].cal = c}
  OBVIOUS
<1>3. r.calendars[c] = IF named = {} THEN request.calendars[c]
                       ELSE ApplyAllowance(request.calendars[c], request.allowances[Max(named)],
                                           request.start, request.finish)
  BY <1>1, <1>2 DEF ApplyToAll
<1>4. \/ r.calendars[c] = request.calendars[c]
      \/ \E allowance, s, e : r.calendars[c] = ApplyAllowance(request.calendars[c], allowance, s, e)
  BY <1>3
<1>5. HasNoAllowance(request.calendars[c])
  BY AllowanceAsked
<1> QED BY <1>4, <1>5, AllowanceComesOff

\* The finish moves by the lost days the work meets.
LEMMA FinishMoves ==
  ASSUME NEW r, IsAllowedFor(r)
  PROVE  /\ r.dry <= r.wet
         /\ \A c \in DOMAIN request.calendars :
              (\A n \in DOMAIN request.work : request.work[n].cal = c) =>
                LET L == LatticeOf(WorkCalendarOf(request.calendars[c]), DaysOfWeek,
                                   request.dataDate, request.horizon)
                    W == LatticeOf(WorkCalendarOf(r.calendars[c]), DaysOfWeek,
                                   request.dataDate, request.horizon)
                IN  CountWorkingDays(L, r.dry, r.wet) = Cardinality({d \in L \ W : d < r.wet})
<1> DEFINE work == request.work
           N == Len(request.work)
           from == request.dataDate
           horizon == request.horizon
           dry == Patterns(request.calendars)
           wet == Patterns(r.calendars)
           f == FinishesOfWork(dry, work, from, horizon)
           g == FinishesOfWork(wet, work, from, horizon)
           Worked(c) == LatticeOf(WorkCalendarOf(request.calendars[c]), DaysOfWeek, from, horizon)
           Left(c) == LatticeOf(WorkCalendarOf(r.calendars[c]), DaysOfWeek, from, horizon)
<1>1. /\ from \in Int /\ horizon \in Int /\ N \in Nat /\ DOMAIN work = 1..N
      /\ \A n \in 1..N : work[n].cal \in DOMAIN request.calendars /\ work[n].dur \in Nat
  BY AllowanceAsked
<1>2. /\ r.calendars = ApplyToAll(request.calendars, request.allowances,
                                  request.start, request.finish).calendars
      /\ r.dry = FinishUnder(request.calendars, request.work, request.dataDate, request.horizon)
      /\ r.wet = FinishUnder(r.calendars, request.work, request.dataDate, request.horizon)
  BY DEF IsAllowedFor, WeatherCost
<1>3. r.dry = f[N] /\ r.wet = g[N]
  BY <1>2, Zenon DEF FinishUnder
<1>4. DOMAIN r.calendars = DOMAIN request.calendars
  BY <1>2 DEF ApplyToAll
<1>5. \A c \in DOMAIN request.calendars :
        dry[c] = WorkCalendarOf(request.calendars[c]) /\ wet[c] = WorkCalendarOf(r.calendars[c])
  BY <1>4 DEF Patterns
<1>6. WindowHolds(dry, work, from, horizon) /\ WindowHolds(wet, work, from, horizon)
  BY <1>2, Zenon DEF IsAllowedFor, CanCost
<1> HIDE DEF dry, wet
<1>7. IsWork(dry, work, N, from, horizon) /\ IsWork(wet, work, N, from, horizon)
  BY <1>1, <1>6 DEF IsWork
<1>8. \A n \in 1..N : /\ LatticeFor(dry, work, from, horizon, n) = Worked(work[n].cal)
                      /\ LatticeFor(wet, work, from, horizon, n) = Left(work[n].cal)
  BY <1>1, <1>5, Zenon DEF LatticeFor
<1>9. \A c \in DOMAIN request.calendars : Left(c) \subseteq Worked(c)
  BY CalendarsComeBack
<1>10. \A n \in 1..N :
         LatticeFor(wet, work, from, horizon, n) \subseteq LatticeFor(dry, work, from, horizon, n)
  BY <1>1, <1>8, <1>9
<1> HIDE DEF f, g
<1>11. PICK ff, gg : ff = f /\ gg = g
  OBVIOUS
<1> HIDE DEF Worked, Left
<1>12. \A n \in 0..N :
         /\ ff[n] \in Int /\ gg[n] \in Int /\ ff[n] <= gg[n]
         /\ \A L, W : (\A m \in 1..N : /\ LatticeFor(dry, work, from, horizon, m) = L
                                       /\ LatticeFor(wet, work, from, horizon, m) = W)
                        /\ BisectLeft(L, from) = 0 /\ BisectLeft(W, from) = 0
                      => BisectLeft(L, ff[n]) = BisectLeft(W, gg[n])
  <2>1. ff = FinishesOfWork(dry, work, from, horizon) /\ gg = FinishesOfWork(wet, work, from, horizon)
    BY <1>11 DEF f, g
  <2> HIDE DEF work, N, from, horizon
  <2> QED BY <1>7, <1>10, <2>1, WetWorkIsLater
<1>13. N \in 0..N
  BY <1>1
<1>14. r.dry <= r.wet
  BY <1>3, <1>11, <1>12, <1>13
<1>15. ASSUME NEW c \in DOMAIN request.calendars, \A n \in DOMAIN work : work[n].cal = c
       PROVE  CountWorkingDays(Worked(c), r.dry, r.wet) = Cardinality({d \in Worked(c) \ Left(c) : d < r.wet})
  <2>1. \A n \in 1..N : /\ LatticeFor(dry, work, from, horizon, n) = Worked(c)
                        /\ LatticeFor(wet, work, from, horizon, n) = Left(c)
    BY <1>1, <1>8, <1>15
  <2>2. Worked(c) \in SUBSET (from..horizon) /\ Left(c) \in SUBSET (from..horizon)
    BY DEF Worked, Left, LatticeOf
  <2>3. IsFiniteSet(from..horizon) /\ from..horizon \in SUBSET Int
    BY <1>1, FS_Interval
  <2>4. IsLattice(Worked(c)) /\ IsLattice(Left(c))
    BY <2>2, <2>3, FS_Subset DEF IsLattice
  <2>5. BisectLeft(Worked(c), from) = 0 /\ BisectLeft(Left(c), from) = 0
    <3>1. \A d \in from..horizon : ~(d < from)
      BY <1>1
    <3>2. DaysBefore(Worked(c), from) = {} /\ DaysBefore(Left(c), from) = {}
      BY <2>2, <3>1 DEF DaysBefore
    <3> QED BY <3>2, FS_EmptySet DEF BisectLeft
  <2>6. BisectLeft(Worked(c), ff[N]) = BisectLeft(Left(c), gg[N])
    BY <1>12, <1>13, <2>1, <2>5
  <2>7. Left(c) \subseteq Worked(c)
    BY <1>9
  <2>8. CountWorkingDays(Worked(c), ff[N], gg[N]) = Cardinality({d \in Worked(c) \ Left(c) : d < gg[N]})
    BY <2>4, <2>6, <2>7, LostDaysBetween
  <2> QED BY <1>3, <1>11, <2>8
<1> QED BY <1>14, <1>15 DEF Worked, Left

\* The days a calendar no longer works once an allowance is put into it.
LEMMA LostDaysOf ==
  ASSUME NEW c, HasNoAllowance(c), NEW allowance, NEW s, NEW e, NEW first, NEW last,
         NEW after, after = ApplyAllowance(c, allowance, s, e)
  PROVE  \A d : d \in LostOf(c, after, first, last)
                <=> /\ d \in LatticeOf(WorkCalendarOf(c), DaysOfWeek, first, last)
                    /\ d \in LostDays(c, allowance, s, e) /\ d \notin c.extra
<1>1. PICK lost : lost = LostDays(c, allowance, s, e)
  OBVIOUS
<1>2. PICK w, h, x : c = [weekdays |-> w, holidays |-> h, extra |-> x, weather |-> {}]
  BY DEF HasNoAllowance
<1>3. after = [weekdays |-> w, holidays |-> h, extra |-> x, weather |-> lost]
  <2>1. after = [c EXCEPT !.weather = @ \cup lost]
    BY <1>1 DEF ApplyAllowance
  <2> QED BY <1>2, <2>1
<1>4. /\ WorkCalendarOf(after) = [weekdays |-> w, holidays |-> h \cup lost, extra |-> x]
      /\ WorkCalendarOf(c) = [weekdays |-> w, holidays |-> h \cup {}, extra |-> x]
      /\ c.extra = x
  BY <1>2, <1>3 DEF WorkCalendarOf
<1>5. \A d : Covers(WorkCalendarOf(after), DaysOfWeek, d)
              <=> Covers(WorkCalendarOf(c), DaysOfWeek, d) /\ (d \in x \/ d \notin lost)
  BY <1>4 DEF Covers
<1>6. \A d : d \in LostOf(c, after, first, last)
              <=> /\ d \in LatticeOf(WorkCalendarOf(c), DaysOfWeek, first, last)
                  /\ ~(d \in LatticeOf(WorkCalendarOf(after), DaysOfWeek, first, last))
  BY DEF LostOf
<1>7. \A d : d \in LatticeOf(WorkCalendarOf(after), DaysOfWeek, first, last)
              <=> /\ d \in LatticeOf(WorkCalendarOf(c), DaysOfWeek, first, last)
                  /\ d \in x \/ d \notin lost
  BY <1>5 DEF LatticeOf
<1> QED BY <1>1, <1>4, <1>6, <1>7

\* What is told of an allowance, and where it ends up when it is the last of its
\* calendar.
LEMMA AllowancesComeBack ==
  ASSUME NEW r, IsAllowedFor(r), NEW k \in DOMAIN request.allowances,
         NEW a, a = request.allowances[k], NEW c, c = request.calendars[a.cal]
  PROVE  /\ r.applied[k] = LostDays(c, a, request.start, request.finish)
         /\ TakesHold(k) => r.calendars[a.cal] = ApplyAllowance(c, a, request.start, request.finish)
<1>1. PICK all : /\ all = ApplyToAll(request.calendars, request.allowances,
                                     request.start, request.finish)
                 /\ r.applied = all.applied /\ r.calendars = all.calendars
  BY DEF IsAllowedFor, WeatherCost
<1>2. r.applied[k] = LostDays(c, a, request.start, request.finish)
  BY <1>1 DEF ApplyToAll
<1>3. /\ a.cal \in DOMAIN request.calendars
      /\ DOMAIN request.allowances = 1..Len(request.allowances) /\ Len(request.allowances) \in Nat
  BY AllowanceAsked
<1>4. ASSUME TakesHold(k)
      PROVE  r.calendars[a.cal] = ApplyAllowance(c, a, request.start, request.finish)
  <2>1. PICK named : named = {j \in DOMAIN request.allowances : request.allowances[j].cal = a.cal}
    OBVIOUS
  <2>2. k \in named /\ named \subseteq Int /\ \A j \in named : j <= k
    BY <1>3, <1>4, <2>1 DEF TakesHold
  <2>3. Max(named) = k
    BY <2>2 DEF Max
  <2>4. all.calendars[a.cal] = IF named = {} THEN request.calendars[a.cal]
                               ELSE ApplyAllowance(request.calendars[a.cal],
                                                   request.allowances[Max(named)],
                                                   request.start, request.finish)
    BY <1>1, <1>3, <2>1 DEF ApplyToAll
  <2> QED BY <1>1, <2>2, <2>3, <2>4
<1> QED BY <1>2, <1>4

\* A month loses what is told of it, save the extra work days.
LEMMA MonthsAreLost ==
  ASSUME NEW k \in DOMAIN request.allowances, IsAllowedFor(answer.result),
         NEW m \in MonthOf(request.start)..MonthOf(request.finish)
  PROVE  MonthLoses(k, m)
<1>1. PICK r, a, c, days, count :
        /\ r = answer.result /\ a = request.allowances[k] /\ c = request.calendars[a.cal]
        /\ days = Offered(c, m) /\ count = a.lost[m % YearLength]
  OBVIOUS
<1>2. /\ request.start \in Int /\ request.finish \in Int
      /\ a.cal \in DOMAIN request.calendars /\ HasNoAllowance(c)
      /\ \A n \in Int : a.lost[n % YearLength] \in Nat
  BY <1>1, AllowanceAsked
<1>3. m \in Int /\ count \in Nat
  <2>1. m \in Int
    BY <1>2, MonthAssumption DEF MonthOf
  <2> QED BY <1>1, <1>2, <2>1
<1>4. PICK gone : gone = LostDays(c, a, request.start, request.finish)
  OBVIOUS
<1>5. r.applied[k] = gone
  BY <1>1, <1>4, AllowancesComeBack
<1>6. PICK told : told = {d \in r.applied[k] : MonthOf(d) = m}
  OBVIOUS
<1>7. {request.start, request.finish} \subseteq Int
  BY <1>2
<1>8. IsLattice(days) /\ days = WorkingDays(c, MonthDays(request.start, request.finish, m))
  BY <1>1, <1>2, <1>7, OfferedAre
<1>9. told = IF count = 0 THEN {} ELSE Spread(days, count)
  <2>1. {d \in LostDays(c, a, request.start, request.finish) : MonthOf(d) = m}
          = LostIn(c, a, request.start, request.finish, m)
    BY <1>2, LostByMonth
  <2>2. told = LostIn(c, a, request.start, request.finish, m)
    BY <1>4, <1>5, <1>6, <2>1, Zenon
  <2> QED BY <1>1, <1>8, <2>2, Zenon DEF LostIn
<1>10. SpreadEvenly(days, told, count)
  BY <1>3, <1>8, <1>9, SpreadIsEven
<1>11. told \subseteq days
  BY <1>10 DEF SpreadEvenly
<1>12. PICK lost : lost = {d \in LostOf(c, r.calendars[a.cal], request.start, request.finish) :
                            MonthOf(d) = m}
  OBVIOUS
<1>13. ASSUME TakesHold(k) PROVE lost = told \ c.extra
  <2>1. r.calendars[a.cal] = ApplyAllowance(c, a, request.start, request.finish)
    BY <1>1, <1>13, AllowancesComeBack
  <2>2. \A d : d \in LostOf(c, r.calendars[a.cal], request.start, request.finish)
               <=> /\ d \in LatticeOf(WorkCalendarOf(c), DaysOfWeek, request.start, request.finish)
                   /\ d \in gone /\ d \notin c.extra
    BY <1>2, <1>4, <2>1, LostDaysOf
  <2>3. \A d : d \in told <=> d \in gone /\ MonthOf(d) = m
    BY <1>5, <1>6
  <2>4. \A d \in told : d \in LatticeOf(WorkCalendarOf(c), DaysOfWeek, request.start, request.finish)
    BY <1>1, <1>11 DEF Offered
  <2>5. \A d : d \in lost <=> d \in told /\ d \notin c.extra
    BY <1>12, <2>2, <2>3, <2>4
  <2> QED BY <2>5
<1>14. ASSUME TakesHold(k), days \cap c.extra = {} PROVE SpreadEvenly(days, lost, count)
  <2>1. lost = told
    BY <1>11, <1>13, <1>14
  <2> QED BY <1>10, <2>1
<1> QED BY <1>1, <1>6, <1>10, <1>12, <1>13, <1>14, Zenon DEF MonthLoses

\* A calendar loses days to an allowance only, and in its window only.
LEMMA LossesAreWithin ==
  ASSUME IsAllowedFor(answer.result), NEW c \in DOMAIN request.calendars
  PROVE  LostWithin(c)
<1>1. PICK r, before, after :
        r = answer.result /\ before = request.calendars[c] /\ after = r.calendars[c]
  OBVIOUS
<1>2. PICK named : named = {k \in DOMAIN request.allowances : request.allowances[k].cal = c}
  OBVIOUS
<1>3. after = IF named = {} THEN before
              ELSE ApplyAllowance(before, request.allowances[Max(named)], request.start, request.finish)
  BY <1>1, <1>2 DEF IsAllowedFor, WeatherCost, ApplyToAll
<1>4. HasNoAllowance(before) /\ request.start \in Int /\ request.finish \in Int
  BY <1>1, AllowanceAsked
<1>5. LostOf(before, after, request.dataDate, request.horizon) \subseteq request.start..request.finish
  <2>1. CASE named = {}
    BY <1>3, <2>1 DEF LostOf
  <2>2. CASE named # {}
    <3>1. PICK a : a = request.allowances[Max(named)]
      OBVIOUS
    <3>2. after = ApplyAllowance(before, a, request.start, request.finish)
      BY <1>3, <2>2, <3>1
    <3>3. \A d \in LostOf(before, after, request.dataDate, request.horizon) :
            d \in LostDays(before, a, request.start, request.finish)
      BY <1>4, <3>2, LostDaysOf
    <3>4. LostDays(before, a, request.start, request.finish) \subseteq request.start..request.finish
      BY <1>4, LostByMonth
    <3> QED BY <3>3, <3>4
  <2> QED BY <2>1, <2>2
<1>6. after = before \/ \E k \in DOMAIN request.allowances : request.allowances[k].cal = c
  BY <1>2, <1>3
<1>7. WithoutAllowance(after) = before
  BY <1>1, CalendarsComeBack
<1> QED BY <1>1, <1>5, <1>6, <1>7 DEF LostWithin

\* Whatever the requests are, what a calendar loses to the weather is the days its
\* last allowance names, spread evenly, save the extra work days (weather.py:108-239).
\* They are spread because the places of count days among n, each in the middle of
\* its stretch, grow by more than one; and on one calendar the finish with them is
\* as many working days away as without.
THEOREM AllowancesAreLost == StudiesSpec => []AllowanceIsLost
<1>1. ReportsToldInv => AllowanceIsLost
  <2>1. SUFFICES ASSUME ReportsToldInv, Answered("weather")
                 PROVE  LET r == answer.result
                        IN  /\ \A k \in DOMAIN request.allowances :
                                 /\ r.applied[k] \subseteq request.start..request.finish
                                 /\ \A m \in MonthOf(request.start)..MonthOf(request.finish) :
                                      MonthLoses(k, m)
                            /\ \A c \in DOMAIN request.calendars : LostWithin(c)
                            /\ r.dry <= r.wet
                            /\ \A c \in DOMAIN request.calendars :
                                 (\A n \in DOMAIN request.work : request.work[n].cal = c) => FinishMovesBy(c)
    BY DEF AllowanceIsLost
  <2> DEFINE r == answer.result
  <2>2. IsAllowedFor(r)
    <3>1. request.study = "weather" /\ IsRequest(request)
      BY <2>1, ToldIsRequest DEF Answered
    <3> QED BY <2>1, <3>1 DEF IsAllowedFor, ReportsToldInv
  <2>3. ASSUME NEW k \in DOMAIN request.allowances
        PROVE  r.applied[k] \subseteq request.start..request.finish
    <3> HIDE DEF r
    <3>1. PICK a, c : a = request.allowances[k] /\ c = request.calendars[a.cal]
      OBVIOUS
    <3>2. r.applied[k] = LostDays(c, a, request.start, request.finish)
      BY <2>2, <3>1, AllowancesComeBack
    <3>3. request.start \in Int /\ request.finish \in Int
      BY <2>2, AllowanceAsked
    <3> QED BY <3>2, <3>3, LostByMonth
  <2>4. \A k \in DOMAIN request.allowances :
          \A m \in MonthOf(request.start)..MonthOf(request.finish) : MonthLoses(k, m)
    BY <2>2, MonthsAreLost
  <2>5. \A c \in DOMAIN request.calendars : LostWithin(c)
    BY <2>2, LossesAreWithin
  <2> HIDE DEF r
  <2>6. r.dry <= r.wet
    BY <2>2, FinishMoves
  <2>7. ASSUME NEW c \in DOMAIN request.calendars, \A n \in DOMAIN request.work : request.work[n].cal = c
        PROVE  FinishMovesBy(c)
    <3>1. LET L == LatticeOf(WorkCalendarOf(request.calendars[c]), DaysOfWeek,
                             request.dataDate, request.horizon)
              W == LatticeOf(WorkCalendarOf(r.calendars[c]), DaysOfWeek,
                             request.dataDate, request.horizon)
          IN  CountWorkingDays(L, r.dry, r.wet) = Cardinality({d \in L \ W : d < r.wet})
      BY <2>2, <2>7, FinishMoves
    <3> QED BY <3>1, Zenon DEF FinishMovesBy, LostOf, r
  <2> QED BY <2>3, <2>4, <2>5, <2>6, <2>7, Zenon DEF r
<1> QED BY <1>1, ReportsAreTold, PTL

-----------------------------------------------------------------------------
\* The direction of flow.

\* Places as they are stored or sent, no two with one id.
ArePlacesApart(places) ==
  /\ IsBuilding(places)
  /\ \A m, n \in DOMAIN places : places[m].id = places[n].id => m = n

\* A flow of n places, each of the ids once.
IsFlowOf(flow, places) ==
  /\ flow = [n \in 1..Len(places) |-> flow[n]]
  /\ \A n \in 1..Len(places) : \E m \in DOMAIN places : flow[n] = places[m].id
  /\ \A m \in DOMAIN places : \E n \in 1..Len(places) : flow[n] = places[m].id
  /\ \A m, n \in 1..Len(places) : flow[m] = flow[n] => m = n

\* Of two places one is before the other, so no two have the same turn.
LEMMA FlowIs ==
  ASSUME NEW places, ArePlacesApart(places)
  PROVE  IsFlowOf(Flow(places), places)
<1> DEFINE N == Len(places)
           D == DOMAIN places
           ahead == [m \in D |-> {k \in D : FlowsBefore(places[k], places[m])}]
           turn == [m \in D |-> Cardinality(ahead[m]) + 1]
<1>1. N \in Nat /\ D = 1..N /\ \A n \in D : places[n].id \in Int /\ places[n].sequence \in Int
  <2>1. N \in Nat /\ places = [n \in 1..N |-> places[n]]
    BY DEF ArePlacesApart, IsBuilding
  <2>2. D = 1..N
    <3>1. DOMAIN [n \in 1..N |-> places[n]] = 1..N
      OBVIOUS
    <3> QED BY <2>1, <3>1
  <2> QED BY <2>1, <2>2 DEF ArePlacesApart, IsBuilding
<1>2. IsFiniteSet(D) /\ Cardinality(D) = N
  <2>1. 1 \in Int /\ N \in Int
    BY <1>1
  <2> QED BY <1>1, <2>1, FS_Interval
<1>3. \A m \in D : /\ ahead[m] \in SUBSET D /\ m \notin ahead[m]
                   /\ \A k \in D : k \in ahead[m] <=> FlowsBefore(places[k], places[m])
  <2>1. SUFFICES ASSUME NEW m \in D PROVE m \notin ahead[m]
    OBVIOUS
  <2>2. ~FlowsBefore(places[m], places[m])
    BY <1>1 DEF FlowsBefore
  <2> QED BY <2>2
<1>4. \A m \in D : turn[m] = Cardinality(ahead[m]) + 1 /\ turn[m] = TurnOf(places, m)
  BY DEF TurnOf
<1> HIDE DEF ahead, turn
<1>5. ASSUME NEW m \in D
      PROVE  IsFiniteSet(ahead[m]) /\ turn[m] \in 1..N
  <2>1. IsFiniteSet(ahead[m]) /\ Cardinality(ahead[m]) <= N
        /\ (Cardinality(ahead[m]) = N => ahead[m] = D)
    BY <1>2, <1>3, FS_Subset
  <2>2. Cardinality(ahead[m]) \in Nat
    BY <2>1, FS_CardinalityType
  <2>3. ahead[m] # D
    BY <1>3
  <2> QED BY <1>1, <1>4, <2>1, <2>2, <2>3
<1>6. ASSUME NEW k \in D, NEW m \in D, FlowsBefore(places[k], places[m]) PROVE turn[k] # turn[m]
  <2>1. ahead[k] \in SUBSET ahead[m]
    <3>1. SUFFICES ASSUME NEW j \in ahead[k] PROVE j \in ahead[m]
      OBVIOUS
    <3>2. j \in D /\ FlowsBefore(places[j], places[k])
      BY <1>3
    <3>3. FlowsBefore(places[j], places[m])
      BY <1>1, <1>6, <3>2 DEF FlowsBefore
    <3> QED BY <1>3, <3>2, <3>3
  <2>2. k \in ahead[m] /\ k \notin ahead[k]
    BY <1>3, <1>6
  <2>3. IsFiniteSet(ahead[m])
    BY <1>5
  <2>4. Cardinality(ahead[m]) # Cardinality(ahead[k])
    BY <2>1, <2>2, <2>3, FS_Subset
  <2>5. Cardinality(ahead[m]) \in Nat /\ Cardinality(ahead[k]) \in Nat
    BY <1>5, FS_CardinalityType
  <2> QED BY <1>4, <2>4, <2>5
<1>7. ASSUME NEW k \in D, NEW m \in D, turn[k] = turn[m] PROVE k = m
  <2>1. ~FlowsBefore(places[k], places[m]) /\ ~FlowsBefore(places[m], places[k])
    BY <1>6, <1>7
  <2>2. places[k].id = places[m].id
    BY <1>1, <2>1 DEF FlowsBefore
  <2> QED BY <2>2 DEF ArePlacesApart
<1>8. \A n \in 1..N : \E m \in D : turn[m] = n
  <2> DEFINE f == [m \in D |-> turn[m]]
  <2>1. f \in [D -> D] /\ \A k, m \in D : f[k] = f[m] => k = m
    BY <1>1, <1>5, <1>7
  <2>2. \A m \in D : f[m] = turn[m]
    OBVIOUS
  <2> HIDE DEF f
  <2>3. f \in Injection(D, D)
    BY <2>1 DEF Injection, IsInjective
  <2>4. f \in Surjection(D, D)
    BY <1>2, <2>3, FS_Injection
  <2>5. \A n \in D : \E m \in D : f[m] = n
    BY <2>4 DEF Surjection
  <2> QED BY <1>1, <2>2, <2>5
<1>9. PICK at : at = [n \in D |-> CHOOSE m \in D : TurnOf(places, m) = n]
  OBVIOUS
<1>10. \A n \in D : at[n] \in D /\ turn[at[n]] = n
  <2>1. SUFFICES ASSUME NEW n \in D PROVE at[n] \in D /\ turn[at[n]] = n
    OBVIOUS
  <2>2. at[n] = CHOOSE m \in D : TurnOf(places, m) = n
    BY <1>9
  <2>3. \E m \in D : TurnOf(places, m) = n
    BY <1>1, <1>4, <1>8
  <2>4. at[n] \in D /\ TurnOf(places, at[n]) = n
    BY <2>2, <2>3
  <2> QED BY <1>4, <2>4
<1>11. Flow(places) = [n \in D |-> places[at[n]].id]
  BY <1>9 DEF Flow
<1>12. PICK flow : flow = Flow(places)
  OBVIOUS
<1>13. DOMAIN flow = 1..N /\ \A n \in D : flow[n] = places[at[n]].id
  BY <1>1, <1>11, <1>12
<1>14. flow = [n \in 1..N |-> flow[n]]
  <2>1. flow = [n \in D |-> flow[n]]
    BY <1>11, <1>12
  <2> QED BY <1>1, <2>1
<1>15. \A m \in D : \E n \in 1..N : flow[n] = places[m].id
  <2>1. SUFFICES ASSUME NEW m \in D PROVE \E n \in 1..N : flow[n] = places[m].id
    OBVIOUS
  <2>2. turn[m] \in 1..N /\ turn[m] \in D
    BY <1>1, <1>5
  <2>3. at[turn[m]] = m
    BY <1>7, <1>10, <2>2
  <2> QED BY <1>13, <2>2, <2>3
<1>16. \A m, n \in 1..N : flow[m] = flow[n] => m = n
  <2>1. SUFFICES ASSUME NEW m \in D, NEW n \in D, flow[m] = flow[n] PROVE m = n
    BY <1>1
  <2>2. at[m] = at[n]
    <3>1. places[at[m]].id = places[at[n]].id /\ at[m] \in D /\ at[n] \in D
      BY <1>10, <1>13, <2>1
    <3>2. \A i, j \in D : places[i].id = places[j].id => i = j
      BY DEF ArePlacesApart
    <3> QED BY <3>1, <3>2
  <2>3. turn[at[m]] = m /\ turn[at[n]] = n
    BY <1>10
  <2> QED BY <2>2, <2>3
<1>17. \A n \in 1..N : \E m \in D : flow[n] = places[m].id
  BY <1>1, <1>10, <1>13
<1> QED BY <1>12, <1>14, <1>15, <1>16, <1>17 DEF IsFlowOf

-----------------------------------------------------------------------------
\* Lines.

\* A list of so many has so many.
LEMMA LengthIs ==
  ASSUME NEW n \in Nat, NEW s, s = [i \in 1..n |-> s[i]]
  PROVE  Len(s) = n /\ DOMAIN s = 1..n
<1>1. DOMAIN s = 1..n
  <2>1. DOMAIN [i \in 1..n |-> s[i]] = 1..n
    OBVIOUS
  <2> QED BY <2>1
<1>2. s \in Seq({s[i] : i \in 1..n})
  <2>1. s \in [1..n -> {s[i] : i \in 1..n}]
    OBVIOUS
  <2> QED BY <2>1, IsASeq
<1> QED BY <1>1, <1>2, LenProperties, SMT

\* Rounded up, the least whole number that is enough.
LEMMA CeilDivIs ==
  ASSUME NEW a \in Int, NEW b \in Nat \ {0}
  PROVE  /\ CeilDiv(a, b) \in Int /\ a <= b * CeilDiv(a, b)
         /\ \A c \in Int : a <= b * c => CeilDiv(a, b) <= c
         /\ a \in Nat => CeilDiv(a, b) \in Nat
<1>1. PICK q : q = CeilDiv(a, b)
  OBVIOUS
<1>2. PICK x : x = a + b - 1
  OBVIOUS
<1>3. q = x \div b /\ x \in Int
  BY <1>1, <1>2 DEF CeilDiv
<1>4. q \in Int /\ b * q <= x /\ x < b * q + b
  BY <1>3, DivisionIs
<1>5. b * q \in Int /\ b \in Int
  BY <1>4
<1>6. a <= b * q
  BY <1>2, <1>4, <1>5
<1>7. ASSUME NEW c \in Int, a <= b * c PROVE q <= c
  <2>1. SUFFICES ASSUME c + 1 <= q PROVE FALSE
    BY <1>4
  <2>2. c + 1 \in Int /\ b \in Nat
    OBVIOUS
  <2>3. b * (c + 1) <= b * q
    BY <1>4, <2>1, <2>2, ProductGrows
  <2>4. b * (c + 1) = b * c + b /\ b * c \in Int
    BY <1>5
  <2> QED BY <1>2, <1>4, <1>5, <1>7, <2>3, <2>4
<1>8. ASSUME a \in Nat PROVE q \in Nat
  <2>1. SUFFICES ASSUME q <= -1 PROVE FALSE
    BY <1>4
  <2>2. -1 \in Int /\ b \in Nat
    OBVIOUS
  <2>3. b * q <= b * (-1)
    BY <1>4, <2>1, <2>2, ProductGrows
  <2>4. b * (-1) = 0 - b
    BY <1>5
  <2> QED BY <1>5, <1>6, <1>8, <2>3, <2>4
<1> QED BY <1>1, <1>4, <1>6, <1>7, <1>8

\* Trades that can work through a flow.
Walkable(trades, flow) ==
  /\ Len(trades) \in Nat \ {0} /\ trades = [i \in 1..Len(trades) |-> trades[i]]
  /\ Len(flow) \in Nat \ {0} /\ flow = [n \in 1..Len(flow) |-> flow[n]]
  /\ \A i \in 1..Len(trades) :
       /\ trades[i].buffer \in Int
       /\ \A n \in 1..Len(flow) : WorkContent(trades[i], flow[n]) \in Nat

\* Trades whose request can be answered can.
LEMMA TradesWalk ==
  ASSUME NEW trades, NEW places, AreTrades(trades), IsBuilding(places), CanFlow(trades, places)
  PROVE  /\ ArePlacesApart(places) /\ Walkable(trades, Flow(places))
         /\ Len(Flow(places)) = Len(places)
<1>1. ArePlacesApart(places)
  BY DEF ArePlacesApart, CanFlow
<1>2. PICK flow : flow = Flow(places)
  OBVIOUS
<1>3. IsFlowOf(flow, places)
  BY <1>1, <1>2, FlowIs
<1>4. Len(places) \in Nat /\ places = [n \in 1..Len(places) |-> places[n]]
  BY DEF IsBuilding
<1>5. Len(flow) = Len(places)
  BY <1>3, <1>4, LengthIs DEF IsFlowOf
<1>6. Len(places) # 0
  BY <1>4, SMT DEF CanFlow
<1>7. Len(trades) \in Nat \ {0} /\ trades = [i \in 1..Len(trades) |-> trades[i]]
  <2>1. Len(trades) \in Nat /\ trades = [i \in 1..Len(trades) |-> trades[i]]
    BY DEF AreTrades
  <2>2. Len(trades) # 0
    BY <2>1, SMT DEF CanFlow
  <2> QED BY <2>1, <2>2
<1>8. DOMAIN trades = 1..Len(trades) /\ DOMAIN places = 1..Len(places)
  BY <1>4, <1>7, LengthIs
<1>9. ASSUME NEW i \in 1..Len(trades), NEW n \in 1..Len(flow)
      PROVE  WorkContent(trades[i], flow[n]) \in Nat
  <2>1. PICK m \in DOMAIN places : flow[n] = places[m].id
    BY <1>3, <1>5 DEF IsFlowOf
  <2>2. PICK t, p : t = trades[i] /\ p = flow[n]
    OBVIOUS
  <2>3. t.dur \in Nat /\ t.rate \in Nat
    BY <1>8, <2>2 DEF AreTrades
  <2>4. ASSUME p \in DOMAIN t.amounts, t.rate # 0 PROVE CeilDiv(t.amounts[p], t.rate) \in Nat
    <3>1. t.amounts[p] \in Int
      BY <1>8, <2>2, <2>4 DEF AreTrades
    <3>2. t.amounts[p] >= 0
      BY <1>8, <2>1, <2>2, <2>4 DEF CanFlow
    <3>3. t.amounts[p] \in Nat
      BY <3>1, <3>2
    <3> QED BY <2>3, <2>4, <3>1, <3>3, CeilDivIs
  <2>5. WorkContent(t, p) \in Nat
    BY <2>3, <2>4 DEF WorkContent
  <2> QED BY <2>2, <2>5
<1>10. \A i \in 1..Len(trades) : trades[i].buffer \in Int
  BY <1>8 DEF AreTrades
<1>11. flow = [n \in 1..Len(flow) |-> flow[n]] /\ Len(flow) \in Nat \ {0}
  BY <1>3, <1>4, <1>5, <1>6 DEF IsFlowOf
<1>12. Walkable(trades, flow)
  BY <1>7, <1>9, <1>10, <1>11 DEF Walkable
<1> QED BY <1>1, <1>2, <1>5, <1>12

\* What a crew has done on reaching a place is what it had, and the place before.
LEMMA CumulativeIs ==
  ASSUME NEW trades, NEW flow, Walkable(trades, flow), NEW i \in 1..Len(trades)
  PROVE  /\ Cumulative(trades[i], flow, 1) = 0
         /\ \A n \in 1..Len(flow) :
              /\ Cumulative(trades[i], flow, n) \in Nat
              /\ Cumulative(trades[i], flow, n + 1) \in Nat
              /\ Cumulative(trades[i], flow, n + 1)
                   = Cumulative(trades[i], flow, n) + WorkContent(trades[i], flow[n])
              /\ Cumulative(trades[i], flow, n + 1) <= Cumulative(trades[i], flow, Len(flow) + 1)
<1> DEFINE N == Len(flow)
           w == [m \in 1..N |-> WorkContent(trades[i], flow[m])]
           C(n) == Cumulative(trades[i], flow, n)
<1>1. N \in Nat \ {0} /\ \A m \in 1..N : w[m] = WorkContent(trades[i], flow[m]) /\ w[m] \in Nat
  BY DEF Walkable
<1>2. ASSUME NEW n \in 1..(N + 1)
      PROVE  C(n) = SumOver(w, 1..(n - 1)) /\ IsFiniteSet(1..(n - 1)) /\ (1..(n - 1)) \in SUBSET (1..N)
  <2>1. PICK of : of = [m \in 1..(n - 1) |-> WorkContent(trades[i], flow[m])]
    OBVIOUS
  <2>2. DOMAIN of = 1..(n - 1) /\ (1..(n - 1)) \in SUBSET (1..N)
    BY <1>1, <2>1
  <2>3. IsFiniteSet(1..(n - 1))
    <3>1. 1 \in Int /\ n - 1 \in Int
      OBVIOUS
    <3> QED BY <3>1, FS_Interval
  <2>4. \A m \in 1..(n - 1) : of[m] = w[m]
    BY <1>1, <2>1, <2>2
  <2>5. SumOver(of, 1..(n - 1)) = SumOver(w, 1..(n - 1))
    BY <2>3, <2>4, SumAgrees
  <2>6. C(n) = Total(of)
    BY <2>1 DEF Cumulative
  <2>7. Total(of) = SumOver(of, DOMAIN of)
    BY TotalIsASum
  <2> QED BY <2>2, <2>3, <2>5, <2>6, <2>7
<1> HIDE DEF w
<1>3. C(1) = 0
  <2>1. C(1) = SumOver(w, 1..(1 - 1))
    BY <1>1, <1>2
  <2>2. 1..(1 - 1) = {}
    OBVIOUS
  <2> QED BY <2>1, <2>2, SumOfNone
<1>4. \A n \in 1..(N + 1) : C(n) \in Nat
  <2>1. TAKE n \in 1..(N + 1)
  <2>2. PICK P : P = 1..(n - 1)
    OBVIOUS
  <2>3. IsFiniteSet(P) /\ P \in SUBSET P /\ \A x \in P : w[x] \in Nat
    BY <1>1, <1>2, <2>2
  <2>4. SumOver(w, P) \in Nat
    BY <2>3, SumGrows
  <2> QED BY <1>2, <2>2, <2>4
<1>5. ASSUME NEW n \in 1..N PROVE C(n + 1) = C(n) + w[n]
  <2>1. PICK P : P = 1..n
    OBVIOUS
  <2>2. n \in P /\ P \ {n} = 1..(n - 1) /\ n + 1 \in 1..(N + 1) /\ n \in 1..(N + 1)
    BY <1>1, <2>1
  <2>3. C(n + 1) = SumOver(w, P) /\ IsFiniteSet(P) /\ P \in SUBSET (1..N)
    <3>1. (n + 1) - 1 = n
      OBVIOUS
    <3>2. /\ C(n + 1) = SumOver(w, 1..((n + 1) - 1)) /\ IsFiniteSet(1..((n + 1) - 1))
          /\ (1..((n + 1) - 1)) \in SUBSET (1..N)
      BY <1>2, <2>2
    <3> QED BY <2>1, <3>1, <3>2
  <2>4. \A x \in P : w[x] \in Int
    BY <1>1, <2>3
  <2>5. SumOver(w, P) = SumOver(w, P \ {n}) + w[n]
    BY <2>2, <2>3, <2>4, SumTakesAny
  <2>6. C(n) = SumOver(w, 1..(n - 1))
    BY <1>2, <2>2
  <2> QED BY <2>2, <2>3, <2>5, <2>6
<1>6. ASSUME NEW n \in 1..N PROVE C(n + 1) <= C(N + 1)
  <2>1. PICK P, Q : P = 1..n /\ Q = 1..N
    OBVIOUS
  <2>2. n + 1 \in 1..(N + 1) /\ N + 1 \in 1..(N + 1) /\ (n + 1) - 1 = n /\ (N + 1) - 1 = N
    BY <1>1
  <2>3. C(n + 1) = SumOver(w, P) /\ C(N + 1) = SumOver(w, Q) /\ IsFiniteSet(Q)
    <3>1. C(n + 1) = SumOver(w, 1..((n + 1) - 1))
      BY <1>2, <2>2
    <3>2. C(N + 1) = SumOver(w, 1..((N + 1) - 1)) /\ IsFiniteSet(1..((N + 1) - 1))
      BY <1>2, <2>2
    <3> QED BY <2>1, <2>2, <3>1, <3>2
  <2>4. P \in SUBSET Q /\ \A x \in Q : w[x] \in Nat
    BY <1>1, <2>1
  <2>5. SumOver(w, P) <= SumOver(w, Q)
    BY <2>3, <2>4, SumGrows
  <2> QED BY <2>3, <2>5
<1>7. \A n \in 1..N : n \in 1..(N + 1) /\ n + 1 \in 1..(N + 1)
  BY <1>1
<1> HIDE DEF C
<1>8. /\ C(1) = 0
      /\ \A n \in 1..N : /\ C(n) \in Nat /\ C(n + 1) \in Nat
                         /\ C(n + 1) = C(n) + WorkContent(trades[i], flow[n])
                         /\ C(n + 1) <= C(N + 1)
  BY <1>1, <1>3, <1>4, <1>5, <1>6, <1>7
<1> QED BY <1>8 DEF C

\* What the m-th place asks of a crew's start.
AskedBy(trades, flow, i, before, m) ==
  before + Cumulative(trades[i - 1], flow, m + 1) + trades[i].buffer - Cumulative(trades[i], flow, m)

\* What they ask together.
AllAsk(trades, flow, i, before) == Max({0} \cup Requirements(trades, flow, i, before))

IsLeastAsked(trades, flow, i, before, s) ==
  /\ \A m \in 1..Len(flow) : /\ AskedBy(trades, flow, i, before, m) \in Int
                            /\ AskedBy(trades, flow, i, before, m) <= s
  /\ s = 0 \/ \E m \in 1..Len(flow) : s = AskedBy(trades, flow, i, before, m)

\* What the places ask of a crew's start, together: the least start that is no
\* earlier than any of them, nor than the first day.
LEMMA RequirementsAre ==
  ASSUME NEW trades, NEW flow, Walkable(trades, flow), NEW i \in 2..Len(trades), NEW before \in Int,
         NEW s, s = AllAsk(trades, flow, i, before)
  PROVE  s \in Nat /\ IsLeastAsked(trades, flow, i, before, s)
<1>0. PICK asked : asked = [m \in 1..Len(flow) |-> AskedBy(trades, flow, i, before, m)]
  OBVIOUS
<1>1. /\ Len(flow) \in Nat \ {0} /\ DOMAIN flow = 1..Len(flow)
      /\ i \in 1..Len(trades) /\ i - 1 \in 1..Len(trades) /\ trades[i].buffer \in Int
  <2>1. Len(flow) \in Nat \ {0} /\ Len(trades) \in Nat /\ flow = [n \in 1..Len(flow) |-> flow[n]]
    BY DEF Walkable
  <2>2. DOMAIN flow = 1..Len(flow)
    BY <2>1, LengthIs
  <2> QED BY <2>1, <2>2 DEF Walkable
<1>2. \A m \in 1..Len(flow) : /\ Cumulative(trades[i - 1], flow, m + 1) \in Int
                              /\ Cumulative(trades[i], flow, m) \in Int
  <2>1. /\ \A m \in 1..Len(flow) : Cumulative(trades[i - 1], flow, m + 1) \in Nat
        /\ \A m \in 1..Len(flow) : Cumulative(trades[i], flow, m) \in Nat
    BY <1>1, CumulativeIs
  <2> QED BY <2>1
<1>3. \A m \in 1..Len(flow) : asked[m] \in Int
  BY <1>0, <1>1, <1>2 DEF AskedBy
<1>4. Requirements(trades, flow, i, before) = {asked[m] : m \in 1..Len(flow)}
  <2>1. \A m \in 1..Len(flow) :
          asked[m] = before + Cumulative(trades[i - 1], flow, m + 1) + trades[i].buffer
                       - Cumulative(trades[i], flow, m)
    BY <1>0 DEF AskedBy
  <2> QED BY <1>1, <2>1, Zenon DEF Requirements
<1>5. PICK X : X = {0} \cup {asked[m] : m \in 1..Len(flow)}
  OBVIOUS
<1>6. \A x : x \in X <=> (x = 0 \/ \E m \in 1..Len(flow) : x = asked[m])
  BY <1>5
<1>7. IsFiniteSet(1..Len(flow)) /\ 0 \in Int
  <2>1. 1 \in Int /\ Len(flow) \in Int
    BY <1>1
  <2> QED BY <2>1, FS_Interval
<1>8. s = Max(X)
  BY <1>4, <1>5 DEF AllAsk
<1>9. /\ Max(X) \in Int /\ 0 <= Max(X)
      /\ \A m \in 1..Len(flow) : asked[m] <= Max(X)
      /\ Max(X) = 0 \/ \E m \in 1..Len(flow) : Max(X) = asked[m]
  BY <1>3, <1>6, <1>7, GreatestOf
<1>10. \A m \in 1..Len(flow) : asked[m] = AskedBy(trades, flow, i, before, m)
  BY <1>0
<1>11. s \in Nat
  BY <1>8, <1>9
<1> QED BY <1>3, <1>8, <1>9, <1>10, <1>11 DEF IsLeastAsked

\* The starts of the lines: the first crew on the first day; each other clear of
\* the one in front in every place, and held back by one place or by none.
AreLineStarts(trades, flow, start) ==
  /\ start = [i \in 1..Len(trades) |-> start[i]] /\ start[1] = 0
  /\ \A i \in 1..Len(trades) : start[i] \in Nat
  /\ \A i \in 2..Len(trades) :
       /\ \A m \in 1..Len(flow) : Gap(trades, flow, start, i, m) - trades[i].buffer >= 0
       /\ start[i] = 0 \/ \E m \in 1..Len(flow) : Gap(trades, flow, start, i, m) - trades[i].buffer = 0

\* The start of a crew from the starts of all.
StartAsked(trades, flow, f, i) ==
  IF i = 1 THEN 0 ELSE AllAsk(trades, flow, i, f[i - 1])

\* There are such starts: the crews are a network, each waiting for the one in
\* front, once for every place.
LEMMA CrewsAreDated ==
  ASSUME NEW trades, NEW flow, Walkable(trades, flow)
  PROVE  \E f : f = [i \in 1..Len(trades) |-> StartAsked(trades, flow, f, i)]
<1> DEFINE A == 1..Len(trades)
           K == (2..Len(trades)) \X (1..Len(flow))
           ask(i, m) == Cumulative(trades[i - 1], flow, m + 1) + trades[i].buffer
                          - Cumulative(trades[i], flow, m)
           first == [k \in K |-> k[1] - 1]
           second == [k \in K |-> k[1]]
           floor == [i \in A |-> 0]
           gap == [k \in K |-> ask(k[1], k[2])]
           G(h, i) == Granted(K, first, second, floor, gap, h, i)
<1>1. Len(trades) \in Nat \ {0} /\ Len(flow) \in Nat \ {0} /\ DOMAIN flow = 1..Len(flow)
  <2>1. Len(flow) \in Nat \ {0} /\ Len(trades) \in Nat \ {0} /\ flow = [n \in 1..Len(flow) |-> flow[n]]
    BY DEF Walkable
  <2>2. DOMAIN flow = 1..Len(flow)
    BY <2>1, LengthIs
  <2> QED BY <2>1, <2>2
<1>2. ASSUME NEW i \in 2..Len(trades), NEW m \in 1..Len(flow) PROVE ask(i, m) \in Int
  <2>1. i \in 1..Len(trades) /\ i - 1 \in 1..Len(trades) /\ trades[i].buffer \in Int
    BY <1>1 DEF Walkable
  <2>2. /\ \A n \in 1..Len(flow) : Cumulative(trades[i - 1], flow, n + 1) \in Nat
        /\ \A n \in 1..Len(flow) : Cumulative(trades[i], flow, n) \in Nat
    BY <2>1, CumulativeIs
  <2>3. Cumulative(trades[i - 1], flow, m + 1) \in Nat /\ Cumulative(trades[i], flow, m) \in Nat
    BY <2>2
  <2> QED BY <2>1, <2>3
<1>3. \A k \in K : /\ k[1] \in 2..Len(trades) /\ k[2] \in 1..Len(flow)
                   /\ first[k] = k[1] - 1 /\ second[k] = k[1] /\ gap[k] = ask(k[1], k[2])
  OBVIOUS
<1>4. \A i \in 2..Len(trades) : \A m \in 1..Len(flow) :
        <<i, m>> \in K /\ second[<<i, m>>] = i /\ first[<<i, m>>] = i - 1 /\ gap[<<i, m>>] = ask(i, m)
  OBVIOUS
<1>5. IsWeb(A, K, first, second, floor, gap)
  <2>1. IsFiniteSet(A) /\ IsFiniteSet(K)
    <3>1. 1 \in Int /\ 2 \in Int /\ Len(trades) \in Int /\ Len(flow) \in Int
      BY <1>1
    <3>2. IsFiniteSet(1..Len(trades)) /\ IsFiniteSet(2..Len(trades)) /\ IsFiniteSet(1..Len(flow))
      BY <3>1, FS_Interval
    <3> QED BY <3>2, FS_Product
  <2>2. first \in [K -> A] /\ second \in [K -> A]
    <3> HIDE DEF gap
    <3> QED BY <1>1, <1>3
  <2>3. floor \in [A -> Int] /\ gap \in [K -> Int]
    <3>1. \A k \in K : ask(k[1], k[2]) \in Int
      <4> HIDE DEF ask, K, first, second, gap
      <4> QED BY <1>2, <1>3
    <3> HIDE DEF ask
    <3> QED BY <3>1
  <2>4. Unringed(A, K, first, second)
    <3>1. SUFFICES ASSUME NEW some \in SUBSET A, some # {}
                   PROVE  \E a \in some : \A k \in K : second[k] = a => first[k] \notin some
      BY DEF Unringed
    <3>2. some \in SUBSET Int /\ IsFiniteSet(some)
      <4> HIDE DEF K, first, second, floor, gap
      <4>1. IsFiniteSet(some)
        BY <2>1, <3>1, FS_Subset
      <4>2. some \in SUBSET Int
        BY <1>1, <3>1
      <4> QED BY <4>1, <4>2
    <3>3. PICK a \in some : \A x \in some : a =< x
      BY <3>1, <3>2, HasLeast
    <3>4. \A k \in K : second[k] = a => first[k] \notin some
      <4> HIDE DEF K, first, second, gap
      <4> QED BY <1>3, <3>2, <3>3
    <3> QED BY <3>4
  <2> HIDE DEF K, first, second, floor, gap
  <2> QED BY <2>1, <2>2, <2>3, <2>4 DEF IsWeb
<1>6. \A i \in A : floor[i] = 0
  OBVIOUS
<1> HIDE DEF K, first, second, floor, gap
<1>7. PICK h : h = [i \in A |-> G(h, i)]
  BY <1>5, WebIsDated
<1>8. \A i \in A : h[i] \in Int
  BY <1>5, <1>7, GrantedDates DEF Keeps
<1>9. ASSUME NEW i \in A PROVE G(h, i) = StartAsked(trades, flow, h, i)
  <2>1. CASE i = 1
    <3>1. {k \in K : second[k] = i} = {}
      BY <1>3, <2>1
    <3>2. {h[first[k]] + gap[k] : k \in {k \in K : second[k] = i}} = {}
      BY <3>1
    <3>3. G(h, i) = Max({0} \cup {})
      BY <1>6, <3>2 DEF Granted
    <3>4. {0} \cup {} = {0} /\ {0} \in SUBSET Int /\ 0 \in {0} /\ \A x \in {0} : x <= 0
      OBVIOUS
    <3>5. Max({0}) = 0
      BY <3>4, MaxKnown
    <3>6. Max({0} \cup {}) = 0
      BY <3>4, <3>5
    <3>7. StartAsked(trades, flow, h, i) = 0
      BY <2>1 DEF StartAsked
    <3> QED BY <3>3, <3>6, <3>7
  <2>2. CASE i # 1
    <3>1. i \in 2..Len(trades) /\ i - 1 \in A
      BY <1>1, <2>2
    <3>2. PICK b : b = h[i - 1]
      OBVIOUS
    <3>3. b \in Int
      BY <1>8, <3>1, <3>2
    <3>4. \A m \in 1..Len(flow) :
            b + ask(i, m) = b + Cumulative(trades[i - 1], flow, m + 1) + trades[i].buffer
                              - Cumulative(trades[i], flow, m)
      <4>1. TAKE m \in 1..Len(flow)
      <4>2. i \in 1..Len(trades) /\ trades[i].buffer \in Int
        BY <1>1 DEF Walkable
      <4>3. /\ \A n \in 1..Len(flow) : Cumulative(trades[i - 1], flow, n + 1) \in Nat
            /\ \A n \in 1..Len(flow) : Cumulative(trades[i], flow, n) \in Nat
        BY <3>1, <4>2, CumulativeIs
      <4>4. Cumulative(trades[i - 1], flow, m + 1) \in Nat /\ Cumulative(trades[i], flow, m) \in Nat
        BY <4>3
      <4> QED BY <3>3, <4>2, <4>4
    <3>5. Requirements(trades, flow, i, b) = {b + ask(i, m) : m \in 1..Len(flow)}
      <4>1. Requirements(trades, flow, i, b)
              = {b + Cumulative(trades[i - 1], flow, m + 1) + trades[i].buffer
                   - Cumulative(trades[i], flow, m) : m \in 1..Len(flow)}
        BY <1>1, Zenon DEF Requirements
      <4> HIDE DEF ask
      <4> QED BY <3>4, <4>1, Zenon
    <3>6. {h[first[k]] + gap[k] : k \in {k \in K : second[k] = i}} = {b + ask(i, m) : m \in 1..Len(flow)}
      <4> DEFINE X == {h[first[k]] + gap[k] : k \in {k \in K : second[k] = i}}
                 Y == {b + ask(i, m) : m \in 1..Len(flow)}
      <4>1. ASSUME NEW x \in X PROVE x \in Y
        <5>1. PICK k \in K : second[k] = i /\ x = h[first[k]] + gap[k]
          OBVIOUS
        <5>2. k[1] = i /\ k[2] \in 1..Len(flow) /\ first[k] = i - 1 /\ gap[k] = ask(i, k[2])
          BY <1>3, <5>1
        <5>3. x = b + ask(i, k[2])
          BY <3>2, <5>1, <5>2
        <5> HIDE DEF ask
        <5> QED BY <5>2, <5>3
      <4>2. ASSUME NEW y \in Y PROVE y \in X
        <5>1. PICK m \in 1..Len(flow) : y = b + ask(i, m)
          OBVIOUS
        <5>2. PICK k : k = <<i, m>>
          OBVIOUS
        <5>3. k \in K /\ second[k] = i /\ first[k] = i - 1 /\ gap[k] = ask(i, m)
          BY <1>4, <3>1, <5>2
        <5>4. y = h[first[k]] + gap[k]
          BY <3>2, <5>1, <5>3
        <5> HIDE DEF ask
        <5> QED BY <5>3, <5>4
      <4> HIDE DEF X, Y
      <4>3. X = Y
        BY <4>1, <4>2
      <4> QED BY <4>3 DEF X, Y
    <3>7. G(h, i) = Max({0} \cup Requirements(trades, flow, i, b))
      <4> HIDE DEF ask
      <4> QED BY <1>6, <3>5, <3>6 DEF Granted
    <3> QED BY <2>2, <3>2, <3>7 DEF StartAsked, AllAsk
  <2> QED BY <2>1, <2>2
<1>10. h = [i \in A |-> StartAsked(trades, flow, h, i)]
  <2> HIDE DEF G
  <2> QED BY <1>7, <1>9
<1> QED BY <1>10

\* The starts that are computed are these.
LEMMA LineStartsAre ==
  ASSUME NEW trades, NEW flow, Walkable(trades, flow)
  PROVE  AreLineStarts(trades, flow, LineStarts(trades, flow))
<1> DEFINE A == 1..Len(trades)
           R(f, i) == StartAsked(trades, flow, f, i)
<1>1. /\ Len(trades) \in Nat \ {0} /\ DOMAIN trades = A
      /\ \A i \in A : trades[i].buffer \in Int
  <2>1. Len(trades) \in Nat \ {0} /\ trades = [i \in 1..Len(trades) |-> trades[i]]
    BY DEF Walkable
  <2>2. DOMAIN trades = A
    BY <2>1, LengthIs
  <2> QED BY <2>1, <2>2 DEF Walkable
<1>2. PICK h : h = (CHOOSE f : f = [i \in A |-> R(f, i)])
  OBVIOUS
<1>3. h = [i \in A |-> R(h, i)]
  <2>1. \E f : f = [i \in A |-> R(f, i)]
    BY CrewsAreDated
  <2> HIDE DEF R
  <2> QED BY <1>2, <2>1, Zenon
<1>4. LineStarts(trades, flow) = h
  <2>1. LineStarts(trades, flow) = [i \in A |-> h[i]]
    BY <1>1, <1>2 DEF LineStarts, StartAsked, AllAsk
  <2>2. h = [i \in A |-> h[i]]
    <3> HIDE DEF R
    <3> QED BY <1>3
  <2> QED BY <2>1, <2>2
<1>5. \A i \in A : h[i] = R(h, i)
  <2> HIDE DEF R
  <2> QED BY <1>3
<1>6. h = [i \in A |-> h[i]]
  <2> HIDE DEF R
  <2> QED BY <1>3
<1>7. h[1] = 0
  <2>1. 1 \in A
    BY <1>1
  <2> QED BY <1>5, <2>1 DEF StartAsked
<1>8. \A i \in 2..Len(trades) :
        i \in A /\ i - 1 \in A /\ h[i] = AllAsk(trades, flow, i, h[i - 1])
  <2>1. TAKE i \in 2..Len(trades)
  <2>2. i \in A /\ i - 1 \in A /\ i # 1
    BY <1>1
  <2>3. h[i] = R(h, i)
    BY <1>5, <2>2
  <2> QED BY <2>2, <2>3 DEF StartAsked
<1> HIDE DEF R
<1>9. \A i \in A : h[i] \in Nat
  <2> DEFINE bad == {i \in A : h[i] \notin Nat}
  <2>1. SUFFICES ASSUME bad # {} PROVE FALSE
    OBVIOUS
  <2>2. bad \in SUBSET Int /\ IsFiniteSet(bad)
    <3>1. 1 \in Int /\ Len(trades) \in Int /\ bad \in SUBSET A
      BY <1>1
    <3>2. IsFiniteSet(A)
      BY <3>1, FS_Interval
    <3>3. IsFiniteSet(bad)
      BY <3>1, <3>2, FS_Subset
    <3> QED BY <3>1, <3>3
  <2>3. PICK i \in bad : \A x \in bad : i =< x
    <3> HIDE DEF bad
    <3> QED BY <2>1, <2>2, HasLeast
  <2>4. i \in 2..Len(trades)
    BY <1>1, <1>7
  <2>5. i - 1 \in A /\ i - 1 \notin bad
    BY <1>8, <2>2, <2>3, <2>4
  <2>6. h[i - 1] \in Int
    BY <2>5
  <2>7. PICK b : b = h[i - 1]
    OBVIOUS
  <2>8. h[i] = AllAsk(trades, flow, i, b) /\ b \in Int
    BY <1>8, <2>4, <2>6, <2>7
  <2>9. h[i] \in Nat
    BY <2>4, <2>8, RequirementsAre
  <2> QED BY <2>9
<1>10. ASSUME NEW i \in 2..Len(trades)
       PROVE  /\ \A m \in 1..Len(flow) : Gap(trades, flow, h, i, m) - trades[i].buffer >= 0
              /\ h[i] = 0 \/ \E m \in 1..Len(flow) : Gap(trades, flow, h, i, m) - trades[i].buffer = 0
  <2> DEFINE asked(m) == AskedBy(trades, flow, i, h[i - 1], m)
             clear(m) == Gap(trades, flow, h, i, m) - trades[i].buffer
  <2>1. PICK b : b = h[i - 1]
    OBVIOUS
  <2>2. /\ b \in Int /\ h[i] = AllAsk(trades, flow, i, b)
        /\ i \in A /\ i - 1 \in A /\ h[i] \in Nat /\ trades[i].buffer \in Int
    BY <1>1, <1>8, <1>9, <2>1
  <2>3. /\ \A m \in 1..Len(flow) : asked(m) \in Int /\ asked(m) <= h[i]
        /\ h[i] = 0 \/ \E m \in 1..Len(flow) : h[i] = asked(m)
    <3>1. PICK s : s = h[i]
      OBVIOUS
    <3>2. s = AllAsk(trades, flow, i, b) /\ b \in Int
      BY <2>2, <3>1
    <3>3. IsLeastAsked(trades, flow, i, b, s)
      BY <3>2, RequirementsAre
    <3> QED BY <2>1, <3>1, <3>3 DEF IsLeastAsked
  <2>4. ASSUME NEW m \in 1..Len(flow)
        PROVE  clear(m) = h[i] - asked(m)
    <3>1. /\ \A n \in 1..Len(flow) : Cumulative(trades[i - 1], flow, n + 1) \in Nat
          /\ \A n \in 1..Len(flow) : Cumulative(trades[i], flow, n) \in Nat
      BY <2>2, CumulativeIs
    <3>2. Cumulative(trades[i - 1], flow, m + 1) \in Int /\ Cumulative(trades[i], flow, m) \in Int
      BY <3>1
    <3>3. asked(m) = b + Cumulative(trades[i - 1], flow, m + 1) + trades[i].buffer
                       - Cumulative(trades[i], flow, m)
      BY <2>1 DEF AskedBy
    <3>4. Gap(trades, flow, h, i, m)
            = (h[i] + Cumulative(trades[i], flow, m)) - (b + Cumulative(trades[i - 1], flow, m + 1))
      BY <2>1 DEF Gap, SegmentStart
    <3>5. h[i] \in Int
      BY <2>2
    <3> HIDE DEF A, asked
    <3> QED BY <2>2, <3>2, <3>3, <3>4, <3>5
  <2>5. h[i] \in Int
    BY <2>2
  <2> HIDE DEF asked, clear
  <2>6. \A m \in 1..Len(flow) : clear(m) >= 0
    BY <2>3, <2>4, <2>5
  <2>7. h[i] = 0 \/ \E m \in 1..Len(flow) : clear(m) = 0
    BY <2>3, <2>4, <2>5
  <2> QED BY <2>6, <2>7 DEF clear
<1>11. AreLineStarts(trades, flow, h)
  BY <1>6, <1>7, <1>9, <1>10 DEF AreLineStarts
<1> QED BY <1>4, <1>11

-----------------------------------------------------------------------------
\* Crews and places as a network.

\* Counted row by row, so many rows of so many.
RowOf(k, width)    == ((k - 1) \div width) + 1
ColumnOf(k, width) == ((k - 1) % width) + 1

\* Counting reaches every row and column, and no other.
LEMMA CellsAre ==
  ASSUME NEW height \in Nat, NEW width \in Nat
  PROVE  /\ \A k \in 1..(height * width) : RowOf(k, width) \in 1..height /\ ColumnOf(k, width) \in 1..width
         /\ \A i \in 1..height : \A m \in 1..width :
              \E k \in 1..(height * width) : RowOf(k, width) = i /\ ColumnOf(k, width) = m
<1>1. ASSUME NEW k \in 1..(height * width)
      PROVE  RowOf(k, width) \in 1..height /\ ColumnOf(k, width) \in 1..width
  <2>1. width # 0
    <3>1. SUFFICES ASSUME width = 0 PROVE FALSE
      OBVIOUS
    <3>2. height * width = 0
      BY <3>1
    <3> QED BY <3>2
  <2>2. PICK x, q, r : x = k - 1 /\ q = x \div width /\ r = x % width
    OBVIOUS
  <2>3. x \in Nat /\ width \in Nat \ {0}
    BY <2>1, <2>2
  <2>4. q \in Int /\ width * q <= x /\ x < width * q + width
    BY <2>2, <2>3, DivisionIs
  <2>5. r \in 0..(width - 1)
    BY <2>2, <2>3
  <2>6. ~(q <= -1)
    <3>1. SUFFICES ASSUME q <= -1 PROVE FALSE
      OBVIOUS
    <3>2. width * q <= width * (-1) /\ width * q \in Int
      BY <2>4, <3>1, ProductGrows
    <3>3. width * (-1) = 0 - width
      OBVIOUS
    <3> QED BY <2>3, <2>4, <3>2, <3>3
  <2>7. ~(height <= q)
    <3>1. SUFFICES ASSUME height <= q PROVE FALSE
      OBVIOUS
    <3>2. width * height <= width * q /\ width * q \in Int /\ width * height \in Int
      BY <2>4, <3>1, ProductGrows
    <3>3. width * height = height * width
      OBVIOUS
    <3>4. k <= height * width /\ k \in Int
      OBVIOUS
    <3> QED BY <2>2, <2>4, <3>2, <3>3, <3>4
  <2>8. q + 1 \in 1..height
    BY <2>4, <2>6, <2>7
  <2>9. r + 1 \in 1..width
    BY <2>5
  <2>10. RowOf(k, width) = q + 1 /\ ColumnOf(k, width) = r + 1
    BY <2>2 DEF RowOf, ColumnOf
  <2> QED BY <2>8, <2>9, <2>10
<1>2. ASSUME NEW i \in 1..height, NEW m \in 1..width
      PROVE  \E k \in 1..(height * width) : RowOf(k, width) = i /\ ColumnOf(k, width) = m
  <2>1. PICK p : p = i - 1
    OBVIOUS
  <2>2. PICK y : y = width * p
    OBVIOUS
  <2>3. p \in Nat /\ y \in Nat /\ width \in Nat \ {0} /\ m \in Int
    BY <2>1, <2>2
  <2>4. PICK x : x = y + (m - 1)
    OBVIOUS
  <2>5. x \in Nat /\ width * p <= x /\ x < width * p + width
    BY <2>2, <2>3, <2>4
  <2>6. x \div width = p
    BY <2>3, <2>5, DivisionKnown
  <2>7. x % width = m - 1
    <3>1. x = width * (x \div width) + (x % width) /\ x % width \in Int
      BY <2>3, <2>5
    <3>2. x = y + (x % width)
      BY <2>2, <2>6, <3>1
    <3> QED BY <2>3, <2>4, <3>1, <3>2
  <2>8. x + 1 \in 1..(height * width)
    <3>1. p + 1 <= height /\ p + 1 \in Int
      BY <2>1
    <3>2. width * (p + 1) <= width * height
      BY <3>1, ProductGrows
    <3>3. width * (p + 1) = y + width
      BY <2>2, <2>3
    <3>4. width * height = height * width /\ height * width \in Nat
      OBVIOUS
    <3>5. x + 1 <= y + width
      BY <2>3, <2>4
    <3>6. x + 1 <= height * width
      BY <2>3, <2>5, <3>2, <3>3, <3>4, <3>5
    <3> QED BY <2>5, <3>4, <3>6
  <2>9. (x + 1) - 1 = x
    BY <2>5
  <2>10. RowOf(x + 1, width) = p + 1 /\ ColumnOf(x + 1, width) = (m - 1) + 1
    BY <2>6, <2>7, <2>9 DEF RowOf, ColumnOf
  <2>11. RowOf(x + 1, width) = i /\ ColumnOf(x + 1, width) = m
    BY <2>1, <2>3, <2>10
  <2> QED BY <2>8, <2>11
<1> QED BY <1>1, <1>2

\* From one of a crew's places to its next, and from one crew to the next.
OnToNext(i, m)           == FS(<<i, m>>, <<i, m + 1>>, 0)
HandedOver(trades, i, m) == FS(<<i, m>>, <<i + 1, m>>, trades[i + 1].buffer)

Slots(T, N) == (1..T) \X (1..N)

SlotLinks(T, N) == [pred : Slots(T, N), succ : Slots(T, N), type : {"FS", "SS", "FF", "SF"}, lag : Int]

\* Links of T crews through N places: the chains, and the handovers.
IsGrid(links, trades, T, N) ==
  /\ links \in Seq(SlotLinks(T, N))
  /\ \A k \in DOMAIN links :
       \/ \E i \in 1..T : \E m \in 1..(N - 1) : links[k] = OnToNext(i, m)
       \/ \E i \in 1..(T - 1) : \E m \in 1..N : links[k] = HandedOver(trades, i, m)
  /\ \A i \in 1..T : \A m \in 1..(N - 1) : \E k \in DOMAIN links : links[k] = OnToNext(i, m)

\* What a grid needs.
CanGrid(line, trades, T, N) ==
  /\ T \in Nat \ {0} /\ N \in Nat \ {0} /\ Len(trades) = T /\ Len(line.flow) = N
  /\ \A i \in 1..T : trades[i].buffer \in Int

\* The links of the network are one.
LEMMA NetworkIsAGrid ==
  ASSUME NEW line, NEW trades, NEW T, NEW N, CanGrid(line, trades, T, N)
  PROVE  IsGrid(ToNetwork(line, trades).links, trades, T, N)
<1> DEFINE X == SlotLinks(T, N)
           chains == [k \in 1..(T * (N - 1)) |-> OnToNext(RowOf(k, N - 1), ColumnOf(k, N - 1))]
           handovers == [k \in 1..((T - 1) * N) |-> HandedOver(trades, RowOf(k, N), ColumnOf(k, N))]
<1>1. T \in Nat \ {0} /\ N \in Nat \ {0} /\ N - 1 \in Nat /\ T - 1 \in Nat
  BY DEF CanGrid
<1>2. ToNetwork(line, trades).links = chains \o handovers
  BY DEF ToNetwork, CanGrid, OnToNext, HandedOver, RowOf, ColumnOf
<1>3. \A k \in 1..(T * (N - 1)) : RowOf(k, N - 1) \in 1..T /\ ColumnOf(k, N - 1) \in 1..(N - 1)
  BY <1>1, CellsAre
<1>4. \A k \in 1..((T - 1) * N) : RowOf(k, N) \in 1..(T - 1) /\ ColumnOf(k, N) \in 1..N
  BY <1>1, CellsAre
<1>5. ASSUME NEW i \in 1..T, NEW m \in 1..(N - 1) PROVE OnToNext(i, m) \in X
  <2>1. <<i, m>> \in Slots(T, N) /\ <<i, m + 1>> \in Slots(T, N)
    BY <1>1 DEF Slots
  <2> QED BY <2>1 DEF OnToNext, FS, SlotLinks
<1>6. ASSUME NEW i \in 1..(T - 1), NEW m \in 1..N PROVE HandedOver(trades, i, m) \in X
  <2>1. <<i, m>> \in Slots(T, N) /\ <<i + 1, m>> \in Slots(T, N) /\ i + 1 \in 1..T
    BY <1>1 DEF Slots
  <2>2. trades[i + 1].buffer \in Int
    BY <2>1 DEF CanGrid
  <2> QED BY <2>1, <2>2 DEF HandedOver, FS, SlotLinks
<1>7. T * (N - 1) \in Nat /\ (T - 1) * N \in Nat
  BY <1>1
<1>8. DOMAIN chains = 1..(T * (N - 1)) /\ DOMAIN handovers = 1..((T - 1) * N)
  OBVIOUS
<1>9. \A k \in DOMAIN chains : chains[k] = OnToNext(RowOf(k, N - 1), ColumnOf(k, N - 1))
  OBVIOUS
<1>10. \A k \in DOMAIN handovers : handovers[k] = HandedOver(trades, RowOf(k, N), ColumnOf(k, N))
  OBVIOUS
<1>11. chains \in [1..(T * (N - 1)) -> X]
  <2>1. \A k \in 1..(T * (N - 1)) : OnToNext(RowOf(k, N - 1), ColumnOf(k, N - 1)) \in X
    <3> HIDE DEF X, chains
    <3> QED BY <1>3, <1>5
  <2> HIDE DEF X
  <2> QED BY <2>1
<1>12. handovers \in [1..((T - 1) * N) -> X]
  <2>1. \A k \in 1..((T - 1) * N) : HandedOver(trades, RowOf(k, N), ColumnOf(k, N)) \in X
    <3> HIDE DEF X, handovers
    <3> QED BY <1>4, <1>6
  <2> HIDE DEF X
  <2> QED BY <2>1
<1> HIDE DEF X, chains, handovers
<1>13. chains \in Seq(X) /\ handovers \in Seq(X)
  BY <1>7, <1>11, <1>12, IsASeq
<1>14. PICK links : links = chains \o handovers
  OBVIOUS
<1>15. HasBoth(X, chains, handovers, links)
  BY <1>13, <1>14, BothLists
<1>16. ASSUME NEW k \in DOMAIN links
       PROVE  \/ \E i \in 1..T : \E m \in 1..(N - 1) : links[k] = OnToNext(i, m)
              \/ \E i \in 1..(T - 1) : \E m \in 1..N : links[k] = HandedOver(trades, i, m)
  <2>1. (\E j \in DOMAIN chains : links[k] = chains[j]) \/ (\E j \in DOMAIN handovers : links[k] = handovers[j])
    BY <1>15 DEF HasBoth
  <2>2. ASSUME NEW j \in DOMAIN chains, links[k] = chains[j]
        PROVE  \E i \in 1..T : \E m \in 1..(N - 1) : links[k] = OnToNext(i, m)
    BY <1>3, <1>8, <1>9, <2>2, Zenon
  <2>3. ASSUME NEW j \in DOMAIN handovers, links[k] = handovers[j]
        PROVE  \E i \in 1..(T - 1) : \E m \in 1..N : links[k] = HandedOver(trades, i, m)
    BY <1>4, <1>8, <1>10, <2>3, Zenon
  <2> QED BY <2>1, <2>2, <2>3
<1>17. ASSUME NEW i \in 1..T, NEW m \in 1..(N - 1)
       PROVE  \E k \in DOMAIN links : links[k] = OnToNext(i, m)
  <2>0. PICK w : w = N - 1
    OBVIOUS
  <2>1. PICK j \in 1..(T * w) : RowOf(j, w) = i /\ ColumnOf(j, w) = m
    <3>1. T \in Nat /\ w \in Nat /\ i \in 1..T /\ m \in 1..w
      BY <1>1, <2>0
    <3>2. \A x \in 1..T : \A y \in 1..w : \E k \in 1..(T * w) : RowOf(k, w) = x /\ ColumnOf(k, w) = y
      BY <3>1, CellsAre
    <3> QED BY <3>1, <3>2
  <2>2. j \in DOMAIN chains /\ chains[j] = OnToNext(i, m)
    BY <1>8, <1>9, <2>0, <2>1
  <2>3. \E k \in DOMAIN links : links[k] = chains[j]
    BY <1>15, <2>2 DEF HasBoth
  <2> QED BY <2>2, <2>3
<1>18. links \in Seq(X)
  BY <1>15 DEF HasBoth
<1>19. IsGrid(links, trades, T, N)
  BY <1>16, <1>17, <1>18 DEF IsGrid, X
<1> QED BY <1>2, <1>14, <1>19

\* Slots with such links between them.
IsGridPlan(plan, trades, T, N) ==
  /\ T \in Nat \ {0} /\ N \in Nat \ {0}
  /\ plan = [tasks |-> plan.tasks, links |-> plan.links]
  /\ DOMAIN plan.tasks = Slots(T, N)
  /\ plan.tasks \in [Slots(T, N) -> [dur : Nat, floor : Nat, code : Nat]]
  /\ IsGrid(plan.links, trades, T, N)
  /\ \A i \in 1..T : trades[i].buffer \in Int

\* A slot and the place or the crew after it.
JoinsSlots(link, trades, T, N) ==
  \/ \E i \in 1..T : \E m \in 1..(N - 1) :
       /\ link.pred = <<i, m>> /\ link.succ = <<i, m + 1>>
       /\ link.type = "FS" /\ link.lag = 0
  \/ \E i \in 1..(T - 1) : \E m \in 1..N :
       /\ link.pred = <<i, m>> /\ link.succ = <<i + 1, m>>
       /\ link.type = "FS" /\ link.lag = trades[i + 1].buffer

\* Every link joins such.
LEMMA LinkEnds ==
  ASSUME NEW links, NEW trades, NEW T, NEW N, IsGrid(links, trades, T, N),
         NEW k \in DOMAIN links
  PROVE  JoinsSlots(links[k], trades, T, N)
<1>1. CASE \E i \in 1..T : \E m \in 1..(N - 1) : links[k] = OnToNext(i, m)
  BY <1>1 DEF OnToNext, FS, JoinsSlots
<1>2. CASE \E i \in 1..(T - 1) : \E m \in 1..N : links[k] = HandedOver(trades, i, m)
  BY <1>2 DEF HandedOver, FS, JoinsSlots
<1> QED BY <1>1, <1>2 DEF IsGrid

\* They are a plan: of any slots, none comes before the one whose crew and place
\* together are the least.
LEMMA GridIsPlan ==
  ASSUME NEW plan, NEW trades, NEW T, NEW N, IsGridPlan(plan, trades, T, N)
  PROVE  IsPlan(plan)
<1> DEFINE A == Slots(T, N)
<1>1. T \in Nat \ {0} /\ N \in Nat \ {0} /\ IsGrid(plan.links, trades, T, N) /\ DOMAIN plan.tasks = A
  BY DEF IsGridPlan
<1>2. IsFiniteSet(A)
  <2>1. 1 \in Int /\ T \in Int /\ N \in Int
    BY <1>1
  <2>2. IsFiniteSet(1..T) /\ IsFiniteSet(1..N)
    BY <2>1, FS_Interval
  <2> QED BY <2>2, FS_Product DEF Slots
<1>3. A # {}
  <2>1. <<1, 1>> \in A
    BY <1>1 DEF Slots
  <2> QED BY <2>1
<1>4. \A s \in A : s[1] \in 1..T /\ s[2] \in 1..N
  BY DEF Slots
<1>5. NoRing(plan)
  <2>1. SUFFICES ASSUME NEW some \in SUBSET A, some # {}
                 PROVE  \E a \in some : \A k \in Into(plan, a) : plan.links[k].pred \notin some
    BY <1>1 DEF NoRing
  <2>2. PICK sum : sum = [s \in some |-> s[1] + s[2]]
    OBVIOUS
  <2>3. DOMAIN sum = some /\ \A s \in some : sum[s] = s[1] + s[2] /\ sum[s] \in Int
    BY <1>4, <2>2
  <2>4. PICK S : S = {sum[s] : s \in some}
    OBVIOUS
  <2>5. IsFiniteSet(S)
    <3>1. IsFiniteSet(some)
      BY <1>2, FS_Subset
    <3> QED BY <2>3, <2>4, <3>1, FinitelyMany
  <2>6. S \in SUBSET Int /\ S # {}
    BY <2>1, <2>3, <2>4
  <2>7. PICK x \in S : \A y \in S : x =< y
    BY <2>5, <2>6, HasLeast
  <2>8. PICK a \in some : sum[a] = x
    BY <2>4
  <2>9. ASSUME NEW k \in Into(plan, a), plan.links[k].pred \in some PROVE FALSE
    <3>1. k \in DOMAIN plan.links /\ plan.links[k].succ = a
      BY DEF Into
    <3>2. PICK p : p = plan.links[k].pred
      OBVIOUS
    <3>3. p \in some /\ sum[p] \in S /\ sum[p] \in Int /\ sum[a] \in Int
      BY <2>3, <2>4, <2>9, <3>2
    <3>4. p[1] \in Int /\ p[2] \in Int /\ a[1] + a[2] = p[1] + p[2] + 1
      <4>1. \/ \E i \in 1..T : \E m \in 1..(N - 1) : p = <<i, m>> /\ a = <<i, m + 1>>
            \/ \E i \in 1..(T - 1) : \E m \in 1..N : p = <<i, m>> /\ a = <<i + 1, m>>
        <5>1. JoinsSlots(plan.links[k], trades, T, N)
          BY <1>1, <3>1, LinkEnds
        <5> QED BY <3>1, <3>2, <5>1 DEF JoinsSlots
      <4> QED BY <1>1, <4>1
    <3>5. sum[a] = sum[p] + 1
      BY <2>3, <3>3, <3>4
    <3> QED BY <2>7, <2>8, <3>3, <3>5
  <2> QED BY <2>9
<1>6. plan.links \in Seq([pred : A, succ : A, type : {"FS", "SS", "FF", "SF"}, lag : Int])
  BY <1>1 DEF IsGrid, SlotLinks
<1>7. plan.tasks \in [A -> [dur : Nat, floor : Nat, code : Nat]] /\ plan = [tasks |-> plan.tasks, links |-> plan.links]
  BY DEF IsGridPlan
<1> HIDE DEF A
<1> QED BY <1>1, <1>2, <1>3, <1>5, <1>6, <1>7 DEF IsPlan

\* Dates that keep a plan and are each set by something are its early starts.
LEMMA StartsKnown ==
  ASSUME NEW plan, IsPlan(plan), NEW h, Meets(plan, h), Tight(plan, h)
  PROVE  \A a \in DOMAIN plan.tasks : EarlyStarts(plan)[a] = h[a] /\ h[a] \in Int
<1>1. PICK e : e = EarlyStarts(plan)
  OBVIOUS
<1>2. Meets(plan, e) /\ Tight(plan, e)
  BY <1>1, EarlyStartsAre
<1>3. \A a \in DOMAIN plan.tasks : e[a] \in Int /\ h[a] \in Int
  BY <1>2 DEF Meets
<1>4. \A a \in DOMAIN plan.tasks : e[a] <= h[a]
  BY <1>2, <1>3, TightIsLeast
<1>5. \A a \in DOMAIN plan.tasks : h[a] <= e[a]
  BY <1>2, <1>3, TightIsLeast
<1> QED BY <1>1, <1>3, <1>4, <1>5

\* Starts of slots: after the floor, the crew's place before, and the crew in
\* front; and as early as the floor or the place before.
WalksGrid(plan, trades, T, N, h) ==
  /\ \A s \in Slots(T, N) : h[s] \in Int /\ plan.tasks[s].floor <= h[s]
  /\ \A i \in 1..T : \A m \in 1..(N - 1) :
       h[<<i, m>>] + plan.tasks[<<i, m>>].dur <= h[<<i, m + 1>>]
  /\ \A i \in 1..(T - 1) : \A m \in 1..N :
       h[<<i, m>>] + plan.tasks[<<i, m>>].dur + trades[i + 1].buffer <= h[<<i + 1, m>>]
  /\ \A s \in Slots(T, N) :
       \/ h[s] = plan.tasks[s].floor
       \/ \E m \in 1..(N - 1) : /\ s = <<s[1], m + 1>>
                                /\ h[s] = h[<<s[1], m>>] + plan.tasks[<<s[1], m>>].dur

\* Such starts are the early ones.
LEMMA GridStarts ==
  ASSUME NEW plan, NEW trades, NEW T, NEW N, IsGridPlan(plan, trades, T, N),
         NEW h, WalksGrid(plan, trades, T, N, h)
  PROVE  IsPlan(plan) /\ \A s \in Slots(T, N) : EarlyStarts(plan)[s] = h[s] /\ h[s] \in Int
<1>1. /\ T \in Nat \ {0} /\ N \in Nat \ {0} /\ IsGrid(plan.links, trades, T, N)
      /\ DOMAIN plan.tasks = Slots(T, N)
      /\ \A i \in 1..T : trades[i].buffer \in Int
  BY DEF IsGridPlan
<1>2. IsPlan(plan)
  BY GridIsPlan
<1>3. \A s \in Slots(T, N) : plan.tasks[s].dur \in Nat
  BY <1>1, <1>2, InPlan
<1>4. ASSUME NEW k \in DOMAIN plan.links, plan.links[k].type = "FS"
      PROVE  Off(plan, k) = plan.tasks[plan.links[k].pred].dur + plan.links[k].lag
  <2>1. plan.links[k].pred \in DOMAIN plan.tasks /\ plan.links[k].lag \in Int
    BY <1>2, InPlan
  <2>2. plan.tasks[plan.links[k].pred].dur \in Int
    BY <1>1, <1>3, <2>1
  <2> QED BY <1>4, <2>1, <2>2 DEF Off, StartBound
<1>5. Meets(plan, h)
  <2>1. ASSUME NEW k \in DOMAIN plan.links
        PROVE  h[plan.links[k].pred] + Off(plan, k) <= h[plan.links[k].succ]
    <3>1. CASE \E i \in 1..T : \E m \in 1..(N - 1) :
                 /\ plan.links[k].pred = <<i, m>> /\ plan.links[k].succ = <<i, m + 1>>
                 /\ plan.links[k].type = "FS" /\ plan.links[k].lag = 0
      <4>1. PICK i \in 1..T, m \in 1..(N - 1) :
              /\ plan.links[k].pred = <<i, m>> /\ plan.links[k].succ = <<i, m + 1>>
              /\ plan.links[k].type = "FS" /\ plan.links[k].lag = 0
        BY <3>1
      <4>2. <<i, m>> \in Slots(T, N)
        BY <1>1 DEF Slots
      <4>3. h[<<i, m>>] + plan.tasks[<<i, m>>].dur <= h[<<i, m + 1>>]
        BY DEF WalksGrid
      <4>4. h[<<i, m>>] \in Int /\ plan.tasks[<<i, m>>].dur \in Int
        BY <1>3, <4>2 DEF WalksGrid
      <4>5. Off(plan, k) = plan.tasks[<<i, m>>].dur + 0
        BY <1>4, <4>1
      <4>6. Off(plan, k) = plan.tasks[<<i, m>>].dur
        BY <4>4, <4>5
      <4> QED BY <4>1, <4>3, <4>6
    <3>2. CASE \E i \in 1..(T - 1) : \E m \in 1..N :
                 /\ plan.links[k].pred = <<i, m>> /\ plan.links[k].succ = <<i + 1, m>>
                 /\ plan.links[k].type = "FS" /\ plan.links[k].lag = trades[i + 1].buffer
      <4>1. PICK i \in 1..(T - 1), m \in 1..N :
              /\ plan.links[k].pred = <<i, m>> /\ plan.links[k].succ = <<i + 1, m>>
              /\ plan.links[k].type = "FS" /\ plan.links[k].lag = trades[i + 1].buffer
        BY <3>2
      <4>2. <<i, m>> \in Slots(T, N) /\ i + 1 \in 1..T
        BY <1>1 DEF Slots
      <4>3. h[<<i, m>>] + plan.tasks[<<i, m>>].dur + trades[i + 1].buffer <= h[<<i + 1, m>>]
        BY DEF WalksGrid
      <4>4. h[<<i, m>>] \in Int /\ plan.tasks[<<i, m>>].dur \in Int /\ trades[i + 1].buffer \in Int
        BY <1>1, <1>3, <4>2 DEF WalksGrid
      <4>5. PICK d, b, x : d = plan.tasks[<<i, m>>].dur /\ b = trades[i + 1].buffer /\ x = h[<<i, m>>]
        OBVIOUS
      <4>6. Off(plan, k) = d + b
        BY <1>4, <4>1, <4>5
      <4>7. x + (d + b) = (x + d) + b
        BY <4>4, <4>5
      <4> QED BY <4>1, <4>3, <4>5, <4>6, <4>7
    <3>3. JoinsSlots(plan.links[k], trades, T, N)
      BY <1>1, LinkEnds
    <3> QED BY <3>1, <3>2, <3>3 DEF JoinsSlots
  <2>2. \A a \in DOMAIN plan.tasks : h[a] \in Int /\ plan.tasks[a].floor <= h[a]
    BY <1>1 DEF WalksGrid
  <2> QED BY <2>1, <2>2 DEF Meets
<1>6. Tight(plan, h)
  <2>1. SUFFICES ASSUME NEW s \in Slots(T, N), h[s] # plan.tasks[s].floor
                 PROVE  \E k \in DOMAIN plan.links : /\ plan.links[k].succ = s
                                                     /\ h[s] = h[plan.links[k].pred] + Off(plan, k)
    BY <1>1 DEF Tight
  <2>2. PICK m \in 1..(N - 1) : /\ s = <<s[1], m + 1>>
                                /\ h[s] = h[<<s[1], m>>] + plan.tasks[<<s[1], m>>].dur
    BY <2>1 DEF WalksGrid
  <2>3. PICK i : i = s[1]
    OBVIOUS
  <2>4. i \in 1..T
    BY <2>3 DEF Slots
  <2>5. PICK k \in DOMAIN plan.links : plan.links[k] = OnToNext(i, m)
    BY <1>1, <2>4 DEF IsGrid
  <2>6. /\ plan.links[k].pred = <<i, m>> /\ plan.links[k].succ = <<i, m + 1>>
        /\ plan.links[k].type = "FS" /\ plan.links[k].lag = 0
    BY <2>5 DEF OnToNext, FS
  <2>7. <<i, m>> \in Slots(T, N)
    BY <1>1, <2>4 DEF Slots
  <2>8. plan.tasks[<<i, m>>].dur \in Int
    BY <1>3, <2>7
  <2>9. Off(plan, k) = plan.tasks[<<i, m>>].dur + 0
    BY <1>4, <2>6
  <2>10. Off(plan, k) = plan.tasks[<<i, m>>].dur
    BY <2>8, <2>9
  <2> QED BY <2>2, <2>3, <2>6, <2>10
<1>7. \A a \in DOMAIN plan.tasks : EarlyStarts(plan)[a] = h[a] /\ h[a] \in Int
  BY <1>2, <1>5, <1>6, StartsKnown
<1> QED BY <1>1, <1>2, <1>7

\* The slots of lines in a network: what they hold.
LEMMA LineNetwork ==
  ASSUME NEW trades, NEW flow, Walkable(trades, flow),
         NEW start, AreLineStarts(trades, flow, start),
         NEW line, line.flow = flow, line.start = start,
         NEW network, network = ToNetwork(line, trades)
  PROVE  /\ IsGridPlan(network, trades, Len(trades), Len(flow))
         /\ \A s \in Slots(Len(trades), Len(flow)) :
              /\ network.tasks[s].dur = WorkContent(trades[s[1]], flow[s[2]])
              /\ network.tasks[s].floor = IF s[2] = 1 THEN start[s[1]] ELSE 0
<1> DEFINE T == Len(trades)
           N == Len(flow)
           X == [dur : Nat, floor : Nat, code : Nat]
           task(s) == [dur |-> WorkContent(trades[s[1]], flow[s[2]]),
                       floor |-> HeldFrom(line, s[1], s[2]), code |-> 0]
<1>1. /\ T \in Nat \ {0} /\ N \in Nat \ {0} /\ DOMAIN trades = 1..T /\ DOMAIN flow = 1..N
      /\ \A i \in 1..T : trades[i].buffer \in Int
      /\ \A i \in 1..T : \A n \in 1..N : WorkContent(trades[i], flow[n]) \in Nat
  <2>1. /\ T \in Nat \ {0} /\ N \in Nat \ {0}
        /\ trades = [i \in 1..T |-> trades[i]] /\ flow = [n \in 1..N |-> flow[n]]
    BY DEF Walkable
  <2>2. DOMAIN trades = 1..T /\ DOMAIN flow = 1..N
    BY <2>1, LengthIs
  <2> QED BY <2>1, <2>2 DEF Walkable
<1>2. \A i \in 1..T : start[i] \in Nat
  BY DEF AreLineStarts
<1>3. PICK tasks, links : tasks = network.tasks /\ links = network.links
  OBVIOUS
<1>4. network = [tasks |-> tasks, links |-> links] /\ tasks = [s \in Slots(T, N) |-> task(s)]
      /\ links = ToNetwork(line, trades).links
  <2>1. tasks = [s \in Slots(T, N) |-> task(s)]
    BY <1>1, <1>3 DEF ToNetwork, Slots
  <2>2. network = [tasks |-> tasks, links |-> links]
    BY <1>3 DEF ToNetwork
  <2> QED BY <1>3, <2>1, <2>2
<1>5. \A s \in Slots(T, N) : s[1] \in 1..T /\ s[2] \in 1..N
  BY DEF Slots
<1>6. \A s \in Slots(T, N) : /\ HeldFrom(line, s[1], s[2]) = (IF s[2] = 1 THEN start[s[1]] ELSE 0)
                            /\ HeldFrom(line, s[1], s[2]) \in Nat
  BY <1>2, <1>5 DEF HeldFrom
<1>7. ASSUME NEW s \in Slots(T, N)
      PROVE  task(s) \in X /\ task(s).dur = WorkContent(trades[s[1]], flow[s[2]])
             /\ task(s).floor = HeldFrom(line, s[1], s[2])
  <2>1. WorkContent(trades[s[1]], flow[s[2]]) \in Nat /\ HeldFrom(line, s[1], s[2]) \in Nat
    BY <1>1, <1>5, <1>6
  <2> QED BY <2>1
<1> HIDE DEF task, X
<1>8. tasks \in [Slots(T, N) -> X] /\ DOMAIN tasks = Slots(T, N)
  BY <1>4, <1>7
<1>9. \A s \in Slots(T, N) : tasks[s] = task(s)
  BY <1>4
<1>10. CanGrid(line, trades, T, N)
  BY <1>1 DEF CanGrid
<1>11. IsGrid(links, trades, T, N)
  BY <1>4, <1>10, NetworkIsAGrid
<1>12. IsGridPlan(network, trades, T, N)
  <2>1. network.tasks = tasks /\ network.links = links
    BY <1>3
  <2> QED BY <1>1, <1>4, <1>8, <1>11, <2>1 DEF IsGridPlan, X
<1>13. \A s \in Slots(T, N) : /\ network.tasks[s].dur = WorkContent(trades[s[1]], flow[s[2]])
                             /\ network.tasks[s].floor = (IF s[2] = 1 THEN start[s[1]] ELSE 0)
  BY <1>3, <1>6, <1>7, <1>9
<1> QED BY <1>12, <1>13

\* A crew is in a place from when it gets there to when it goes to the next.
LEMMA SegmentsAre ==
  ASSUME NEW trades, NEW flow, Walkable(trades, flow),
         NEW start, AreLineStarts(trades, flow, start), NEW i \in 1..Len(trades)
  PROVE  /\ SegmentStart(trades, flow, start, i, 1) = start[i]
         /\ \A n \in 1..Len(flow) :
              /\ SegmentStart(trades, flow, start, i, n) \in Nat
              /\ SegmentStart(trades, flow, start, i, n + 1) \in Nat
              /\ SegmentStart(trades, flow, start, i, n + 1)
                   = SegmentStart(trades, flow, start, i, n) + WorkContent(trades[i], flow[n])
              /\ SegmentStart(trades, flow, start, i, n + 1)
                   <= SegmentStart(trades, flow, start, i, Len(flow) + 1)
         /\ SegmentStart(trades, flow, start, i, Len(flow) + 1) \in Nat
<1> DEFINE N == Len(flow)
           C(n) == Cumulative(trades[i], flow, n)
           W(n) == WorkContent(trades[i], flow[n])
<1>1. start[i] \in Nat /\ N \in Nat \ {0} /\ \A n \in 1..N : W(n) \in Nat
  BY DEF AreLineStarts, Walkable
<1>2. /\ C(1) = 0
      /\ \A n \in 1..N : /\ C(n) \in Nat /\ C(n + 1) \in Nat /\ C(n + 1) = C(n) + W(n)
                         /\ C(n + 1) <= C(N + 1)
  BY CumulativeIs
<1>3. \A n \in 1..(N + 1) : SegmentStart(trades, flow, start, i, n) = start[i] + C(n)
  BY DEF SegmentStart
<1> HIDE DEF C, W
<1>4. C(N + 1) \in Nat
  BY <1>1, <1>2
<1>5. SegmentStart(trades, flow, start, i, 1) = start[i]
  BY <1>1, <1>2, <1>3
<1>6. SegmentStart(trades, flow, start, i, N + 1) = start[i] + C(N + 1)
  BY <1>1, <1>3
<1>7. ASSUME NEW n \in 1..N
      PROVE  /\ SegmentStart(trades, flow, start, i, n) \in Nat
             /\ SegmentStart(trades, flow, start, i, n + 1) \in Nat
             /\ SegmentStart(trades, flow, start, i, n + 1)
                  = SegmentStart(trades, flow, start, i, n) + W(n)
             /\ SegmentStart(trades, flow, start, i, n + 1) <= SegmentStart(trades, flow, start, i, N + 1)
  <2>1. /\ SegmentStart(trades, flow, start, i, n) = start[i] + C(n)
        /\ SegmentStart(trades, flow, start, i, n + 1) = start[i] + C(n + 1)
    BY <1>1, <1>3
  <2>2. C(n) \in Nat /\ C(n + 1) \in Nat /\ C(n + 1) = C(n) + W(n) /\ C(n + 1) <= C(N + 1) /\ W(n) \in Nat
    BY <1>1, <1>2
  <2> QED BY <1>1, <1>4, <1>6, <2>1, <2>2
<1> QED BY <1>1, <1>4, <1>5, <1>6, <1>7 DEF W

\* The network gives the dates of the lines.
LEMMA NetworkWalks ==
  ASSUME NEW trades, NEW flow, Walkable(trades, flow),
         NEW start, AreLineStarts(trades, flow, start),
         NEW line, line.flow = flow, line.start = start,
         NEW network, network = ToNetwork(line, trades)
  PROVE  /\ IsPlan(network)
         /\ \A i \in 1..Len(trades) : \A m \in 1..Len(flow) :
              EarlyStarts(network)[<<i, m>>] = SegmentStart(trades, flow, start, i, m)
<1> DEFINE T == Len(trades)
           N == Len(flow)
           at(i, m) == SegmentStart(trades, flow, start, i, m)
<1>1. T \in Nat \ {0} /\ N \in Nat \ {0} /\ \A i \in 1..T : trades[i].buffer \in Int
  BY DEF Walkable
<1>2. /\ IsGridPlan(network, trades, T, N)
      /\ \A s \in Slots(T, N) :
           /\ network.tasks[s].dur = WorkContent(trades[s[1]], flow[s[2]])
           /\ network.tasks[s].floor = IF s[2] = 1 THEN start[s[1]] ELSE 0
  BY LineNetwork
<1>3. ASSUME NEW i \in 1..T
      PROVE  /\ at(i, 1) = start[i] /\ start[i] \in Nat
             /\ \A n \in 1..N : /\ at(i, n) \in Nat /\ at(i, n + 1) \in Nat
                                /\ at(i, n + 1) = at(i, n) + WorkContent(trades[i], flow[n])
  <2>1. start[i] \in Nat
    BY DEF AreLineStarts
  <2> QED BY <2>1, SegmentsAre
<1>4. ASSUME NEW i \in 1..(T - 1), NEW m \in 1..N
      PROVE  at(i, m + 1) + trades[i + 1].buffer <= at(i + 1, m)
  <2>1. i + 1 \in 2..T /\ i \in 1..T /\ i + 1 \in 1..T /\ (i + 1) - 1 = i
    BY <1>1
  <2>2. Gap(trades, flow, start, i + 1, m) - trades[i + 1].buffer >= 0
    BY <2>1 DEF AreLineStarts
  <2>3. Gap(trades, flow, start, i + 1, m) = at(i + 1, m) - at(i, m + 1)
    BY <2>1 DEF Gap
  <2>4. at(i + 1, m) \in Int /\ at(i, m + 1) \in Int /\ trades[i + 1].buffer \in Int
    BY <1>1, <1>3, <2>1
  <2> HIDE DEF at
  <2> QED BY <2>2, <2>3, <2>4
<1>5. \A i \in 1..T : \A m \in 1..N : <<i, m>> \in Slots(T, N)
  BY DEF Slots
<1>6. \A s \in Slots(T, N) : s[1] \in 1..T /\ s[2] \in 1..N /\ s = <<s[1], s[2]>>
  BY DEF Slots
<1> HIDE DEF at
<1>7. PICK h : h = [s \in Slots(T, N) |-> at(s[1], s[2])]
  OBVIOUS
<1>8. \A i \in 1..T : \A m \in 1..N : /\ h[<<i, m>>] = at(i, m)
                                      /\ network.tasks[<<i, m>>].dur = WorkContent(trades[i], flow[m])
                                      /\ network.tasks[<<i, m>>].floor = IF m = 1 THEN start[i] ELSE 0
  <2>1. TAKE i \in 1..T
  <2>2. TAKE m \in 1..N
  <2>3. PICK s : s = <<i, m>>
    OBVIOUS
  <2>4. s \in Slots(T, N) /\ s[1] = i /\ s[2] = m
    BY <1>5, <2>3
  <2>5. h[s] = at(i, m)
    BY <1>7, <2>4
  <2> QED BY <1>2, <2>3, <2>4, <2>5
<1>9. \A s \in Slots(T, N) : h[s] \in Int /\ network.tasks[s].floor <= h[s]
  <2>1. TAKE s \in Slots(T, N)
  <2>2. PICK i, m : i = s[1] /\ m = s[2]
    OBVIOUS
  <2>3. i \in 1..T /\ m \in 1..N
    BY <1>6, <2>2
  <2>4. h[s] = at(i, m) /\ network.tasks[s].floor = (IF m = 1 THEN start[i] ELSE 0)
    BY <1>2, <1>7, <2>2
  <2>5. at(i, m) \in Nat /\ at(i, 1) = start[i]
    BY <1>3, <2>3
  <2> QED BY <2>4, <2>5
<1>10. \A i \in 1..T : \A m \in 1..(N - 1) :
         /\ h[<<i, m>>] + network.tasks[<<i, m>>].dur = h[<<i, m + 1>>]
  <2>1. TAKE i \in 1..T
  <2>2. TAKE m \in 1..(N - 1)
  <2>3. m \in 1..N /\ m + 1 \in 1..N
    BY <1>1
  <2>4. h[<<i, m>>] = at(i, m) /\ h[<<i, m + 1>>] = at(i, m + 1)
        /\ network.tasks[<<i, m>>].dur = WorkContent(trades[i], flow[m])
    BY <1>8, <2>3
  <2>5. at(i, m + 1) = at(i, m) + WorkContent(trades[i], flow[m])
    BY <1>3, <2>3
  <2> QED BY <2>4, <2>5
<1>11. \A i \in 1..T : \A m \in 1..(N - 1) :
         h[<<i, m>>] + network.tasks[<<i, m>>].dur <= h[<<i, m + 1>>]
  <2>1. TAKE i \in 1..T
  <2>2. TAKE m \in 1..(N - 1)
  <2>3. h[<<i, m + 1>>] \in Int
    <3>1. m + 1 \in 1..N
      BY <1>1
    <3> QED BY <1>3, <1>8, <3>1
  <2>4. h[<<i, m>>] + network.tasks[<<i, m>>].dur = h[<<i, m + 1>>]
    BY <1>10
  <2> QED BY <2>3, <2>4
<1>12. \A i \in 1..(T - 1) : \A m \in 1..N :
         h[<<i, m>>] + network.tasks[<<i, m>>].dur + trades[i + 1].buffer <= h[<<i + 1, m>>]
  <2>1. TAKE i \in 1..(T - 1)
  <2>2. TAKE m \in 1..N
  <2>3. i \in 1..T /\ i + 1 \in 1..T
    BY <1>1
  <2>4. h[<<i, m>>] = at(i, m) /\ h[<<i + 1, m>>] = at(i + 1, m)
        /\ network.tasks[<<i, m>>].dur = WorkContent(trades[i], flow[m])
    BY <1>8, <2>3
  <2>5. at(i, m + 1) = at(i, m) + WorkContent(trades[i], flow[m])
    BY <1>3, <2>3
  <2> QED BY <1>4, <2>4, <2>5
<1>13. \A s \in Slots(T, N) :
         \/ h[s] = network.tasks[s].floor
         \/ \E m \in 1..(N - 1) : /\ s = <<s[1], m + 1>>
                                  /\ h[s] = h[<<s[1], m>>] + network.tasks[<<s[1], m>>].dur
  <2>1. TAKE s \in Slots(T, N)
  <2>2. PICK i, n : i = s[1] /\ n = s[2]
    OBVIOUS
  <2>3. i \in 1..T /\ n \in 1..N /\ s = <<i, n>>
    BY <1>6, <2>2
  <2>4. CASE n = 1
    <3>1. h[s] = at(i, 1) /\ network.tasks[s].floor = start[i]
      BY <1>8, <2>3, <2>4
    <3> QED BY <1>3, <2>3, <3>1
  <2>5. CASE n # 1
    <3>1. n - 1 \in 1..(N - 1) /\ (n - 1) + 1 = n
      BY <1>1, <2>3, <2>5
    <3>2. PICK m \in 1..(N - 1) : m = n - 1
      BY <3>1
    <3>3. m + 1 = n
      BY <3>1, <3>2
    <3>4. h[<<i, m>>] + network.tasks[<<i, m>>].dur = h[<<i, m + 1>>]
      BY <1>10, <2>3
    <3> QED BY <2>2, <2>3, <3>3, <3>4
  <2> QED BY <2>4, <2>5
<1>14. WalksGrid(network, trades, T, N, h)
  BY <1>9, <1>11, <1>12, <1>13 DEF WalksGrid
<1>15. IsPlan(network) /\ \A s \in Slots(T, N) : EarlyStarts(network)[s] = h[s]
  BY <1>2, <1>14, GridStarts
<1> QED BY <1>5, <1>8, <1>15 DEF at

\* What is told of lines, and of the network made of them.
IsWalkedAs(trades, l, network) ==
  LET n == Len(l.flow)
      clear(i, m) == Gap(trades, l.flow, l.start, i, m) - trades[i].buffer
  IN  /\ \A i \in 2..Len(trades) :
           /\ \A m \in 1..n : clear(i, m) >= 0
           /\ l.start[i] = 0 \/ \E m \in 1..n : clear(i, m) = 0
           /\ l.interferences[i].gap >= trades[i].buffer
      /\ \A i \in DOMAIN trades, m \in 1..n :
           EarlyStarts(network)[<<i, m>>] = SegmentStart(trades, l.flow, l.start, i, m)
      /\ FinishDay(network) = l.duration

\* Lines are walked as they were computed.
LEMMA LinesAreWalked ==
  ASSUME NEW trades, NEW places, AreTrades(trades), IsBuilding(places), CanFlow(trades, places),
         NEW line, line = Computed(trades, places),
         NEW network, network = ToNetwork(line, trades)
  PROVE  IsWalkedAs(trades, line, network)
<1>1. PICK flow : flow = Flow(places)
  OBVIOUS
<1>2. Walkable(trades, flow)
  BY <1>1, TradesWalk
<1>3. PICK start : start = LineStarts(trades, flow)
  OBVIOUS
<1>4. AreLineStarts(trades, flow, start)
  BY <1>2, <1>3, LineStartsAre
<1> DEFINE T == Len(trades)
           N == Len(flow)
           at(i, m) == SegmentStart(trades, flow, start, i, m)
<1>5. /\ T \in Nat \ {0} /\ N \in Nat \ {0} /\ DOMAIN trades = 1..T /\ DOMAIN flow = 1..N
      /\ \A i \in 1..T : trades[i].buffer \in Int
  <2>1. /\ T \in Nat \ {0} /\ N \in Nat \ {0}
        /\ trades = [i \in 1..T |-> trades[i]] /\ flow = [n \in 1..N |-> flow[n]]
    BY <1>2 DEF Walkable
  <2>2. DOMAIN trades = 1..T /\ DOMAIN flow = 1..N
    BY <2>1, LengthIs
  <2> QED BY <1>2, <2>1, <2>2 DEF Walkable
<1>6. line.flow = flow /\ line.start = start
  BY <1>1, <1>3 DEF Computed
<1>7. line.interferences = [i \in 2..T |-> Interference(trades, flow, start, i)]
  BY <1>1, <1>3 DEF Computed
<1>8. line.duration = Max({at(i, N + 1) : i \in 1..T})
  BY <1>1, <1>3, <1>5 DEF Computed
<1>9. /\ IsPlan(network)
      /\ \A i \in 1..T : \A m \in 1..N : EarlyStarts(network)[<<i, m>>] = at(i, m)
  BY <1>2, <1>4, <1>6, NetworkWalks
<1>10. ASSUME NEW i \in 2..T PROVE line.interferences[i].gap >= trades[i].buffer
  <2>1. PICK X : X = {Gap(trades, flow, start, i, n) : n \in 1..N}
    OBVIOUS
  <2>2. line.interferences[i] = Interference(trades, flow, start, i)
    BY <1>7
  <2>3. Interference(trades, flow, start, i).gap = Min(X)
    BY <1>5, <2>1 DEF Interference
  <2>4. i \in 1..T /\ i - 1 \in 1..T /\ trades[i].buffer \in Int
    BY <1>5
  <2>5. ASSUME NEW n \in 1..N
        PROVE  Gap(trades, flow, start, i, n) \in Int /\ trades[i].buffer <= Gap(trades, flow, start, i, n)
    <3>1. at(i, n) \in Int /\ at(i - 1, n + 1) \in Int
      <4>1. /\ \A m \in 1..N : at(i, m) \in Nat
            /\ \A m \in 1..N : at(i - 1, m + 1) \in Nat
        BY <1>2, <1>4, <2>4, SegmentsAre
      <4> HIDE DEF at
      <4> QED BY <4>1
    <3>2. Gap(trades, flow, start, i, n) = at(i, n) - at(i - 1, n + 1)
      BY DEF Gap
    <3>3. Gap(trades, flow, start, i, n) - trades[i].buffer >= 0
      BY <1>4 DEF AreLineStarts
    <3> HIDE DEF at
    <3> QED BY <2>4, <3>1, <3>2, <3>3
  <2>6. PICK g : g = [n \in 1..N |-> Gap(trades, flow, start, i, n)]
    OBVIOUS
  <2>7. DOMAIN g = 1..N /\ \A n \in 1..N : g[n] = Gap(trades, flow, start, i, n)
    BY <2>6
  <2>8. X = {g[n] : n \in 1..N}
    BY <2>1, <2>7
  <2>9. IsFiniteSet(1..N)
    <3>1. 1 \in Int /\ N \in Int
      BY <1>5
    <3> QED BY <3>1, FS_Interval
  <2>10. IsFiniteSet(X)
    BY <2>7, <2>8, <2>9, FinitelyMany
  <2>11. X \in SUBSET Int /\ \A x \in X : trades[i].buffer <= x
    BY <2>5, <2>7, <2>8
  <2>12. X # {}
    <3>1. 1 \in 1..N
      BY <1>5
    <3> QED BY <2>8, <3>1
  <2>13. Min(X) \in X
    BY <2>10, <2>11, <2>12, MinIs
  <2> QED BY <2>2, <2>3, <2>4, <2>11, <2>13
<1>11. FinishDay(network) = line.duration
  <2>1. PICK e : e = [i \in 1..T |-> at(i, N + 1)]
    OBVIOUS
  <2>2. DOMAIN e = 1..T /\ \A i \in 1..T : e[i] = at(i, N + 1)
    BY <2>1
  <2>3. PICK X : X = {e[i] : i \in 1..T}
    OBVIOUS
  <2>4. line.duration = Max(X)
    <3>1. X = {at(i, N + 1) : i \in 1..T}
      BY <2>2, <2>3
    <3> QED BY <1>8, <3>1
  <2>5. IsFiniteSet(1..T)
    <3>1. 1 \in Int /\ T \in Int
      BY <1>5
    <3> QED BY <3>1, FS_Interval
  <2>6. IsFiniteSet(X)
    BY <2>2, <2>3, <2>5, FinitelyMany
  <2>7. ASSUME NEW i \in 1..T
        PROVE  /\ at(i, N + 1) \in Nat
               /\ \A n \in 1..N : /\ at(i, n) \in Nat
                                  /\ at(i, n + 1) = at(i, n) + WorkContent(trades[i], flow[n])
                                  /\ at(i, n + 1) <= at(i, N + 1)
    BY <1>2, <1>4, SegmentsAre
  <2> HIDE DEF at
  <2>8. X \in SUBSET Int /\ X # {}
    <3>1. 1 \in 1..T
      BY <1>5
    <3> QED BY <2>2, <2>3, <2>7, <3>1
  <2>9. Max(X) \in X /\ \A x \in X : x <= Max(X)
    BY <2>6, <2>8, MaxIs
  <2>10. /\ IsGridPlan(network, trades, T, N)
         /\ \A s \in Slots(T, N) : network.tasks[s].dur = WorkContent(trades[s[1]], flow[s[2]])
    BY <1>2, <1>4, <1>6, LineNetwork
  <2>11. DOMAIN network.tasks = Slots(T, N)
    BY <2>10 DEF IsGridPlan
  <2>12. ASSUME NEW s \in Slots(T, N)
         PROVE  \E i \in 1..T : \E n \in 1..N :
                  /\ s = <<i, n>>
                  /\ EarlyStarts(network)[s] + network.tasks[s].dur = at(i, n + 1)
    <3>1. PICK i, n : i = s[1] /\ n = s[2]
      OBVIOUS
    <3>2. i \in 1..T /\ n \in 1..N /\ s = <<i, n>>
      BY <3>1 DEF Slots
    <3>3. EarlyStarts(network)[s] = at(i, n) /\ network.tasks[s].dur = WorkContent(trades[i], flow[n])
      BY <1>9, <2>10, <3>1, <3>2
    <3> QED BY <2>7, <3>2, <3>3
  <2>13. /\ FinishDay(network) \in Int
         /\ \A a \in DOMAIN network.tasks : EarlyStarts(network)[a] + network.tasks[a].dur <= FinishDay(network)
         /\ \E a \in DOMAIN network.tasks : EarlyStarts(network)[a] + network.tasks[a].dur = FinishDay(network)
    BY <1>9, FinishIs
  <2>14. FinishDay(network) <= Max(X)
    <3>1. PICK a \in Slots(T, N) : EarlyStarts(network)[a] + network.tasks[a].dur = FinishDay(network)
      BY <2>11, <2>13
    <3>2. PICK i \in 1..T, n \in 1..N : EarlyStarts(network)[a] + network.tasks[a].dur = at(i, n + 1)
      BY <2>12
    <3>3. at(i, n + 1) <= at(i, N + 1) /\ at(i, N + 1) \in X
      BY <2>2, <2>3, <2>7
    <3>4. at(i, N + 1) <= Max(X) /\ Max(X) \in Int /\ at(i, N + 1) \in Int
      BY <2>8, <2>9, <3>3
    <3> QED BY <2>13, <3>1, <3>2, <3>3, <3>4
  <2>15. Max(X) <= FinishDay(network)
    <3>1. PICK i \in 1..T : Max(X) = at(i, N + 1)
      BY <2>2, <2>3, <2>9
    <3>2. N \in 1..N /\ <<i, N>> \in Slots(T, N)
      BY <1>5 DEF Slots
    <3>3. EarlyStarts(network)[<<i, N>>] + network.tasks[<<i, N>>].dur <= FinishDay(network)
      BY <2>11, <2>13, <3>2
    <3>4. PICK j \in 1..T, n \in 1..N :
            /\ <<i, N>> = <<j, n>>
            /\ EarlyStarts(network)[<<i, N>>] + network.tasks[<<i, N>>].dur = at(j, n + 1)
      BY <2>12, <3>2
    <3>5. j = i /\ n = N
      BY <3>4
    <3> QED BY <3>1, <3>3, <3>4, <3>5
  <2>16. Max(X) \in Int
    BY <2>8, <2>9
  <2> QED BY <2>4, <2>13, <2>14, <2>15, <2>16
<1>12. \A i \in 2..T :
         /\ \A m \in 1..N : Gap(trades, flow, start, i, m) - trades[i].buffer >= 0
         /\ start[i] = 0 \/ \E m \in 1..N : Gap(trades, flow, start, i, m) - trades[i].buffer = 0
  BY <1>4 DEF AreLineStarts
<1> QED BY <1>5, <1>6, <1>9, <1>10, <1>11, <1>12 DEF IsWalkedAs

-----------------------------------------------------------------------------
\* Trains.

\* A train that can be put together.
IsTrainOf(wagons, zones, ids) ==
  /\ AreWagons(wagons) /\ wagons # <<>>
  /\ ArePlacesApart(zones) /\ zones # <<>>
  /\ ids = {zones[n].id : n \in DOMAIN zones}

\* A wagon's most work in any zone.
LEMMA HeaviestIs ==
  ASSUME NEW wagons, NEW zones, NEW ids, IsTrainOf(wagons, zones, ids), NEW i \in DOMAIN wagons
  PROVE  /\ Heaviest(wagons[i], ids) \in Nat
         /\ \A z \in ids : WorkIn(wagons[i], z) \in Nat /\ WorkIn(wagons[i], z) <= Heaviest(wagons[i], ids)
<1>1. /\ Len(zones) \in Nat \ {0} /\ DOMAIN zones = 1..Len(zones)
  <2>1. Len(zones) \in Nat /\ zones = [n \in 1..Len(zones) |-> zones[n]]
    BY DEF IsTrainOf, ArePlacesApart, IsBuilding
  <2>2. Len(zones) # 0
    BY <2>1, SMT DEF IsTrainOf
  <2>3. DOMAIN zones = 1..Len(zones)
    BY <2>1, LengthIs
  <2> QED BY <2>1, <2>2, <2>3
<1>2. ASSUME NEW z PROVE WorkIn(wagons[i], z) \in Nat
  <2>1. wagons[i].other \in Nat /\ \A y \in DOMAIN wagons[i].work : wagons[i].work[y] \in Nat
    BY DEF IsTrainOf, AreWagons
  <2> QED BY <2>1 DEF WorkIn
<1>3. PICK w : w = [n \in DOMAIN zones |-> WorkIn(wagons[i], zones[n].id)]
  OBVIOUS
<1>4. DOMAIN w = DOMAIN zones /\ \A n \in DOMAIN zones : w[n] = WorkIn(wagons[i], zones[n].id)
  BY <1>3
<1>5. PICK X : X = {w[n] : n \in DOMAIN zones}
  OBVIOUS
<1>6. X = {WorkIn(wagons[i], z) : z \in ids}
  BY <1>4, <1>5 DEF IsTrainOf
<1>7. IsFiniteSet(DOMAIN zones)
  <2>1. 1 \in Int /\ Len(zones) \in Int
    BY <1>1
  <2> QED BY <1>1, <2>1, FS_Interval
<1>8. IsFiniteSet(X)
  BY <1>4, <1>5, <1>7, FinitelyMany
<1>9. X \in SUBSET Int /\ X \in SUBSET Nat
  BY <1>2, <1>6
<1>10. X # {}
  <2>1. 1 \in DOMAIN zones
    BY <1>1
  <2>2. w[1] \in X
    BY <1>5, <2>1
  <2> QED BY <2>2
<1>11. Max(X) \in X /\ \A x \in X : x <= Max(X)
  BY <1>8, <1>9, <1>10, MaxIs
<1>12. Heaviest(wagons[i], ids) = Max(X)
  BY <1>6 DEF Heaviest
<1> QED BY <1>2, <1>6, <1>9, <1>11, <1>12

\* Of one and another number the greater.
LEMMA OneOrMore ==
  ASSUME NEW x \in Int, NEW most, most = Max({1, x})
  PROVE  most \in Nat \ {0} /\ x <= most /\ \A m \in Int : most <= m <=> 1 <= m /\ x <= m
<1>1. PICK X : X = {1, x}
  OBVIOUS
<1>2. PICK m : m = IF x <= 1 THEN 1 ELSE x
  OBVIOUS
<1>3. m \in X /\ X \in SUBSET Int /\ \A y \in X : y <= m
  BY <1>1, <1>2
<1>4. Max(X) = m
  BY <1>3, MaxKnown
<1> QED BY <1>1, <1>2, <1>4

\* Crews are enough when they can do the work in the days.
LEMMA CrewsAre ==
  ASSUME NEW work \in Nat, NEW days \in Nat \ {0}
  PROVE  /\ CrewsFor(work, days) \in Nat
         /\ work <= CrewsFor(work, days) * days
         /\ \A max \in Nat \ {0} : CrewsFor(work, days) <= max <=> work <= days * max
<1>1. PICK q : q = CeilDiv(work, days)
  OBVIOUS
<1>2. q \in Nat /\ work <= days * q /\ \A c \in Int : work <= days * c => q <= c
  BY <1>1, CeilDivIs
<1>3. ASSUME NEW max \in Nat \ {0} PROVE days * max \in Nat
  OBVIOUS
<1>4. CASE work = 0
  <2>1. CrewsFor(work, days) = 0
    BY <1>4 DEF CrewsFor
  <2>2. 0 * days = 0
    OBVIOUS
  <2> QED BY <1>3, <1>4, <2>1, <2>2
<1>5. CASE work # 0
  <2>1. PICK c : c = CrewsFor(work, days)
    OBVIOUS
  <2>2. c = Max({1, q})
    BY <1>1, <1>5, <2>1 DEF CrewsFor
  <2>3. c \in Nat \ {0} /\ q <= c /\ \A m \in Int : c <= m <=> 1 <= m /\ q <= m
    BY <1>2, <2>2, OneOrMore
  <2>4. work <= c * days
    <3>1. days * q <= days * c /\ days * q \in Int /\ days * c \in Int
      BY <1>2, <2>3, ProductGrows
    <3>2. days * c = c * days
      BY <2>3
    <3> QED BY <1>2, <3>1, <3>2
  <2>5. ASSUME NEW max \in Nat \ {0} PROVE c <= max <=> work <= days * max
    <3>1. ASSUME work <= days * max PROVE c <= max
      BY <1>2, <2>3, <3>1
    <3>2. ASSUME c <= max PROVE work <= days * max
      <4>1. q <= max
        BY <2>3, <3>2
      <4>2. days * q <= days * max /\ days * q \in Int /\ days * max \in Int
        BY <1>2, <4>1, ProductGrows
      <4> QED BY <1>2, <4>2
    <3> QED BY <3>1, <3>2
  <2> QED BY <2>1, <2>3, <2>4, <2>5
<1> QED BY <1>4, <1>5

\* What is known of a train of so many days.
IsRun(t, wagons, ids, days) ==
  /\ ToSet(t.flow) = ids /\ t.days = days
  /\ t.overloaded = {} <=> \A i \in DOMAIN wagons : Heaviest(wagons[i], ids) <= days * wagons[i].max
  /\ \A i \in DOMAIN wagons :
       /\ t.crews[i] \in Nat
       /\ wagons[i].id \notin t.overloaded => Heaviest(wagons[i], ids) <= t.crews[i] * days

\* It is overloaded if and only if a wagon has more work in a zone than the crews
\* it can field do in that time.
LEMMA TrainIsRun ==
  ASSUME NEW wagons, NEW zones, NEW ids, IsTrainOf(wagons, zones, ids),
         NEW days \in Nat \ {0}, NEW t, t = Train(wagons, zones, days)
  PROVE  IsRun(t, wagons, ids, days)
<1>1. PICK flow : flow = Flow(zones)
  OBVIOUS
<1>2. IsFlowOf(flow, zones) /\ Len(zones) \in Nat /\ zones = [n \in 1..Len(zones) |-> zones[n]]
  BY <1>1, FlowIs DEF IsTrainOf, ArePlacesApart, IsBuilding
<1>3. DOMAIN zones = 1..Len(zones) /\ DOMAIN flow = 1..Len(zones)
  BY <1>2, LengthIs DEF IsFlowOf
<1>4. ToSet(flow) = ids
  <2>1. \A n \in DOMAIN flow : \E m \in DOMAIN zones : flow[n] = zones[m].id
    BY <1>2, <1>3 DEF IsFlowOf
  <2>2. \A m \in DOMAIN zones : \E n \in DOMAIN flow : flow[n] = zones[m].id
    BY <1>2, <1>3 DEF IsFlowOf
  <2>3. \A x : x \in ids <=> \E m \in DOMAIN zones : x = zones[m].id
    BY DEF IsTrainOf
  <2>4. \A x : x \in ToSet(flow) <=> \E n \in DOMAIN flow : x = flow[n]
    BY DEF ToSet
  <2>5. \A x : x \in ToSet(flow) => x \in ids
    BY <2>1, <2>3, <2>4
  <2>6. \A x : x \in ids => x \in ToSet(flow)
    <3>1. SUFFICES ASSUME NEW x, x \in ids PROVE x \in ToSet(flow)
      OBVIOUS
    <3>2. PICK m \in DOMAIN zones : x = zones[m].id
      BY <2>3, <3>1
    <3>3. PICK n \in DOMAIN flow : flow[n] = zones[m].id
      BY <2>2
    <3> QED BY <2>4, <3>2, <3>3
  <2> QED BY <2>5, <2>6
<1> DEFINE needed(i) == CrewsFor(Heaviest(wagons[i], ids), days)
<1>5. /\ t.flow = flow /\ t.days = days
      /\ t.crews = [i \in DOMAIN wagons |-> Min({needed(i), wagons[i].max})]
      /\ t.overloaded = {wagons[i].id : i \in {i \in DOMAIN wagons : needed(i) > wagons[i].max}}
  BY <1>1, <1>4 DEF Train
<1>6. ASSUME NEW i \in DOMAIN wagons
      PROVE  /\ needed(i) \in Nat /\ wagons[i].max \in Nat \ {0}
             /\ Heaviest(wagons[i], ids) <= needed(i) * days
             /\ needed(i) <= wagons[i].max <=> Heaviest(wagons[i], ids) <= days * wagons[i].max
  <2>1. Heaviest(wagons[i], ids) \in Nat
    BY HeaviestIs
  <2>2. wagons[i].max \in Nat \ {0}
    BY DEF IsTrainOf, AreWagons
  <2> QED BY <2>1, <2>2, CrewsAre
<1> HIDE DEF needed
<1>7. ASSUME NEW i \in DOMAIN wagons
      PROVE  /\ t.crews[i] \in Nat
             /\ needed(i) <= wagons[i].max => t.crews[i] = needed(i)
  <2>1. PICK X : X = {needed(i), wagons[i].max}
    OBVIOUS
  <2>2. t.crews[i] = Min(X)
    BY <1>5, <2>1
  <2>3. X \in SUBSET Int /\ X \in SUBSET Nat /\ X # {}
    BY <1>6, <2>1
  <2>4. IsFiniteSet(X)
    <3>1. X = {needed(i)} \cup {wagons[i].max}
      BY <2>1
    <3>2. IsFiniteSet({needed(i)}) /\ IsFiniteSet({wagons[i].max})
      BY FS_Singleton
    <3> QED BY <3>1, <3>2, FS_Union
  <2>5. Min(X) \in X /\ \A x \in X : Min(X) <= x
    BY <2>3, <2>4, MinIs
  <2> QED BY <1>6, <2>1, <2>2, <2>3, <2>5
<1>8. t.overloaded = {} <=> \A i \in DOMAIN wagons : needed(i) <= wagons[i].max
  <2>1. \A i \in DOMAIN wagons : needed(i) \in Int /\ wagons[i].max \in Int
    BY <1>6
  <2>2. PICK bad : bad = {i \in DOMAIN wagons : needed(i) > wagons[i].max}
    OBVIOUS
  <2>3. t.overloaded = {wagons[i].id : i \in bad}
    BY <1>5, <2>2
  <2>4. t.overloaded = {} <=> bad = {}
    BY <2>3
  <2>5. bad = {} <=> \A i \in DOMAIN wagons : needed(i) <= wagons[i].max
    BY <2>1, <2>2
  <2> QED BY <2>4, <2>5
<1>9. \A i \in DOMAIN wagons : wagons[i].id \notin t.overloaded => needed(i) <= wagons[i].max
  <2>1. \A i \in DOMAIN wagons : needed(i) \in Int /\ wagons[i].max \in Int
    BY <1>6
  <2> QED BY <1>5, <2>1
<1>10. ASSUME NEW i \in DOMAIN wagons, wagons[i].id \notin t.overloaded
       PROVE  Heaviest(wagons[i], ids) <= t.crews[i] * days
  <2>1. t.crews[i] = needed(i)
    BY <1>7, <1>9, <1>10
  <2> QED BY <1>6, <2>1
<1> QED BY <1>4, <1>5, <1>6, <1>7, <1>8, <1>10 DEF IsRun

\* The shortest takt is one in which no wagon is overloaded, and no shorter is.
LEMMA ShortestFits ==
  ASSUME NEW wagons, NEW zones, NEW ids, IsTrainOf(wagons, zones, ids),
         NEW d, d = MinimumTakt(wagons, ids).days
  PROVE  /\ d \in Nat \ {0}
         /\ \A days \in Nat \ {0} :
              d <= days <=> \A i \in DOMAIN wagons : Heaviest(wagons[i], ids) <= days * wagons[i].max
<1> DEFINE needed(i) == Max({1, CeilDiv(Heaviest(wagons[i], ids), wagons[i].max)})
<1>1. Len(wagons) \in Nat \ {0} /\ DOMAIN wagons = 1..Len(wagons)
  <2>1. Len(wagons) \in Nat /\ wagons = [i \in 1..Len(wagons) |-> wagons[i]]
    BY DEF IsTrainOf, AreWagons
  <2>2. Len(wagons) # 0
    BY <2>1, SMT DEF IsTrainOf
  <2>3. DOMAIN wagons = 1..Len(wagons)
    BY <2>1, LengthIs
  <2> QED BY <2>1, <2>2, <2>3
<1>2. ASSUME NEW i \in DOMAIN wagons
      PROVE  /\ needed(i) \in Nat \ {0}
             /\ \A days \in Nat \ {0} :
                  needed(i) <= days <=> Heaviest(wagons[i], ids) <= days * wagons[i].max
  <2>1. Heaviest(wagons[i], ids) \in Nat
    BY HeaviestIs
  <2>2. wagons[i].max \in Nat \ {0}
    BY DEF IsTrainOf, AreWagons
  <2>3. PICK h, m, q : h = Heaviest(wagons[i], ids) /\ m = wagons[i].max /\ q = CeilDiv(h, m)
    OBVIOUS
  <2>4. h \in Nat /\ m \in Nat \ {0}
    BY <2>1, <2>2, <2>3
  <2>5. q \in Nat /\ h <= m * q /\ \A c \in Int : h <= m * c => q <= c
    BY <2>3, <2>4, CeilDivIs
  <2>6. PICK n : n = Max({1, q})
    OBVIOUS
  <2>7. n \in Nat \ {0} /\ \A x \in Int : n <= x <=> 1 <= x /\ q <= x
    BY <2>5, <2>6, OneOrMore
  <2>8. ASSUME NEW days \in Nat \ {0} PROVE n <= days <=> h <= days * m
    <3>1. days * m = m * days /\ m * days \in Nat
      BY <2>4
    <3>2. ASSUME q <= days PROVE h <= m * days
      <4>1. m * q <= m * days /\ m * q \in Int
        BY <2>4, <2>5, <3>2, ProductGrows
      <4> QED BY <2>4, <2>5, <3>1, <4>1
    <3>3. ASSUME h <= m * days PROVE q <= days
      BY <2>5, <3>3
    <3> QED BY <2>7, <3>1, <3>2, <3>3
  <2> QED BY <2>3, <2>6, <2>7, <2>8
<1>3. d = Max({needed(i) : i \in DOMAIN wagons})
  BY DEF MinimumTakt
<1> HIDE DEF needed
<1>4. PICK f : f = [i \in DOMAIN wagons |-> needed(i)]
  OBVIOUS
<1>5. DOMAIN f = DOMAIN wagons /\ \A i \in DOMAIN wagons : f[i] = needed(i)
  BY <1>4
<1>6. PICK X : X = {f[i] : i \in DOMAIN wagons}
  OBVIOUS
<1>7. d = Max(X)
  <2>1. X = {needed(i) : i \in DOMAIN wagons}
    BY <1>5, <1>6
  <2> QED BY <1>3, <2>1
<1>8. IsFiniteSet(DOMAIN wagons)
  <2>1. 1 \in Int /\ Len(wagons) \in Int
    BY <1>1
  <2> QED BY <1>1, <2>1, FS_Interval
<1>9. IsFiniteSet(X)
  BY <1>5, <1>6, <1>8, FinitelyMany
<1>10. X \in SUBSET Int /\ X # {} /\ \A x \in X : x \in Nat \ {0}
  <2>1. 1 \in DOMAIN wagons
    BY <1>1
  <2> QED BY <1>2, <1>5, <1>6, <2>1
<1>11. Max(X) \in X /\ \A x \in X : x <= Max(X)
  BY <1>9, <1>10, MaxIs
<1>12. ASSUME NEW days \in Nat \ {0}
       PROVE  d <= days <=> \A i \in DOMAIN wagons : needed(i) <= days
  <2>1. \A i \in DOMAIN wagons : needed(i) <= d /\ needed(i) \in Int
    BY <1>2, <1>5, <1>6, <1>7, <1>11
  <2>2. \E i \in DOMAIN wagons : d = needed(i)
    BY <1>5, <1>6, <1>7, <1>11
  <2>3. d \in Int
    BY <1>7, <1>10, <1>11
  <2> QED BY <2>1, <2>2, <2>3
<1> QED BY <1>2, <1>7, <1>10, <1>11, <1>12

\* A building rewritten in the order of its flow is the same to a train.
LEMMA SameBuilding ==
  ASSUME NEW wagons, NEW zones, NEW ids, IsTrainOf(wagons, zones, ids),
         NEW flow, flow = Flow(zones),
         NEW again, again = [n \in DOMAIN flow |-> [id |-> flow[n], sequence |-> n]]
  PROVE  IsTrainOf(wagons, again, ids)
<1>1. /\ IsFlowOf(flow, zones) /\ Len(zones) \in Nat /\ zones = [n \in 1..Len(zones) |-> zones[n]]
      /\ \A n \in DOMAIN zones : {zones[n].id, zones[n].sequence} \subseteq Int
  BY FlowIs DEF IsTrainOf, ArePlacesApart, IsBuilding
<1>2. DOMAIN zones = 1..Len(zones) /\ DOMAIN flow = 1..Len(zones)
  BY <1>1, LengthIs DEF IsFlowOf
<1>3. Len(zones) # 0
  BY <1>1, SMT DEF IsTrainOf
<1>4. PICK N : N = Len(zones)
  OBVIOUS
<1>5. /\ again = [n \in 1..N |-> again[n]] /\ DOMAIN again = 1..N
      /\ \A n \in 1..N : again[n].id = flow[n] /\ again[n].sequence = n
  BY <1>2, <1>4
<1>6. N \in Nat \ {0} /\ Len(again) = N
  BY <1>1, <1>3, <1>4, <1>5, LengthIs
<1>7. \A n \in 1..N : flow[n] \in Int
  BY <1>1, <1>2, <1>4 DEF IsFlowOf
<1>8. ArePlacesApart(again)
  <2>1. \A n \in DOMAIN again : {again[n].id, again[n].sequence} \subseteq Int
    BY <1>5, <1>6, <1>7
  <2>2. again = [n \in 1..Len(again) |-> again[n]] /\ Len(again) \in Nat
    BY <1>5, <1>6
  <2>3. \A m, n \in DOMAIN again : again[m].id = again[n].id => m = n
    <3>1. \A m, n \in 1..N : flow[m] = flow[n] => m = n
      BY <1>1, <1>4 DEF IsFlowOf
    <3> QED BY <1>5, <3>1
  <2> QED BY <2>1, <2>2, <2>3 DEF ArePlacesApart, IsBuilding
<1>9. ids = {again[n].id : n \in DOMAIN again}
  <2>1. ids = {zones[n].id : n \in DOMAIN zones}
    BY DEF IsTrainOf
  <2>2. \A n \in 1..N : \E m \in DOMAIN zones : again[n].id = zones[m].id
    BY <1>1, <1>4, <1>5 DEF IsFlowOf
  <2>3. \A m \in DOMAIN zones : \E n \in 1..N : again[n].id = zones[m].id
    <3>1. SUFFICES ASSUME NEW m \in DOMAIN zones PROVE \E n \in 1..N : again[n].id = zones[m].id
      OBVIOUS
    <3>2. PICK n \in 1..Len(zones) : flow[n] = zones[m].id
      BY <1>1 DEF IsFlowOf
    <3> QED BY <1>4, <1>5, <3>2
  <2>4. DOMAIN again = 1..N
    BY <1>5
  <2>5. \A x : x \in ids => x \in {again[n].id : n \in DOMAIN again}
    <3>1. SUFFICES ASSUME NEW x, x \in ids PROVE \E n \in DOMAIN again : x = again[n].id
      OBVIOUS
    <3>2. PICK m \in DOMAIN zones : x = zones[m].id
      BY <2>1, <3>1
    <3>3. PICK n \in 1..N : again[n].id = zones[m].id
      BY <2>3
    <3> QED BY <2>4, <3>2, <3>3
  <2>6. \A x : x \in {again[n].id : n \in DOMAIN again} => x \in ids
    <3>1. SUFFICES ASSUME NEW n \in DOMAIN again PROVE again[n].id \in ids
      OBVIOUS
    <3>2. PICK m \in DOMAIN zones : again[n].id = zones[m].id
      BY <2>2, <2>4
    <3> QED BY <2>1, <3>2
  <2> QED BY <2>5, <2>6
<1>10. again # <<>>
  <2>1. 1 \in DOMAIN again
    BY <1>5, <1>6
  <2> QED BY <2>1
<1> QED BY <1>8, <1>9, <1>10 DEF IsTrainOf

\* Whether a train of a flow fits in so many days.
FitsIn(wagons, flow, days) ==
  Train(wagons, [n \in DOMAIN flow |-> [id |-> flow[n], sequence |-> n]], days).overloaded = {}

\* The shortest takt fits, and one a day shorter does not.
LEMMA OnlyTheShortestFits ==
  ASSUME NEW wagons, NEW zones, NEW ids, IsTrainOf(wagons, zones, ids),
         NEW flow, flow = Flow(zones),
         NEW d, d = MinimumTakt(wagons, ids).days
  PROVE  d \in Nat \ {0} /\ FitsIn(wagons, flow, d) /\ (d > 1 => ~FitsIn(wagons, flow, d - 1))
<1>1. PICK again : again = [n \in DOMAIN flow |-> [id |-> flow[n], sequence |-> n]]
  OBVIOUS
<1>2. IsTrainOf(wagons, again, ids)
  BY <1>1, SameBuilding
<1>3. /\ d \in Nat \ {0}
      /\ \A days \in Nat \ {0} :
           d <= days <=> \A i \in DOMAIN wagons : Heaviest(wagons[i], ids) <= days * wagons[i].max
  BY ShortestFits
<1>4. ASSUME NEW days \in Nat \ {0} PROVE FitsIn(wagons, flow, days) <=> d <= days
  <2>1. PICK t : t = Train(wagons, again, days)
    OBVIOUS
  <2>2. IsRun(t, wagons, ids, days)
    BY <1>2, <2>1, TrainIsRun
  <2>3. t.overloaded = {} <=> d <= days
    BY <1>3, <2>2 DEF IsRun
  <2>4. FitsIn(wagons, flow, days) <=> t.overloaded = {}
    BY <1>1, <2>1 DEF FitsIn
  <2> QED BY <2>3, <2>4
<1>5. FitsIn(wagons, flow, d)
  BY <1>3, <1>4
<1>6. ASSUME d > 1 PROVE ~FitsIn(wagons, flow, d - 1)
  <2>1. d - 1 \in Nat \ {0} /\ ~(d <= d - 1)
    BY <1>3, <1>6
  <2>2. PICK c : c = d - 1
    OBVIOUS
  <2>3. ~FitsIn(wagons, flow, c)
    BY <1>4, <2>1, <2>2
  <2> QED BY <2>2, <2>3
<1> QED BY <1>3, <1>5, <1>6

\* When the wagons of a train are where.
TaktIs(t, W, N, days) ==
  /\ W \in Nat \ {0} /\ N \in Nat \ {0} /\ days \in Nat \ {0}
  /\ t.days = days /\ Len(t.flow) = N /\ DOMAIN t.flow = 1..N
  /\ t.takt = [s \in Slots(W, N) |-> s[1] + s[2] - 2]
  /\ t.duration = (W + N - 1) * days

LEMMA TrainTakt ==
  ASSUME NEW wagons, NEW zones, NEW ids, IsTrainOf(wagons, zones, ids),
         NEW days \in Nat \ {0}, NEW t, t = Train(wagons, zones, days)
  PROVE  TaktIs(t, Len(wagons), Len(zones), days) /\ DOMAIN wagons = 1..Len(wagons)
<1>1. PICK flow, W, N : flow = Flow(zones) /\ W = Len(wagons) /\ N = Len(zones)
  OBVIOUS
<1>2. W \in Nat \ {0} /\ DOMAIN wagons = 1..W
  <2>1. W \in Nat /\ wagons = [i \in 1..W |-> wagons[i]]
    BY <1>1 DEF IsTrainOf, AreWagons
  <2>2. W # 0
    BY <1>1, <2>1, SMT DEF IsTrainOf
  <2>3. DOMAIN wagons = 1..W
    BY <2>1, LengthIs
  <2> QED BY <2>1, <2>2, <2>3
<1>3. N \in Nat \ {0} /\ DOMAIN flow = 1..N /\ Len(flow) = N
  <2>1. N \in Nat /\ zones = [n \in 1..N |-> zones[n]] /\ IsFlowOf(flow, zones)
    BY <1>1, FlowIs DEF IsTrainOf, ArePlacesApart, IsBuilding
  <2>2. N # 0
    BY <1>1, <2>1, SMT DEF IsTrainOf
  <2>3. flow = [n \in 1..N |-> flow[n]]
    BY <1>1, <2>1 DEF IsFlowOf
  <2>4. Len(flow) = N /\ DOMAIN flow = 1..N
    BY <2>1, <2>3, LengthIs
  <2> QED BY <2>1, <2>2, <2>4
<1>4. /\ t.flow = flow /\ t.days = days
      /\ t.takt = [s \in (DOMAIN wagons) \X (DOMAIN flow) |-> s[1] + s[2] - 2]
      /\ t.duration = (Len(wagons) + Len(flow) - 1) * days
  BY <1>1 DEF Train
<1>5. t.takt = [s \in Slots(W, N) |-> s[1] + s[2] - 2]
  BY <1>2, <1>3, <1>4 DEF Slots
<1>6. t.duration = (W + N - 1) * days
  BY <1>1, <1>3, <1>4
<1>7. TaktIs(t, W, N, days)
  BY <1>2, <1>3, <1>4, <1>5, <1>6 DEF TaktIs
<1> QED BY <1>1, <1>2, <1>7

\* The network of a train is a grid, each slot a takt long and held to its own.
LEMMA TrainGrid ==
  ASSUME NEW wagons, NEW t, NEW W, NEW N, NEW days, TaktIs(t, W, N, days),
         DOMAIN wagons = 1..W, NEW network, network = TrainNetwork(t, wagons)
  PROVE  \E units : /\ IsGridPlan(network, units, W, N)
                    /\ \A i \in 1..W : units[i].buffer = 0
                    /\ \A s \in Slots(W, N) : /\ network.tasks[s].dur = days
                                              /\ network.tasks[s].floor = t.takt[s] * days
<1> DEFINE unit(i) == [id |-> wagons[i].id, dur |-> t.days, amounts |-> [p \in {} |-> 0],
                       rate |-> 0, buffer |-> 0, crews |-> 1]
           X == [dur : Nat, floor : Nat, code : Nat]
           held(s) == [dur |-> days, floor |-> t.takt[s] * days, code |-> 0]
<1>1. PICK line : line = [flow |-> t.flow, start |-> [i \in DOMAIN wagons |-> (i - 1) * t.days]]
  OBVIOUS
<1>2. PICK units : units = [i \in DOMAIN wagons |-> unit(i)]
  OBVIOUS
<1>3. PICK plan : plan = ToNetwork(line, units)
  OBVIOUS
<1>4. /\ W \in Nat \ {0} /\ N \in Nat \ {0} /\ days \in Nat \ {0}
      /\ t.days = days /\ Len(t.flow) = N /\ DOMAIN t.flow = 1..N
  BY DEF TaktIs
<1>5. /\ DOMAIN units = 1..W /\ units = [i \in 1..W |-> units[i]]
      /\ \A i \in 1..W : units[i] = unit(i)
  BY <1>2
<1>6. Len(units) = W
  BY <1>4, <1>5, LengthIs
<1>7. line.flow = t.flow
  BY <1>1
<1>8. \A i \in 1..W : \A p : units[i].buffer = 0 /\ WorkContent(units[i], p) = days
  <2>1. \A i : unit(i).buffer = 0 /\ unit(i).dur = days /\ unit(i).rate = 0
    BY <1>4
  <2> HIDE DEF unit
  <2> QED BY <1>5, <2>1 DEF WorkContent
<1> HIDE DEF unit
<1>9. CanGrid(line, units, W, N)
  BY <1>4, <1>6, <1>7, <1>8 DEF CanGrid
<1>10. IsGrid(plan.links, units, W, N)
  BY <1>3, <1>9, NetworkIsAGrid
<1>11. \A s \in Slots(W, N) : s[1] \in 1..W /\ s[2] \in 1..N
  BY DEF Slots
<1>12. /\ plan.tasks = [s \in Slots(W, N) |-> [dur |-> WorkContent(units[s[1]], line.flow[s[2]]),
                                               floor |-> HeldFrom(line, s[1], s[2]), code |-> 0]]
       /\ plan = [tasks |-> plan.tasks, links |-> plan.links]
  BY <1>3, <1>4, <1>5, <1>7 DEF ToNetwork, Slots
<1>13. network = [plan EXCEPT !.tasks = [s \in DOMAIN @ |-> [@[s] EXCEPT !.floor = t.takt[s] * t.days]]]
  BY <1>1, <1>2, <1>3 DEF TrainNetwork, unit
<1>14. PICK tasks, links : tasks = plan.tasks /\ links = plan.links
  OBVIOUS
<1>15. network = [tasks |-> [s \in DOMAIN tasks |-> [tasks[s] EXCEPT !.floor = t.takt[s] * t.days]],
                  links |-> links]
  BY <1>12, <1>13, <1>14
<1>16. DOMAIN tasks = Slots(W, N)
  BY <1>12, <1>14
<1>17. ASSUME NEW s \in Slots(W, N)
       PROVE  [tasks[s] EXCEPT !.floor = t.takt[s] * t.days] = held(s)
  <2>1. PICK task : task = tasks[s]
    OBVIOUS
  <2>2. PICK h : h = HeldFrom(line, s[1], s[2])
    OBVIOUS
  <2>3. task = [dur |-> days, floor |-> h, code |-> 0]
    BY <1>8, <1>11, <1>12, <1>14, <2>1, <2>2
  <2>4. PICK f : f = t.takt[s] * days
    OBVIOUS
  <2>5. [task EXCEPT !.floor = f] = [dur |-> days, floor |-> f, code |-> 0]
    BY <2>3
  <2> QED BY <1>4, <2>1, <2>4, <2>5
<1>18. ASSUME NEW s \in Slots(W, N) PROVE held(s) \in X
  <2>1. t.takt[s] = s[1] + s[2] - 2 /\ s[1] \in 1..W /\ s[2] \in 1..N
    BY <1>11 DEF TaktIs
  <2>2. t.takt[s] \in Nat
    BY <1>4, <2>1
  <2>3. t.takt[s] * days \in Nat
    BY <1>4, <2>2
  <2> QED BY <1>4, <2>3
<1>19. ASSUME NEW s \in Slots(W, N)
       PROVE  held(s).dur = days /\ held(s).floor = t.takt[s] * days
  OBVIOUS
<1> HIDE DEF held, X
<1>20. PICK new : new = [s \in Slots(W, N) |-> held(s)]
  OBVIOUS
<1>21. network = [tasks |-> new, links |-> links]
  <2>1. [s \in DOMAIN tasks |-> [tasks[s] EXCEPT !.floor = t.takt[s] * t.days]] = new
    BY <1>16, <1>17, <1>20
  <2> QED BY <1>15, <2>1
<1>22. new \in [Slots(W, N) -> X] /\ DOMAIN new = Slots(W, N) /\ \A s \in Slots(W, N) : new[s] = held(s)
  BY <1>18, <1>20
<1>23. network.tasks = new /\ network.links = links
  BY <1>21
<1>24. IsGridPlan(network, units, W, N)
  <2>1. \A i \in 1..W : units[i].buffer \in Int
    BY <1>8
  <2>2. network = [tasks |-> network.tasks, links |-> network.links]
    BY <1>21, <1>23
  <2>3. IsGrid(network.links, units, W, N)
    BY <1>10, <1>14, <1>23
  <2>4. network.tasks \in [Slots(W, N) -> [dur : Nat, floor : Nat, code : Nat]]
    BY <1>22, <1>23 DEF X
  <2> QED BY <1>4, <1>22, <1>23, <2>1, <2>2, <2>3, <2>4 DEF IsGridPlan
<1> QED BY <1>8, <1>19, <1>22, <1>23, <1>24

\* The engine dates every slot at its takt, and the train leaves the last zone
\* when it says.
LEMMA TrainIsDated ==
  ASSUME NEW wagons, NEW t, NEW W, NEW N, NEW days, TaktIs(t, W, N, days),
         DOMAIN wagons = 1..W, NEW network, network = TrainNetwork(t, wagons)
  PROVE  /\ \A s \in Slots(W, N) : EarlyStarts(network)[s] = t.takt[s] * days
         /\ FinishDay(network) = t.duration
<1>1. PICK units : /\ IsGridPlan(network, units, W, N)
                   /\ \A i \in 1..W : units[i].buffer = 0
                   /\ \A s \in Slots(W, N) : /\ network.tasks[s].dur = days
                                             /\ network.tasks[s].floor = t.takt[s] * days
  BY TrainGrid
<1>2. W \in Nat \ {0} /\ N \in Nat \ {0} /\ days \in Nat \ {0}
  BY DEF TaktIs
<1>3. PICK h : h = [s \in Slots(W, N) |-> (s[1] + s[2] - 2) * days]
  OBVIOUS
<1>4. \A s \in Slots(W, N) : /\ s[1] \in 1..W /\ s[2] \in 1..N /\ s = <<s[1], s[2]>>
                            /\ t.takt[s] = s[1] + s[2] - 2
  BY DEF TaktIs, Slots
<1>5. \A s \in Slots(W, N) : h[s] = t.takt[s] * days /\ h[s] \in Int
  BY <1>2, <1>3, <1>4
<1>6. \A i \in 1..W : \A m \in 1..N : <<i, m>> \in Slots(W, N) /\ h[<<i, m>>] = (i + m - 2) * days
  <2>1. TAKE i \in 1..W
  <2>2. TAKE m \in 1..N
  <2>3. PICK s : s = <<i, m>>
    OBVIOUS
  <2>4. s \in Slots(W, N) /\ s[1] = i /\ s[2] = m
    BY <2>3 DEF Slots
  <2> QED BY <1>3, <2>3, <2>4
<1>7. \A x \in Int : (x + 1) * days = x * days + days
  BY <1>2
<1>8. \A s \in Slots(W, N) : h[s] \in Int /\ network.tasks[s].floor <= h[s] /\ h[s] = network.tasks[s].floor
  BY <1>1, <1>5
<1>9. ASSUME NEW i \in 1..W, NEW m \in 1..(N - 1)
      PROVE  h[<<i, m>>] + network.tasks[<<i, m>>].dur <= h[<<i, m + 1>>]
  <2>1. m \in 1..N /\ m + 1 \in 1..N
    BY <1>2
  <2>2. /\ h[<<i, m>>] = (i + m - 2) * days /\ h[<<i, m + 1>>] = (i + (m + 1) - 2) * days
        /\ network.tasks[<<i, m>>].dur = days
    BY <1>1, <1>6, <2>1
  <2>3. PICK x : x = i + m - 2
    OBVIOUS
  <2>4. x \in Int /\ i + (m + 1) - 2 = x + 1
    BY <2>1, <2>3
  <2>5. (x + 1) * days = x * days + days /\ x * days \in Int
    BY <1>2, <1>7, <2>4
  <2> QED BY <1>2, <2>2, <2>3, <2>4, <2>5
<1>10. ASSUME NEW i \in 1..(W - 1), NEW m \in 1..N
       PROVE  h[<<i, m>>] + network.tasks[<<i, m>>].dur + units[i + 1].buffer <= h[<<i + 1, m>>]
  <2>1. i \in 1..W /\ i + 1 \in 1..W
    BY <1>2
  <2>2. /\ h[<<i, m>>] = (i + m - 2) * days /\ h[<<i + 1, m>>] = ((i + 1) + m - 2) * days
        /\ network.tasks[<<i, m>>].dur = days /\ units[i + 1].buffer = 0
    BY <1>1, <1>6, <2>1
  <2>3. PICK x : x = i + m - 2
    OBVIOUS
  <2>4. x \in Int /\ (i + 1) + m - 2 = x + 1
    BY <2>1, <2>3
  <2>5. (x + 1) * days = x * days + days /\ x * days \in Int
    BY <1>2, <1>7, <2>4
  <2> QED BY <1>2, <2>2, <2>3, <2>4, <2>5
<1>11. WalksGrid(network, units, W, N, h)
  BY <1>8, <1>9, <1>10 DEF WalksGrid
<1>12. IsPlan(network) /\ \A s \in Slots(W, N) : EarlyStarts(network)[s] = h[s]
  BY <1>1, <1>11, GridStarts
<1>13. FinishDay(network) = t.duration
  <2>1. t.duration = (W + N - 1) * days /\ DOMAIN network.tasks = Slots(W, N)
    BY <1>1 DEF TaktIs, IsGridPlan
  <2>2. /\ FinishDay(network) \in Int
        /\ \A s \in Slots(W, N) : EarlyStarts(network)[s] + network.tasks[s].dur <= FinishDay(network)
        /\ \E s \in Slots(W, N) : EarlyStarts(network)[s] + network.tasks[s].dur = FinishDay(network)
    BY <1>12, <2>1, FinishIs
  <2>3. W \in 1..W /\ N \in 1..N
    BY <1>2
  <2>4. h[<<W, N>>] + days <= FinishDay(network)
    BY <1>1, <1>6, <1>12, <2>2, <2>3
  <2>5. h[<<W, N>>] + days = t.duration
    <3>1. h[<<W, N>>] = (W + N - 2) * days
      BY <1>6, <2>3
    <3>2. PICK x : x = W + N - 2
      OBVIOUS
    <3>3. x \in Int /\ W + N - 1 = x + 1
      BY <1>2, <3>2
    <3> QED BY <1>7, <2>1, <3>1, <3>2, <3>3
  <2>6. FinishDay(network) <= t.duration
    <3>1. PICK s \in Slots(W, N) : EarlyStarts(network)[s] + network.tasks[s].dur = FinishDay(network)
      BY <2>2
    <3>2. FinishDay(network) = (s[1] + s[2] - 2) * days + days
      BY <1>1, <1>4, <1>5, <1>12, <3>1
    <3>3. PICK x : x = s[1] + s[2] - 2
      OBVIOUS
    <3>4. x \in Nat /\ x + 1 <= W + N - 1 /\ x + 1 \in Nat /\ W + N - 1 \in Nat
      BY <1>2, <1>4, <3>3
    <3>5. FinishDay(network) = (x + 1) * days
      BY <1>7, <3>2, <3>3, <3>4
    <3>6. \A a, b, c \in Nat : a <= b => c * a <= c * b
      BY ProductGrows
    <3>7. days * (x + 1) <= days * (W + N - 1)
      BY <1>2, <3>4, <3>6
    <3>8. days * (x + 1) = (x + 1) * days /\ days * (W + N - 1) = (W + N - 1) * days
      BY <1>2, <3>4
    <3> QED BY <2>1, <3>5, <3>7, <3>8
  <2>7. t.duration \in Int
    <3>1. W + N - 1 \in Int
      BY <1>2
    <3> QED BY <1>2, <2>1, <3>1
  <2> QED BY <2>2, <2>4, <2>5, <2>6, <2>7
<1> QED BY <1>5, <1>12, <1>13

\* Two slots of one takt are of different wagons in different zones.
LEMMA SlotsApart ==
  ASSUME NEW t, NEW W, NEW N, NEW days, TaktIs(t, W, N, days)
  PROVE  \A s, u \in DOMAIN t.takt : s # u /\ t.takt[s] = t.takt[u] => s[1] # u[1] /\ s[2] # u[2]
<1>1. DOMAIN t.takt = Slots(W, N)
  BY DEF TaktIs
<1>2. \A s \in Slots(W, N) : /\ s[1] \in Int /\ s[2] \in Int /\ s = <<s[1], s[2]>>
                            /\ t.takt[s] = s[1] + s[2] - 2
  BY DEF TaktIs, Slots
<1>3. ASSUME NEW s \in Slots(W, N), NEW u \in Slots(W, N), s # u, t.takt[s] = t.takt[u]
      PROVE  s[1] # u[1] /\ s[2] # u[2]
  <2>1. ~(s[1] = u[1] /\ s[2] = u[2])
    BY <1>2, <1>3, Zenon
  <2>2. s[1] + s[2] - 2 = u[1] + u[2] - 2
    BY <1>2, <1>3
  <2>3. s[1] \in Int /\ s[2] \in Int /\ u[1] \in Int /\ u[2] \in Int
    BY <1>2
  <2> QED BY <2>1, <2>2, <2>3
<1> QED BY <1>1, <1>3

\* What is left of the same for each, in all.
LEMMA SumOfRests ==
  ASSUME NEW w, NEW v, NEW S, IsFiniteSet(S), NEW c \in Int,
         \A x \in S : w[x] \in Int /\ v[x] = c - w[x]
  PROVE  /\ SumOver(w, S) \in Int /\ SumOver(v, S) \in Int /\ Cardinality(S) \in Nat
         /\ SumOver(v, S) = c * Cardinality(S) - SumOver(w, S)
<1> DEFINE B == {T \in SUBSET S : SumOver(v, T) # c * Cardinality(T) - SumOver(w, T)}
<1>1. ASSUME B # {} PROVE FALSE
  <2>1. PICK T \in B : IsMinimal(T, B)
    <3>1. B \subseteq SUBSET S
      OBVIOUS
    <3> QED BY <1>1, <3>1, SmallestSubset
  <2>2. T \in SUBSET S /\ IsFiniteSet(T)
    BY FS_Subset
  <2>3. CASE T = {}
    <3>1. SumOver(w, T) = 0 /\ SumOver(v, T) = 0 /\ Cardinality(T) = 0
      BY <2>3, SumOfNone, FS_EmptySet
    <3> QED BY <2>1, <3>1
  <2>4. CASE T # {}
    <3>1. PICK x \in T : TRUE
      BY <2>4
    <3>2. PICK U : U = T \ {x}
      OBVIOUS
    <3>3. \A y \in T : w[y] \in Int /\ v[y] \in Int
      BY <2>2
    <3>4. IsFiniteSet(U) /\ \A y \in U : w[y] \in Int /\ v[y] \in Int
      BY <2>2, <3>2, <3>3, FS_Subset
    <3>5. SumOver(w, T) = SumOver(w, U) + w[x] /\ SumOver(w, U) \in Int
      <4>1. SumOver(w, T) = SumOver(w, T \ {x}) + w[x]
        BY <2>2, <3>1, <3>3, SumTakesAny
      <4> QED BY <3>2, <3>4, <4>1, SumIsWhole
    <3>6. SumOver(v, T) = SumOver(v, U) + v[x] /\ SumOver(v, U) \in Int
      <4>1. SumOver(v, T) = SumOver(v, T \ {x}) + v[x]
        BY <2>2, <3>1, <3>3, SumTakesAny
      <4> QED BY <3>2, <3>4, <4>1, SumIsWhole
    <3>7. Cardinality(U) = Cardinality(T) - 1 /\ Cardinality(T) \in Nat /\ Cardinality(U) \in Nat
      BY <2>2, <3>1, <3>2, <3>4, FS_RemoveElement, FS_CardinalityType
    <3>8. SumOver(v, U) = c * Cardinality(U) - SumOver(w, U)
      <4>1. U \in SUBSET S /\ U # T /\ U \subseteq T
        BY <2>2, <3>1, <3>2
      <4>2. U \notin B
        BY <2>1, <4>1 DEF IsMinimal
      <4> QED BY <4>1, <4>2
    <3>9. w[x] \in Int /\ v[x] = c - w[x]
      BY <2>2
    <3>10. \A a, b \in Nat : a = b - 1 => c * a + c = c * b
      OBVIOUS
    <3>11. c * Cardinality(U) \in Int /\ c * Cardinality(T) \in Int
           /\ c * Cardinality(U) + c = c * Cardinality(T)
      BY <3>7, <3>10
    <3> QED BY <2>1, <3>5, <3>6, <3>8, <3>9, <3>11
  <2> QED BY <2>3, <2>4
<1>2. SumOver(w, S) \in Int /\ SumOver(v, S) \in Int /\ Cardinality(S) \in Nat
  BY SumIsWhole, FS_CardinalityType
<1> QED BY <1>1, <1>2

\* What every wagon idles, in all: what is paid less what is worked.
IdleOf(t, wagons) == Total([i \in DOMAIN wagons |-> t.paid[i] - t.worked[i]])

\* Slot by slot a train that is not overloaded idles what it is paid and does
\* not work.
LEMMA IdleIs ==
  ASSUME NEW wagons, NEW zones, NEW ids, IsTrainOf(wagons, zones, ids),
         NEW days \in Nat \ {0}, NEW t, t = Train(wagons, zones, days), t.overloaded = {}
  PROVE  IdleCrewDays(t, wagons) = IdleOf(t, wagons)
<1>1. PICK flow, W, N : flow = Flow(zones) /\ W = Len(wagons) /\ N = Len(zones)
  OBVIOUS
<1>2. IsRun(t, wagons, ids, days)
  BY TrainIsRun
<1>3. TaktIs(t, W, N, days) /\ DOMAIN wagons = 1..W
  BY <1>1, TrainTakt
<1>4. /\ t.flow = flow
      /\ t.paid = [i \in DOMAIN wagons |-> t.crews[i] * days * Len(flow)]
      /\ t.worked = [i \in DOMAIN wagons |-> Total([n \in DOMAIN flow |-> WorkIn(wagons[i], flow[n])])]
  BY <1>1 DEF Train
<1>5. /\ W \in Nat \ {0} /\ N \in Nat \ {0} /\ DOMAIN flow = 1..N /\ Len(flow) = N /\ t.days = days
      /\ DOMAIN t.takt = Slots(W, N)
  BY <1>3, <1>4 DEF TaktIs
<1> DEFINE c(i) == t.crews[i] * days
           work(i, n) == WorkIn(wagons[i], flow[n])
<1>6. ASSUME NEW i \in 1..W, NEW n \in 1..N
      PROVE  c(i) \in Nat /\ work(i, n) \in Nat /\ work(i, n) <= c(i)
  <2>1. t.crews[i] \in Nat /\ Heaviest(wagons[i], ids) <= t.crews[i] * days
    BY <1>2, <1>3 DEF IsRun
  <2>2. flow[n] \in ids
    BY <1>2, <1>4, <1>5 DEF IsRun, ToSet
  <2>3. Heaviest(wagons[i], ids) \in Nat /\ work(i, n) \in Nat /\ work(i, n) <= Heaviest(wagons[i], ids)
    BY <1>3, <2>2, HeaviestIs
  <2>4. t.crews[i] * days \in Nat
    BY <2>1
  <2> HIDE DEF work
  <2> QED BY <2>1, <2>3, <2>4
<1>7. \A i \in 1..W : t.paid[i] = c(i) * N
  BY <1>3, <1>4, <1>5
<1>8. \A i \in 1..W : t.worked[i] = Total([n \in 1..N |-> work(i, n)])
  BY <1>3, <1>4, <1>5
<1>9. PICK idle : idle = [s \in Slots(W, N) |-> Max({0, t.crews[s[1]] * t.days
                                                        - WorkIn(wagons[s[1]], t.flow[s[2]])})]
  OBVIOUS
<1>10. IdleCrewDays(t, wagons) = SumOver(idle, Slots(W, N))
  <2>1. IdleCrewDays(t, wagons) = Total(idle)
    BY <1>5, <1>9 DEF IdleCrewDays
  <2>2. DOMAIN idle = Slots(W, N)
    BY <1>9
  <2> QED BY <2>1, <2>2, TotalIsASum
<1>11. \A s \in Slots(W, N) : idle[s] = Max({0, c(s[1]) - work(s[1], s[2])})
  BY <1>4, <1>5, <1>9
<1> HIDE DEF c, work
<1>12. ASSUME NEW i \in 1..W, NEW n \in 1..N
       PROVE  <<i, n>> \in Slots(W, N) /\ idle[<<i, n>>] = c(i) - work(i, n)
  <2>1. PICK s : s = <<i, n>>
    OBVIOUS
  <2>2. s \in Slots(W, N) /\ s[1] = i /\ s[2] = n
    BY <2>1 DEF Slots
  <2>3. PICK x : x = c(i) - work(i, n)
    OBVIOUS
  <2>4. x \in Int /\ 0 <= x
    BY <1>6, <2>3
  <2>5. PICK X : X = {0, x}
    OBVIOUS
  <2>6. X \in SUBSET Int /\ X # {}
    BY <2>4, <2>5
  <2>7. IsFiniteSet(X)
    <3>1. X = {0} \cup {x}
      BY <2>5
    <3> QED BY <3>1, FS_Singleton, FS_Union
  <2>8. Max(X) \in X /\ \A y \in X : y <= Max(X)
    BY <2>6, <2>7, MaxIs
  <2>9. Max(X) = x
    BY <2>4, <2>5, <2>8
  <2>10. idle[s] = Max(X)
    BY <1>11, <2>2, <2>3, <2>5
  <2> QED BY <2>1, <2>2, <2>3, <2>9, <2>10
<1>13. \A s \in Slots(W, N) : s[1] \in 1..W /\ s[2] \in 1..N /\ s = <<s[1], s[2]>>
  BY DEF Slots
<1>14. IsFiniteSet(1..W) /\ IsFiniteSet(1..N)
  <2>1. 1 \in Int /\ W \in Int /\ N \in Int
    BY <1>5
  <2> QED BY <2>1, FS_Interval
<1>15. Cardinality(1..N) = N
  BY <1>5, FS_Interval
<1>16. PICK part : part = [i \in 1..W |-> t.paid[i] - t.worked[i]]
  OBVIOUS
<1>17. IdleOf(t, wagons) = SumOver(part, 1..W)
  <2>1. IdleOf(t, wagons) = Total(part) /\ DOMAIN part = 1..W
    BY <1>3, <1>16 DEF IdleOf
  <2> QED BY <2>1, TotalIsASum
<1>18. PICK class : class = [i \in 1..W |-> {s \in Slots(W, N) : s[1] = i}]
  OBVIOUS
<1>19. ASSUME NEW i \in 1..W
       PROVE  part[i] = SumOver(idle, class[i])
  <2>1. PICK w, v, g : /\ w = [n \in 1..N |-> work(i, n)]
                       /\ v = [n \in 1..N |-> c(i) - work(i, n)]
                       /\ g = [n \in 1..N |-> <<i, n>>]
    OBVIOUS
  <2>2. /\ \A n \in 1..N : w[n] \in Int /\ v[n] \in Int /\ v[n] = c(i) - w[n] /\ g[n] = <<i, n>>
        /\ DOMAIN w = 1..N /\ DOMAIN g = 1..N /\ c(i) \in Int
    <3>1. \A n \in 1..N : c(i) \in Int /\ work(i, n) \in Int
      BY <1>6
    <3>2. 1 \in 1..N
      BY <1>5
    <3> QED BY <2>1, <3>1, <3>2
  <2>3. SumOver(v, 1..N) = c(i) * N - SumOver(w, 1..N)
    <3>1. PICK S, paid : S = 1..N /\ paid = c(i)
      OBVIOUS
    <3>2. IsFiniteSet(S) /\ paid \in Int /\ \A n \in S : w[n] \in Int /\ v[n] = paid - w[n]
      BY <1>14, <2>2, <3>1
    <3>3. SumOver(v, S) = paid * Cardinality(S) - SumOver(w, S)
      BY <3>2, SumOfRests
    <3> QED BY <1>15, <3>1, <3>3
  <2>4. t.worked[i] = SumOver(w, 1..N)
    <3>1. t.worked[i] = Total(w)
      BY <1>8, <2>1
    <3> QED BY <2>2, <3>1, TotalIsASum
  <2>5. part[i] = SumOver(v, 1..N)
    BY <1>7, <1>16, <2>3, <2>4
  <2>6. class[i] = {g[n] : n \in 1..N}
    <3>1. \A s \in class[i] : s \in Slots(W, N) /\ s[1] = i
      BY <1>18
    <3>2. ASSUME NEW s \in class[i] PROVE s \in {g[n] : n \in 1..N}
      <4>1. s[2] \in 1..N /\ s = <<i, s[2]>>
        BY <1>13, <3>1, Zenon
      <4> QED BY <2>2, <4>1
    <3>3. ASSUME NEW n \in 1..N PROVE g[n] \in class[i]
      <4>1. PICK s : s = <<i, n>>
        OBVIOUS
      <4>2. s \in Slots(W, N) /\ s[1] = i
        BY <4>1 DEF Slots
      <4> QED BY <1>18, <2>2, <4>1, <4>2
    <3> QED BY <3>2, <3>3
  <2>7. \A m, n \in 1..N : g[m] = g[n] => m = n
    BY <2>2
  <2>8. \A n \in 1..N : idle[g[n]] = v[n]
    BY <1>12, <2>1, <2>2
  <2>9. SumOver(idle, class[i]) = SumOver(v, 1..N)
    <3>1. PICK S, X : S = 1..N /\ X = class[i]
      OBVIOUS
    <3>2. /\ IsFiniteSet(S) /\ DOMAIN g = S /\ X = {g[n] : n \in S}
          /\ \A n \in S : v[n] \in Int
          /\ \A m, n \in S : g[m] = g[n] => m = n
          /\ \A n \in S : idle[g[n]] = v[n]
      BY <1>14, <2>2, <2>6, <2>7, <2>8, <3>1
    <3>3. SumOver(idle, X) = SumOver(v, S)
      BY <3>2, SumUnderOtherNames
    <3> QED BY <3>1, <3>3
  <2> QED BY <2>5, <2>9
<1>20. PICK row : row = [s \in Slots(W, N) |-> s[1]]
  OBVIOUS
<1>21. IsFiniteSet(Slots(W, N))
  BY <1>14, FS_Product DEF Slots
<1>22. \A s \in Slots(W, N) : idle[s] \in Int
  <2>1. TAKE s \in Slots(W, N)
  <2>2. PICK i, n : i = s[1] /\ n = s[2]
    OBVIOUS
  <2>3. i \in 1..W /\ n \in 1..N /\ s = <<i, n>>
    BY <1>13, <2>2
  <2>4. idle[s] = c(i) - work(i, n)
    BY <1>12, <2>3
  <2> QED BY <1>6, <2>3, <2>4
<1>23. \A s \in Slots(W, N) : row[s] \in 1..W
  BY <1>13, <1>20
<1>24. \A i \in 1..W : \A s : s \in class[i] <=> s \in Slots(W, N) /\ row[s] = i
  BY <1>18, <1>20
<1>25. SumOver(part, 1..W) = SumOver(idle, Slots(W, N))
  <2>1. PICK S, K : S = Slots(W, N) /\ K = 1..W
    OBVIOUS
  <2>2. /\ IsFiniteSet(S) /\ IsFiniteSet(K)
        /\ \A s \in S : idle[s] \in Int
        /\ \A s \in S : row[s] \in K
        /\ \A i \in K : \A s : s \in class[i] <=> s \in S /\ row[s] = i
        /\ \A i \in K : part[i] = SumOver(idle, class[i])
    BY <1>14, <1>19, <1>21, <1>22, <1>23, <1>24, <2>1
  <2>3. SumOver(part, K) = SumOver(idle, S)
    BY <2>2, SumByParts
  <2> QED BY <2>1, <2>3
<1> QED BY <1>10, <1>17, <1>25

\* Trades whose lines can be walked are wagons that can be built.
LEMMA TradesAreWagons ==
  ASSUME NEW trades, NEW places, AreTrades(trades), IsBuilding(places), CanFlow(trades, places),
         NEW wagons, wagons = [i \in DOMAIN trades |-> WagonOf(trades[i], places)]
  PROVE  AreWagons(wagons) /\ DOMAIN wagons = 1..Len(trades) /\ Len(trades) \in Nat \ {0}
<1>1. PICK T : T = Len(trades)
  OBVIOUS
<1>2. T \in Nat \ {0} /\ DOMAIN trades = 1..T
  <2>1. T \in Nat /\ trades = [i \in 1..T |-> trades[i]]
    BY <1>1 DEF AreTrades
  <2>2. T # 0
    BY <1>1, <2>1, SMT DEF CanFlow
  <2>3. DOMAIN trades = 1..T
    BY <1>1, <2>1, LengthIs
  <2> QED BY <2>1, <2>2, <2>3
<1>3. /\ DOMAIN wagons = 1..T /\ wagons = [i \in 1..T |-> wagons[i]]
      /\ \A i \in 1..T : wagons[i] = WagonOf(trades[i], places)
  BY <1>2
<1>4. Len(wagons) = T
  BY <1>2, <1>3, LengthIs
<1>5. ASSUME NEW i \in 1..T
      PROVE  /\ wagons[i].other \in Nat /\ wagons[i].max \in Nat \ {0}
             /\ \A z \in DOMAIN wagons[i].work : wagons[i].work[z] \in Nat
  <2>1. PICK t, w : t = trades[i] /\ w = wagons[i]
    OBVIOUS
  <2>2. /\ t.dur \in Nat /\ t.rate \in Nat /\ t.crews \in Int
        /\ \A p \in DOMAIN t.amounts : t.amounts[p] \in Int
    BY <1>2, <2>1 DEF AreTrades
  <2>3. /\ w.other = t.dur /\ w.max = Max({1, t.crews})
        /\ w.work = [p \in {places[n].id : n \in DOMAIN places} |-> WorkContent(t, p)]
    BY <1>3, <2>1 DEF WagonOf
  <2>4. w.max \in Nat \ {0}
    BY <2>2, <2>3, OneOrMore
  <2>5. ASSUME NEW p \in {places[n].id : n \in DOMAIN places} PROVE WorkContent(t, p) \in Nat
    <3>1. ASSUME p \in DOMAIN t.amounts, t.rate # 0 PROVE CeilDiv(t.amounts[p], t.rate) \in Nat
      <4>1. t.amounts[p] \in Int
        BY <2>2, <3>1
      <4>2. t.amounts[p] >= 0
        BY <1>2, <2>1, <2>5, <3>1 DEF CanFlow
      <4>3. t.amounts[p] \in Nat
        BY <4>1, <4>2
      <4> QED BY <2>2, <3>1, <4>1, <4>3, CeilDivIs
    <3> QED BY <2>2, <3>1 DEF WorkContent
  <2>6. \A z \in DOMAIN w.work : w.work[z] \in Nat
    BY <2>3, <2>5
  <2> QED BY <2>1, <2>2, <2>3, <2>4, <2>6
<1>6. AreWagons(wagons)
  BY <1>2, <1>3, <1>4, <1>5 DEF AreWagons
<1> QED BY <1>1, <1>2, <1>3, <1>6

\* What is told of a train, of so many days or of the shortest takt that fits.
IsTrainAsked(r, wagons, zones, days) ==
  /\ r.wagons = wagons
  /\ r.shortest = MinimumTakt(wagons, {zones[n].id : n \in DOMAIN zones})
  /\ r.train = Train(wagons, zones, IF days = 0 THEN r.shortest.days ELSE days)
  /\ r.idle = IdleCrewDays(r.train, wagons)
  /\ r.network = TrainNetwork(r.train, wagons)

RunsAs(r) ==
  LET t == r.train
      zones == ToSet(t.flow)
      slots == DOMAIN t.takt
      start == EarlyStarts(r.network)
  IN  /\ \A s \in slots : start[s] = t.takt[s] * t.days
      /\ FinishDay(r.network) = t.duration
      /\ \A s, u \in slots : s # u /\ t.takt[s] = t.takt[u] => s[1] # u[1] /\ s[2] # u[2]
      /\ \A i \in DOMAIN r.wagons : r.wagons[i].id \notin t.overloaded =>
           \A z \in zones : t.crews[i] * t.days >= WorkIn(r.wagons[i], z)
      /\ FitsIn(r.wagons, t.flow, r.shortest.days)
      /\ r.shortest.days > 1 => ~FitsIn(r.wagons, t.flow, r.shortest.days - 1)
      /\ t.overloaded = {} => r.idle = IdleOf(t, r.wagons)

\* A train that is asked for runs.
LEMMA TrainsRun ==
  ASSUME NEW wagons, NEW zones, AreWagons(wagons), IsBuilding(zones),
         NEW days \in Int, CanRun(wagons, zones, IF days = 0 THEN 1 ELSE days),
         NEW r, IsTrainAsked(r, wagons, zones, days)
  PROVE  RunsAs(r)
<1>1. PICK ids, t, d : /\ ids = {zones[n].id : n \in DOMAIN zones} /\ t = r.train
                       /\ d = r.shortest.days
  OBVIOUS
<1>2. IsTrainOf(wagons, zones, ids)
  <2>1. ArePlacesApart(zones) /\ wagons # <<>> /\ zones # <<>>
    BY DEF CanRun, ArePlacesApart
  <2> QED BY <1>1, <2>1 DEF IsTrainOf
<1>3. PICK flow : flow = Flow(zones)
  OBVIOUS
<1>4. d = MinimumTakt(wagons, ids).days
  BY <1>1 DEF IsTrainAsked
<1>5. d \in Nat \ {0} /\ FitsIn(wagons, flow, d) /\ (d > 1 => ~FitsIn(wagons, flow, d - 1))
  BY <1>2, <1>3, <1>4, OnlyTheShortestFits
<1>6. PICK D : D = IF days = 0 THEN d ELSE days
  OBVIOUS
<1>7. D \in Nat \ {0} /\ t = Train(wagons, zones, D)
  <2>1. days # 0 => days >= 1
    BY DEF CanRun
  <2> QED BY <1>1, <1>5, <1>6, <2>1 DEF IsTrainAsked
<1>8. IsRun(t, wagons, ids, D)
  BY <1>2, <1>7, TrainIsRun
<1>9. PICK W, N : W = Len(wagons) /\ N = Len(zones)
  OBVIOUS
<1>10. TaktIs(t, W, N, D) /\ DOMAIN wagons = 1..W
  BY <1>2, <1>7, <1>9, TrainTakt
<1>11. t.flow = flow /\ t.days = D
  BY <1>3, <1>7 DEF Train
<1>12. PICK network : network = r.network
  OBVIOUS
<1>13. network = TrainNetwork(t, wagons) /\ r.wagons = wagons /\ r.idle = IdleCrewDays(t, wagons)
  BY <1>1, <1>12 DEF IsTrainAsked
<1>14. /\ \A s \in Slots(W, N) : EarlyStarts(network)[s] = t.takt[s] * D
       /\ FinishDay(network) = t.duration
  BY <1>10, <1>13, TrainIsDated
<1>15. DOMAIN t.takt = Slots(W, N)
  BY <1>10 DEF TaktIs
<1>16. \A s, u \in DOMAIN t.takt : s # u /\ t.takt[s] = t.takt[u] => s[1] # u[1] /\ s[2] # u[2]
  BY <1>10, SlotsApart
<1>17. ASSUME NEW i \in DOMAIN wagons, wagons[i].id \notin t.overloaded, NEW z \in ToSet(t.flow)
       PROVE  t.crews[i] * D >= WorkIn(wagons[i], z)
  <2>1. z \in ids /\ t.crews[i] \in Nat /\ Heaviest(wagons[i], ids) <= t.crews[i] * D
    BY <1>8, <1>17 DEF IsRun
  <2>2. Heaviest(wagons[i], ids) \in Nat /\ WorkIn(wagons[i], z) \in Nat
        /\ WorkIn(wagons[i], z) <= Heaviest(wagons[i], ids)
    BY <1>2, <2>1, HeaviestIs
  <2>3. t.crews[i] * D \in Nat
    BY <1>7, <2>1
  <2> QED BY <2>1, <2>2, <2>3
<1>18. t.overloaded = {} => IdleCrewDays(t, wagons) = IdleOf(t, wagons)
  BY <1>2, <1>7, IdleIs
<1> QED BY <1>1, <1>5, <1>11, <1>12, <1>13, <1>14, <1>15, <1>16, <1>17, <1>18 DEF RunsAs

\* What is told of a take-off.
IsToldOf(lines, known, r) ==
  LET used == DOMAIN lines \ r.problems
  IN  /\ \A k \in used : \E p \in DOMAIN r.amounts : lines[k].place \in {Bare, p}
      /\ \A p \in DOMAIN r.amounts : r.amounts[p] >= 0
      /\ DOMAIN r.amounts \subseteq known

\* A line that is not reported is used, and no amount is less than nothing.
LEMMA LinesAreUsed ==
  ASSUME NEW lines, NEW known,
         lines = [k \in 1..Len(lines) |-> lines[k]], Len(lines) \in Nat,
         \A k \in DOMAIN lines : lines[k].amount \in Int \cup {Unreadable},
         Len(lines) <= MaxLines,
         NEW r, r = TakeOff(lines, known)
  PROVE  IsToldOf(lines, known, r)
<1> DEFINE bad == {k \in DOMAIN lines : IsProblem(lines[k], known)}
           for(p) == {k \in DOMAIN lines \ bad : lines[k].place \in {Bare, p}}
<1>1. DOMAIN lines = 1..Len(lines)
  BY LengthIs
<1>2. ~(Len(lines) > MaxLines)
  BY MaxLinesAssumption
<1>3. r = [amounts |-> [p \in {p \in known : for(p) # {}} |-> lines[Max(for(p))].amount],
           problems |-> bad]
  BY <1>2 DEF TakeOff
<1>4. /\ \A p : p \in DOMAIN r.amounts <=> p \in known /\ for(p) # {}
      /\ \A p \in DOMAIN r.amounts : r.amounts[p] = lines[Max(for(p))].amount
      /\ r.problems = bad
  BY <1>3
<1>5. \A p : \A k : k \in for(p) <=> k \in DOMAIN lines /\ k \notin bad /\ lines[k].place \in {Bare, p}
  OBVIOUS
<1>6. \A k \in DOMAIN lines : k \in bad <=> IsProblem(lines[k], known)
  OBVIOUS
<1> HIDE DEF bad, for
<1>7. ASSUME NEW k \in DOMAIN lines, k \notin bad
      PROVE  \E p \in DOMAIN r.amounts : lines[k].place \in {Bare, p}
  <2>1. \E p \in known : lines[k].place \in {Bare, p}
    <3>1. ~IsProblem(lines[k], known)
      BY <1>6, <1>7
    <3>2. CASE lines[k].place = Bare
      <4>1. known # {}
        BY <3>1, <3>2 DEF IsProblem
      <4> QED BY <3>2, <4>1
    <3>3. CASE lines[k].place # Bare
      <4>1. lines[k].place \in known
        BY <3>1, <3>3 DEF IsProblem
      <4> QED BY <4>1
    <3> QED BY <3>2, <3>3
  <2>2. PICK p \in known : lines[k].place \in {Bare, p}
    BY <2>1
  <2>3. k \in for(p)
    BY <1>5, <1>7, <2>2
  <2>4. p \in DOMAIN r.amounts
    BY <1>4, <2>2, <2>3
  <2> QED BY <2>2, <2>4
<1>8. ASSUME NEW p \in DOMAIN r.amounts PROVE r.amounts[p] >= 0
  <2>1. PICK X : X = for(p)
    OBVIOUS
  <2>2. X # {} /\ X \subseteq DOMAIN lines
    BY <1>4, <1>5, <2>1
  <2>3. X \in SUBSET Int
    BY <1>1, <2>2
  <2>4. IsFiniteSet(X)
    <3>1. 1 \in Int /\ Len(lines) \in Int
      OBVIOUS
    <3>2. IsFiniteSet(DOMAIN lines)
      BY <1>1, <3>1, FS_Interval
    <3> QED BY <2>2, <3>2, FS_Subset
  <2>5. Max(X) \in X
    BY <2>2, <2>3, <2>4, MaxIs
  <2>6. PICK k : k = Max(X)
    OBVIOUS
  <2>7. k \in DOMAIN lines /\ k \notin bad /\ r.amounts[p] = lines[k].amount
    BY <1>4, <1>5, <2>1, <2>5, <2>6
  <2>8. ~IsProblem(lines[k], known)
    BY <1>6, <2>7
  <2>9. lines[k].amount # Unreadable /\ ~(lines[k].amount < 0)
    BY <2>8 DEF IsProblem
  <2>10. lines[k].amount \in Int
    BY <2>7, <2>9
  <2> QED BY <2>7, <2>9, <2>10
<1> QED BY <1>4, <1>7, <1>8 DEF IsToldOf

-----------------------------------------------------------------------------
\* The answers themselves.

IsLinesOf(r, trades, places) ==
  /\ CanFlow(trades, places)
  /\ r.line = Computed(trades, places) /\ r.network = ToNetwork(r.line, trades)

IsTrainFor(r, wagons, zones, days) ==
  /\ CanRun(wagons, zones, IF days = 0 THEN 1 ELSE days)
  /\ IsTrainAsked(r, wagons, zones, days)

WagonsOf(trades, places) == [i \in DOMAIN trades |-> WagonOf(trades[i], places)]

\* An answer to such a request follows from what was asked.
LinesToldInv ==
  /\ Answered("lines") \/ Answered("stored lines") =>
       IsLinesOf(answer.result, request.trades, request.places)
  /\ Answered("takt") => IsTrainFor(answer.result, request.wagons, request.zones, request.days)
  /\ Answered("stored takt") =>
       /\ CanFlow(request.trades, request.places)
       /\ IsTrainFor(answer.result, WagonsOf(request.trades, request.places), request.places,
                     request.days)
  /\ Answered("take-off") => answer.result = TakeOff(request.lines, request.known)

\* The studies of lines, trains and take-offs.
OfLines == {"lines", "stored lines", "takt", "stored takt", "take-off"}

\* Whatever is done for another study, and a refusal, leaves it so.
LEMMA NotOfLines ==
  ASSUME LinesToldInv, request' = request,
         request.study \notin OfLines \/ answer'.status # "answered"
  PROVE  LinesToldInv'
BY DEF LinesToldInv, Answered, OfLines

\* Lines as they are told.
LEMMA LinesFound ==
  ASSUME CanFlow(request.trades, request.places)
  PROVE  IsLinesOf(Lines, request.trades, request.places)
BY DEF IsLinesOf, Lines

\* What is told of lines, trains and take-offs follows from what was asked.
LEMMA LinesAreTold ==
  StudiesSpec => []LinesToldInv
<1>0. /\ \A x : Found(x).status = "answered" /\ Found(x).result = x
      /\ Pending.status = "pending" /\ Declined.status = "refused"
      /\ NotThere.status = "nothing to show"
  BY DEF Found, Pending, Declined, NotThere
<1>1. StudiesInit => LinesToldInv
  <2>1. SUFFICES ASSUME StudiesInit PROVE LinesToldInv
    OBVIOUS
  <2>2. answer.status = "nothing to show"
    BY <1>0, <2>1 DEF StudiesInit
  <2> QED BY <2>2 DEF LinesToldInv, Answered
<1>2. ASSUME ReportsToldInv, LinesToldInv, [StudiesNext]_studyVars PROVE LinesToldInv'
  <2>1. CASE UNCHANGED studyVars
    BY <1>2, <2>1 DEF LinesToldInv, studyVars, Answered
  <2>2. CASE Asks
    <3>1. answer'.status = "pending"
      BY <1>0, <2>2 DEF Asks
    <3> QED BY <3>1 DEF LinesToldInv, Answered
  <2>3. CASE \/ CompareBaselines \/ CompareToBaseline \/ AnalyseWindows \/ ModelDelay
             \/ SchedulePortfolio \/ ApplyWeather \/ MeasureProgress \/ MeasureEarnedSchedule
             \/ StartCompressing
    <3>1. request' = request /\ request.study \notin OfLines
      <4>1. CASE CompareBaselines
        BY <4>1 DEF CompareBaselines, IsOpen, Reply, OfLines
      <4>2. CASE CompareToBaseline
        BY <4>2 DEF CompareToBaseline, IsOpen, Reply, OfLines
      <4>3. CASE AnalyseWindows
        BY <4>3 DEF AnalyseWindows, IsOpen, Reply, OfLines
      <4>4. CASE ModelDelay
        BY <4>4 DEF ModelDelay, IsOpen, Reply, OfLines
      <4>5. CASE SchedulePortfolio
        BY <4>5 DEF SchedulePortfolio, IsOpen, Reply, OfLines
      <4>6. CASE ApplyWeather
        BY <4>6 DEF ApplyWeather, IsOpen, Reply, OfLines
      <4>7. CASE MeasureProgress
        BY <4>7 DEF MeasureProgress, IsOpen, Reply, OfLines
      <4>8. CASE MeasureEarnedSchedule
        BY <4>8 DEF MeasureEarnedSchedule, IsOpen, Reply, OfLines
      <4>9. CASE StartCompressing
        BY <4>9 DEF StartCompressing, IsOpen, Reply, OfLines
      <4> QED BY <2>3, <4>1, <4>2, <4>3, <4>4, <4>5, <4>6, <4>7, <4>8, <4>9
    <3> QED BY <1>2, <3>1, NotOfLines
  <2>4. CASE BuyADay \/ StopCompressing
    <3>1. answer.status = "compressing" /\ request' = request
      BY <2>4 DEF BuyADay, StopCompressing, IsCompressing, Reply
    <3>2. request.study = "compression"
      BY <1>2, <3>1 DEF ReportsToldInv
    <3>3. request.study \notin OfLines
      BY <3>2 DEF OfLines
    <3> QED BY <1>2, <3>1, <3>3, NotOfLines
  <2>5. CASE ScheduleLinear \/ LinearSchedule
    <3>1. /\ request' = request /\ request.study \in {"lines", "stored lines"}
          /\ \/ answer' \in {Declined, NotThere}
             \/ CanFlow(request.trades, request.places) /\ answer' = Found(Lines)
      BY <2>5 DEF ScheduleLinear, LinearSchedule, IsOpen, Reply
    <3>2. CASE answer' \in {Declined, NotThere}
      <4>1. answer'.status # "answered"
        BY <1>0, <3>2
      <4> QED BY <1>2, <3>1, <4>1, NotOfLines
    <3>3. CASE CanFlow(request.trades, request.places) /\ answer' = Found(Lines)
      <4>1. IsLinesOf(answer'.result, request.trades, request.places)
        BY <1>0, <3>3, LinesFound
      <4> QED BY <3>1, <4>1 DEF LinesToldInv, Answered
    <3> QED BY <3>1, <3>2, <3>3
  <2>6. CASE ScheduleTakt
    <3>1. /\ request' = request /\ request.study = "takt"
          /\ \/ answer' = Declined
             \/ /\ CanRun(request.wagons, request.zones, IF request.days = 0 THEN 1 ELSE request.days)
                /\ answer' = Found(TrainOf(request.wagons, request.zones))
      BY <2>6 DEF ScheduleTakt, IsOpen, Reply
    <3>2. CASE answer' = Declined
      <4>1. answer'.status # "answered"
        BY <1>0, <3>2
      <4> QED BY <1>2, <3>1, <4>1, NotOfLines
    <3>3. CASE /\ CanRun(request.wagons, request.zones, IF request.days = 0 THEN 1 ELSE request.days)
               /\ answer' = Found(TrainOf(request.wagons, request.zones))
      <4>1. IsTrainFor(answer'.result, request.wagons, request.zones, request.days)
        <5>1. PICK train : train = TrainOf(request.wagons, request.zones)
          OBVIOUS
        <5>2. IsTrainFor(train, request.wagons, request.zones, request.days)
          BY <3>3, <5>1 DEF IsTrainFor, IsTrainAsked, TrainOf
        <5> QED BY <1>0, <3>3, <5>1, <5>2
      <4> QED BY <3>1, <4>1 DEF LinesToldInv, Answered
    <3> QED BY <3>1, <3>2, <3>3
  <2>7. CASE TaktPlan
    <3>1. PICK wagons : wagons = WagonsOf(request.trades, request.places)
      OBVIOUS
    <3>2. /\ request' = request /\ request.study = "stored takt"
          /\ \/ answer' \in {Declined, NotThere}
             \/ /\ CanFlow(request.trades, request.places)
                /\ CanRun(wagons, request.places, IF request.days = 0 THEN 1 ELSE request.days)
                /\ answer' = Found(TrainOf(wagons, request.places))
      BY <2>7, <3>1 DEF TaktPlan, IsOpen, Reply, WagonsOf
    <3>3. CASE answer' \in {Declined, NotThere}
      <4>1. answer'.status # "answered"
        BY <1>0, <3>3
      <4> QED BY <1>2, <3>2, <4>1, NotOfLines
    <3>4. CASE /\ CanFlow(request.trades, request.places)
               /\ CanRun(wagons, request.places, IF request.days = 0 THEN 1 ELSE request.days)
               /\ answer' = Found(TrainOf(wagons, request.places))
      <4>1. IsTrainFor(answer'.result, wagons, request.places, request.days)
        <5>1. PICK train : train = TrainOf(wagons, request.places)
          OBVIOUS
        <5>2. IsTrainFor(train, wagons, request.places, request.days)
          BY <3>4, <5>1 DEF IsTrainFor, IsTrainAsked, TrainOf
        <5> QED BY <1>0, <3>4, <5>1, <5>2
      <4>2. WagonsOf(request'.trades, request'.places) = wagons
        BY <3>1, <3>2
      <4> QED BY <3>2, <3>4, <4>1, <4>2 DEF LinesToldInv, Answered
    <3> QED BY <3>2, <3>3, <3>4
  <2>8. CASE ParseQuantities
    <3>1. /\ request' = request /\ request.study = "take-off"
          /\ answer' = Found(TakeOff(request.lines, request.known))
      BY <2>8 DEF ParseQuantities, IsOpen, Reply
    <3>2. answer'.result = TakeOff(request.lines, request.known)
      BY <1>0, <3>1
    <3> QED BY <3>1, <3>2 DEF LinesToldInv, Answered
  <2> QED BY <1>2, <2>1, <2>2, <2>3, <2>4, <2>5, <2>6, <2>7, <2>8 DEF StudiesNext
<1> QED BY <1>1, <1>2, ReportsAreTold, PTL DEF StudiesSpec

\* Lines can be walked, for any trades and places: no crew enters a place before
\* the trade in front has left it and the buffer has passed, none waits longer
\* than some place asks, and the engine dates the network alike; a train's wagons
\* are never two in a zone, have the crews for their work unless it says that
\* they have not, fit in the shortest takt and in no shorter, and idle what is
\* paid and not worked; a line of a take-off is used or reported
\* (locations.py:226-477, takt.py:215-444, projects.py:464-540).
THEOREM LinesCanBeWalked ==
  StudiesSpec => []LinesHold
<1>1. ASSUME ReportsToldInv, LinesToldInv PROVE LinesHold
  <2>1. ASSUME Answered("lines") \/ Answered("stored lines") PROVE LineIsWalked(request.trades)
    <3>1. request.study \in {"lines", "stored lines"}
      BY <2>1 DEF Answered
    <3>2. PICK study : study = request.study
      OBVIOUS
    <3>3. IsRequest(request)
      <4>1. study # "none"
        BY <3>1, <3>2
      <4> QED BY <1>1, <3>2, <4>1, ToldIsRequest
    <3>4. AreTrades(request.trades) /\ IsBuilding(request.places)
      BY <3>1, <3>3 DEF IsRequest
    <3>5. PICK line, network : line = answer.result.line /\ network = answer.result.network
      OBVIOUS
    <3>6. /\ CanFlow(request.trades, request.places)
          /\ line = Computed(request.trades, request.places)
          /\ network = ToNetwork(line, request.trades)
      BY <1>1, <2>1, <3>5 DEF LinesToldInv, IsLinesOf
    <3>7. IsWalkedAs(request.trades, line, network)
      BY <3>4, <3>6, LinesAreWalked
    <3> QED BY <3>5, <3>7 DEF LineIsWalked, IsWalkedAs
  <2>2. ASSUME Answered("takt") \/ Answered("stored takt") PROVE TrainRuns
    <3>1. RunsAs(answer.result)
      <4>1. CASE Answered("takt")
        <5>1. request.study = "takt"
          BY <4>1 DEF Answered
        <5>2. IsRequest(request)
          BY <1>1, <5>1, ToldIsRequest
        <5>3. AreWagons(request.wagons) /\ IsBuilding(request.zones) /\ request.days \in Int
          BY <5>1, <5>2 DEF IsRequest
        <5>4. IsTrainFor(answer.result, request.wagons, request.zones, request.days)
          BY <1>1, <4>1 DEF LinesToldInv
        <5>5. PICK r, wagons, zones, days :
                /\ r = answer.result /\ wagons = request.wagons
                /\ zones = request.zones /\ days = request.days
          OBVIOUS
        <5>6. /\ AreWagons(wagons) /\ IsBuilding(zones) /\ days \in Int
              /\ CanRun(wagons, zones, IF days = 0 THEN 1 ELSE days)
              /\ IsTrainAsked(r, wagons, zones, days)
          BY <5>3, <5>4, <5>5 DEF IsTrainFor
        <5>7. RunsAs(r)
          BY <5>6, TrainsRun
        <5> QED BY <5>5, <5>7
      <4>2. CASE Answered("stored takt")
        <5>1. request.study = "stored takt"
          BY <4>2 DEF Answered
        <5>2. IsRequest(request)
          BY <1>1, <5>1, ToldIsRequest
        <5>3. AreTrades(request.trades) /\ IsBuilding(request.places) /\ request.days \in Int
          BY <5>1, <5>2 DEF IsRequest
        <5>4. PICK wagons : wagons = WagonsOf(request.trades, request.places)
          OBVIOUS
        <5>5. /\ CanFlow(request.trades, request.places)
              /\ IsTrainFor(answer.result, wagons, request.places, request.days)
          BY <1>1, <4>2, <5>4 DEF LinesToldInv
        <5>6. wagons = [i \in DOMAIN request.trades |-> WagonOf(request.trades[i], request.places)]
          BY <5>4 DEF WagonsOf
        <5>7. AreWagons(wagons)
          BY <5>3, <5>5, <5>6, TradesAreWagons
        <5>8. PICK r, zones, days :
                r = answer.result /\ zones = request.places /\ days = request.days
          OBVIOUS
        <5>9. /\ IsBuilding(zones) /\ days \in Int
              /\ CanRun(wagons, zones, IF days = 0 THEN 1 ELSE days)
              /\ IsTrainAsked(r, wagons, zones, days)
          BY <5>3, <5>5, <5>8 DEF IsTrainFor
        <5>10. RunsAs(r)
          BY <5>7, <5>9, TrainsRun
        <5> QED BY <5>8, <5>10
      <4> QED BY <2>2, <4>1, <4>2
    <3> QED BY <3>1 DEF TrainRuns, RunsAs, FitsIn, IdleOf
  <2>3. ASSUME Answered("take-off") PROVE TakeOffTold
    <3>1. request.study = "take-off"
      BY <2>3 DEF Answered
    <3>2. IsRequest(request)
      BY <1>1, <3>1, ToldIsRequest
    <3>3. PICK lines, known, r : lines = request.lines /\ known = request.known /\ r = answer.result
      OBVIOUS
    <3>4. /\ lines = [k \in 1..Len(lines) |-> lines[k]] /\ Len(lines) \in Nat
          /\ \A k \in DOMAIN lines : lines[k].amount \in Int \cup {Unreadable}
      BY <3>1, <3>2, <3>3 DEF IsRequest
    <3>5. r = TakeOff(lines, known)
      BY <1>1, <2>3, <3>3 DEF LinesToldInv
    <3>6. Len(lines) <= MaxLines => IsToldOf(lines, known, r)
      BY <3>4, <3>5, LinesAreUsed
    <3> QED BY <3>3, <3>6 DEF TakeOffTold, IsToldOf
  <2> QED BY <2>1, <2>2, <2>3 DEF LinesHold
<1> QED BY <1>1, ReportsAreTold, LinesAreTold, PTL
=============================================================================
