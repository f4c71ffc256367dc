------------------------------- MODULE Studies -------------------------------
(***************************************************************************)
(* The studies a client asks of a schedule: comparison, delay analysis,    *)
(* compression, portfolios, lines and takt trains, weather, progress       *)
(* (massingplan/api/schedules.py, massingplan/services/projects.py).       *)
(* A request is answered or refused by one handler; a handler changes      *)
(* nothing but its answer.                                                 *)
(***************************************************************************)
EXTENDS Compression, DelayAnalysis, Measures, Portfolio, Takt, Weather

CONSTANT Asked        \* [study -> its requests, as records with study and its arguments]

\* Plans whose activities have ids that can be compared.
IsListed(plan) == IsPlan(plan) /\ DOMAIN plan.tasks \subseteq Nat \ {Absent}

\* A calendar as it is read: its exceptions have no name, so none is an allowance
\* (api/schedules.py:750-768).
HasNoAllowance(c) ==
  c = [weekdays |-> c.weekdays, holidays |-> c.holidays, extra |-> c.extra, weather |-> {}]

\* Work, its baseline and what it is measured with.
IsReport(r) ==
  /\ r.dataDate \in Int
  /\ \A c \in DOMAIN r.days : IsFiniteSet(r.days[c]) /\ r.days[c] \subseteq Int
  /\ IsFiniteSet(DOMAIN r.tasks) /\ DOMAIN r.tasks \subseteq Nat
  /\ \A a \in DOMAIN r.tasks :
       /\ IsTask(r.tasks[a]) /\ r.tasks[a].cal \in DOMAIN r.days /\ r.tasks[a].dur \in Nat
       /\ {r.tasks[a].start, r.tasks[a].finish, r.tasks[a].remaining, r.tasks[a].percent}
            \subseteq MaybeInt
  /\ \A a \in DOMAIN r.baseline : r.baseline[a] \in Int \X Int
  /\ \A a \in DOMAIN r.forecast : r.forecast[a] \in Int

\* Trades with the work they have in places (locations.py:122-128).
AreTrades(trades) ==
  /\ trades = [i \in 1..Len(trades) |-> trades[i]] /\ Len(trades) \in Nat
  /\ \A i \in DOMAIN trades :
       /\ {trades[i].dur, trades[i].rate} \subseteq Nat
       /\ {trades[i].buffer, trades[i].crews} \subseteq Int
       /\ \A p \in DOMAIN trades[i].amounts : trades[i].amounts[p] \in Int

IsBuilding(places) ==
  /\ places = [n \in 1..Len(places) |-> places[n]] /\ Len(places) \in Nat
  /\ \A n \in DOMAIN places : {places[n].id, places[n].sequence} \subseteq Int

\* Wagons that can be built (takt.py:104-115).
AreWagons(wagons) ==
  /\ wagons = [i \in 1..Len(wagons) |-> wagons[i]] /\ Len(wagons) \in Nat
  /\ \A i \in DOMAIN wagons :
       /\ wagons[i].other \in Nat /\ wagons[i].max \in Nat \ {0}
       /\ \A z \in DOMAIN wagons[i].work : wagons[i].work[z] \in Nat

\* What a handler is given: activities and links have been read one by one
\* (api/schedules.py:78-144), and the networks are such as the engine takes.
IsRequest(r) ==
  CASE r.study = "comparison" -> IsListed(r.old) /\ IsListed(r.new)
    [] r.study = "baseline" ->
         /\ IsListed(r.plan)
         /\ IsFiniteSet(DOMAIN r.rows) /\ r.rows \in [DOMAIN r.rows -> Nat]
         /\ DOMAIN r.rows \subseteq Nat \ {Absent}
    [] r.study = "windows" ->
         /\ r.updates = [i \in 1..Len(r.updates) |-> r.updates[i]] /\ Len(r.updates) \in Nat
         /\ \A i \in DOMAIN r.updates : r.updates[i].date \in Int /\ IsListed(r.updates[i].plan)
    [] r.study = "delay" ->
         /\ IsListed(r.plan)
         /\ r.events \in Seq([id : Nat, dur : Int, impacts : Nat, onset : Nat])
    [] r.study = "compression" ->
         /\ IsListed(r.plan) /\ r.target \in Int
         /\ IsFiniteSet(DOMAIN r.costs) /\ r.costs \in [DOMAIN r.costs -> [cost : Int, max : Int]]
         /\ IsFiniteSet(r.pairs) /\ r.pairs \subseteq Nat \X (Nat \ {Absent})
    [] r.study = "portfolio" ->
         /\ r.projects = [i \in 1..Len(r.projects) |-> r.projects[i]] /\ Len(r.projects) \in Nat
         /\ \A i \in DOMAIN r.projects : IsPlan(r.projects[i].plan)
         /\ r.external = [k \in 1..Len(r.external) |-> r.external[k]] /\ Len(r.external) \in Nat
         /\ \A k \in DOMAIN r.external :
              r.external[k].type \in {"FS", "SS", "FF", "SF"} /\ r.external[k].lag \in Int
    [] r.study \in {"lines", "stored lines"} -> AreTrades(r.trades) /\ IsBuilding(r.places)
    [] r.study = "takt" -> AreWagons(r.wagons) /\ IsBuilding(r.zones) /\ r.days \in Int
    [] r.study = "stored takt" -> AreTrades(r.trades) /\ IsBuilding(r.places) /\ r.days \in Int
    [] r.study = "take-off" ->
         /\ r.lines = [k \in 1..Len(r.lines) |-> r.lines[k]] /\ Len(r.lines) \in Nat
         /\ \A k \in DOMAIN r.lines : r.lines[k].amount \in Int \cup {Unreadable}
    [] r.study = "weather" ->
         /\ {r.start, r.finish, r.dataDate, r.horizon} \subseteq Int
         /\ \A c \in DOMAIN r.calendars : HasNoAllowance(r.calendars[c])
         /\ r.allowances = [k \in 1..Len(r.allowances) |-> r.allowances[k]] /\ Len(r.allowances) \in Nat
         /\ \A k \in DOMAIN r.allowances : r.allowances[k].lost \in [0..YearLength - 1 -> Int]
         /\ r.work = [n \in 1..Len(r.work) |-> r.work[n]] /\ Len(r.work) \in Nat
         /\ \A n \in DOMAIN r.work : r.work[n].cal \in DOMAIN r.calendars /\ r.work[n].dur \in Nat
    [] r.study = "progress" -> IsReport(r)
    [] r.study = "earned" ->
         /\ IsReport(r) /\ r.calendar \in DOMAIN r.days
         /\ \A a \in DOMAIN r.baseline : r.baseline[a][1] <= r.baseline[a][2]
    [] OTHER -> TRUE

ASSUME AskedAssumption == \A study \in DOMAIN Asked : \A r \in Asked[study] : IsRequest(r)

VARIABLES request, answer

studyVars == <<request, answer>>

NothingAsked == [study |-> "none"]
Pending      == [status |-> "pending"]
Declined     == [status |-> "refused"]
NotThere     == [status |-> "nothing to show"]
Found(what)  == [status |-> "answered", result |-> what]

IsOpen(study) == request.study = study /\ answer = Pending

\* One request a behaviour: no handler keeps anything for the next.
Asks ==
  /\ request = NothingAsked
  /\ \E study \in DOMAIN Asked : request' \in Asked[study]
  /\ answer' = Pending

Reply(what) == answer' = what /\ UNCHANGED request

-----------------------------------------------------------------------------
\* Two schedules, matched by id or by code.
CompareBaselines ==
  /\ IsOpen("comparison")
  /\ LET old == Scheduled(request.old)
         new == Scheduled(request.new)
     IN  \E was \in old.paths, is \in new.paths :
           Reply(Found(Compared(old, new, request.match, was, is)))

\* A project against one of its baselines, replayed under today's links.
CompareToBaseline ==
  /\ IsOpen("baseline")
  /\ \/ /\ DOMAIN request.rows = {}
        /\ Reply(Declined)
     \/ /\ DOMAIN request.rows # {}
        /\ LET old == Scheduled(Replayed(request.rows, request.plan))
               new == Scheduled(request.plan)
           IN  \E was \in old.paths, is \in new.paths :
                 Reply(Found(Compared(old, new, "id", was, is)))

\* A series of updates, each scheduled as it stood.
AnalyseWindows ==
  /\ IsOpen("windows")
  /\ LET updates == [i \in DOMAIN request.updates |->
                       [date |-> request.updates[i].date, out |-> Scheduled(request.updates[i].plan)]]
         reported == UNION {updates[i].out.paths : i \in DOMAIN updates}
     IN  \/ ~IsSeries(updates) /\ Reply(Declined)
         \/ /\ IsSeries(updates)
            /\ \E paths \in {p \in [DOMAIN updates -> reported] :
                               \A i \in DOMAIN p : p[i] \in updates[i].out.paths} :
                 Reply(Found(Windows(updates, paths, request.match)))

\* The method is named by the client; there is no default.
ModelDelay ==
  /\ IsOpen("delay")
  /\ \/ request.method = "impacted" /\ CanImpose(request.plan, request.events)
        /\ Reply(Found(ImpactedAsPlanned(request.plan, request.events)))
     \/ request.method = "collapsed" /\ CanCollapse(request.plan, request.events)
        /\ Reply(Found(CollapsedAsBuilt(request.plan, request.events)))
     \/ /\ request.method = "impacted" => ~CanImpose(request.plan, request.events)
        /\ request.method = "collapsed" => ~CanCollapse(request.plan, request.events)
        /\ Reply(Declined)

-----------------------------------------------------------------------------
\* Compression buys one day a round, until the target or the levers are reached.
StartCompressing ==
  /\ IsOpen("compression")
  /\ IF CanCompress(request.plan, request.target, request.costs, request.pairs)
     THEN Reply([status |-> "compressing",
                 now |-> FirstState(request.plan, request.target, request.costs, request.pairs)])
     ELSE Reply(Declined)

IsCompressing == answer.status = "compressing"

WantsMore == Saved(answer.now) < answer.now.target

BuyADay ==
  /\ IsCompressing /\ WantsMore
  /\ \E o \in Offers(answer.now) :
       IsBestOffer(answer.now, o) /\ Reply([answer EXCEPT !.now = Bought(@, o)])

StopCompressing ==
  /\ IsCompressing
  /\ ~WantsMore \/ Offers(answer.now) = {}
  /\ Reply(Found(answer.now))

-----------------------------------------------------------------------------
SchedulePortfolio ==
  /\ IsOpen("portfolio")
  /\ IF CanMerge(request.projects, request.external)
     THEN Reply(Found(Programme(request.projects, request.external)))
     ELSE Reply(Declined)

Lines ==
  LET line == Computed(request.trades, request.places)
  IN  [line |-> line, network |-> ToNetwork(line, request.trades)]

\* Sent to the API: trades and places have to be there.
ScheduleLinear ==
  /\ IsOpen("lines")
  /\ IF CanFlow(request.trades, request.places) THEN Reply(Found(Lines)) ELSE Reply(Declined)

\* Stored with the project: without them there is nothing to show.
LinearSchedule ==
  /\ IsOpen("stored lines")
  /\ IF request.trades = <<>> \/ request.places = <<>> THEN Reply(NotThere)
     ELSE IF CanFlow(request.trades, request.places) THEN Reply(Found(Lines))
     ELSE Reply(Declined)

TrainOf(wagons, zones) ==
  LET shortest == MinimumTakt(wagons, {zones[n].id : n \in DOMAIN zones})
      train    == Train(wagons, zones, IF request.days = 0 THEN shortest.days ELSE request.days)
  IN  [shortest |-> shortest, train |-> train, idle |-> IdleCrewDays(train, wagons),
       wagons |-> wagons, network |-> TrainNetwork(train, wagons)]

\* Days of 0 stand for a takt left open: the shortest that works is taken.
ScheduleTakt ==
  /\ IsOpen("takt")
  /\ IF CanRun(request.wagons, request.zones, IF request.days = 0 THEN 1 ELSE request.days)
     THEN Reply(Found(TrainOf(request.wagons, request.zones)))
     ELSE Reply(Declined)

\* The stored lines planned as a train: every trade a wagon. A page asks for any
\* number of days: below one, negative here, there is no train.
TaktPlan ==
  LET wagons == [i \in DOMAIN request.trades |-> WagonOf(request.trades[i], request.places)]
  IN  /\ IsOpen("stored takt")
      /\ IF request.trades = <<>> \/ request.places = <<>> THEN Reply(NotThere)
         ELSE IF /\ CanFlow(request.trades, request.places)
                 /\ CanRun(wagons, request.places, IF request.days = 0 THEN 1 ELSE request.days)
         THEN Reply(Found(TrainOf(wagons, request.places)))
         ELSE Reply(Declined)

\* A take-off typed for one trade.
ParseQuantities ==
  /\ IsOpen("take-off")
  /\ Reply(Found(TakeOff(request.lines, request.known)))

-----------------------------------------------------------------------------
\* The same work scheduled with a weather allowance and without.
ApplyWeather ==
  /\ IsOpen("weather")
  /\ IF CanCost(request.calendars, request.allowances, request.start, request.finish,
                request.work, request.dataDate, request.horizon)
     THEN Reply(Found(WeatherCost(request.calendars, request.allowances, request.start,
                                  request.finish, request.work, request.dataDate, request.horizon)))
     ELSE Reply(Declined)

\* Every activity on its own calendar.
MeasureProgress ==
  /\ IsOpen("progress")
  /\ Reply(Found(ProgressReport(request.days, request.tasks, request.baseline, request.forecast,
                               request.dataDate)))

\* On the first calendar; without a baseline, or with one of other work only,
\* there is nothing to measure against.
MeasureEarnedSchedule ==
  /\ IsOpen("earned")
  /\ IF Scope(request.tasks, request.baseline) = {} THEN Reply(Declined)
     ELSE Reply(Found(EarnedSchedule(request.days[request.calendar], request.tasks, request.baseline,
                               request.dataDate)))

-----------------------------------------------------------------------------
StudiesInit == request = NothingAsked /\ answer = NotThere

StudiesNext ==
  \/ Asks
  \/ CompareBaselines \/ CompareToBaseline
  \/ AnalyseWindows \/ ModelDelay
  \/ StartCompressing \/ BuyADay \/ StopCompressing
  \/ SchedulePortfolio
  \/ ScheduleLinear \/ LinearSchedule
  \/ ScheduleTakt \/ TaktPlan
  \/ ParseQuantities
  \/ ApplyWeather \/ MeasureProgress \/ MeasureEarnedSchedule

StudiesSpec == StudiesInit /\ [][StudiesNext]_studyVars
=============================================================================
