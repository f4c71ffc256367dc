--------------------------- MODULE StudyProperties ---------------------------
(***************************************************************************)
(* What the studies promise: a comparison lists everything, delays add up, *)
(* a compressed plan can be delivered, a programme and its projects agree, *)
(* lines and trains can be walked.                                         *)
(***************************************************************************)
EXTENDS Studies

Answered(study) == request.study = study /\ answer.status = "answered"

-----------------------------------------------------------------------------
\* Sides of a comparison, from either of its two requests.
Compares == Answered("comparison") \/ Answered("baseline")

OldPlan == IF request.study = "comparison" THEN request.old ELSE Replayed(request.rows, request.plan)
NewPlan == IF request.study = "comparison" THEN request.new ELSE request.plan
MatchBy == IF request.study = "comparison" THEN request.match ELSE "id"

DeltasOf(side, a) ==
  {d \in answer.result.deltas : IF side = "old" THEN d.of.base = a ELSE d.of.curr = a}

\* Ids given to other work under a code: the entries of the old work and of the
\* new may then have one key, and one of them replaces the other.
Reissued ==
  {a \in DOMAIN OldPlan.tasks \cap DOMAIN NewPlan.tasks :
     Identity(OldPlan, MatchBy, a) # Identity(NewPlan, MatchBy, a)}

\* Old work whose entry has such an id for its key, its own or its counterpart's.
UnderReissued(a) ==
  \E r \in Reissued : a = r \/ Identity(OldPlan, MatchBy, a) = Identity(NewPlan, MatchBy, r)

NoneTwice(plan) == Cardinality(Ends(plan)) = Len(plan.links)

CauseShowsAs == [duration_growth |-> "duration", constraint_imposed |-> "constraint",
                 lag_growth |-> "relogicked", logic_added |-> "relogicked"]

EverythingListed ==
  /\ \A a \in DOMAIN OldPlan.tasks : UnderReissued(a) \/ Cardinality(DeltasOf("old", a)) = 1
  /\ \A a \in DOMAIN NewPlan.tasks : a \in Reissued \/ Cardinality(DeltasOf("new", a)) = 1

\* What the attribution charges to a change of an activity.
Charged == {x \in answer.result.attribution : x.cause \in DOMAIN CauseShowsAs}

DaysAccountedFor ==
  LET c == answer.result
  IN  /\ DaysIn(c.attribution) = FinishDay(NewPlan) - FinishDay(OldPlan)
      /\ c.attribution # {}
      /\ Cardinality(c.attribution \ Charged) <= 1

\* Of two links between one pair a lag is read against either, so those are left out.
CausesAreShown ==
  \A x \in Charged :
    /\ \E i \in DOMAIN answer.result.newPath : answer.result.newPath[i] = x.act
    /\ NoneTwice(OldPlan) \/ x.cause # "lag_growth" =>
         \E d \in DeltasOf("new", x.act) : CauseShowsAs[x.cause] \in d.kinds

NoMoveWithoutChange ==
  Reissued = {} /\ answer.result.move # 0 =>
    \E d \in answer.result.deltas :
      d.kinds \cap {"added", "removed", "duration", "constraint", "relogicked"} # {}

LinksAgree ==
  MatchBy = "id" /\ NoneTwice(OldPlan) /\ NoneTwice(NewPlan) =>
    \A a \in DOMAIN OldPlan.tasks \cap DOMAIN NewPlan.tasks :
      (\E d \in DeltasOf("new", a) : "relogicked" \in d.kinds)
        <=> (\E l \in answer.result.links : l[1][2] = a)

\* Nothing is lost in a comparison: every activity of both sides is in exactly
\* one entry, whatever the codes, unless an id was given to other work; the days
\* attributed add up to the move of the finish, each cause is on the driving path
\* and shows among the differences of its activity, and the finish never moves
\* without one; the links listed are those of the activities whose logic changed
\* (compare.py:236-425).
ComparisonIsComplete ==
  Compares => /\ EverythingListed /\ DaysAccountedFor /\ CausesAreShown
              /\ NoMoveWithoutChange /\ LinksAgree

\* The codes decide: the same plan under other ids.
Renumbered(old, new) ==
  LET code(plan, a) == plan.tasks[a].code
      byCode(plan) == {plan.tasks[a] : a \in DOMAIN plan.tasks}
      distinct(plan) == \A a, b \in DOMAIN plan.tasks :
                          code(plan, a) # 0 /\ (code(plan, a) = code(plan, b) => a = b)
      links(plan) == [k \in DOMAIN plan.links |->
                        [plan.links[k] EXCEPT !.pred = code(plan, @), !.succ = code(plan, @)]]
  IN  distinct(old) /\ distinct(new) /\ byCode(old) = byCode(new) /\ links(old) = links(new)

\* Matched by code, a plan that was only renumbered has not changed
\* (compare.py:8-13).
RenumberingIsNoChange ==
  Answered("comparison") /\ request.match = "code" /\ Renumbered(request.old, request.new) =>
    /\ answer.result.links = {}
    /\ \A d \in answer.result.deltas : d.kinds = {"unchanged"}

-----------------------------------------------------------------------------
LastUpdate == request.updates[Len(request.updates)]

WindowsAddUp ==
  LET w == answer.result
      slip == FinishDay(LastUpdate.plan) - FinishDay(request.updates[1].plan)
      causes == ByCause(w)
      worst == WorstWindow(w)
  IN  /\ SlipOf(w) = slip
      /\ Total(causes) = slip
      /\ slip > 0 => worst # 0
      /\ worst # 0 => \A i \in DOMAIN w : w[i].slip <= w[worst].slip

\* Work whose start is set by finish-to-start links and the data date alone.
StartsFreely(plan, a) ==
  plan.tasks[a].floor = 0 /\ \A k \in Into(plan, a) : plan.links[k].type = "FS"

FloatOf(plan, a) == LateStarts(plan, FinishDay(plan))[a] - EarlyStarts(plan)[a]

\* An event without an onset costs what float does not absorb.
CostsWhatFloatLeaves(i) ==
  LET e == request.events[i]
  IN  e.onset = 0 /\ StartsFreely(request.plan, e.impacts) =>
        answer.result.each[i] = Max({0, e.dur - FloatOf(request.plan, e.impacts)})

EventsBound(r) ==
  /\ \A i \in DOMAIN r.each : 0 <= r.each[i] /\ r.each[i] <= r.total
  /\ r.before + r.total = r.after

\* Delays add up: the windows of a series slip, together and by cause, by what
\* the last update is later than the first (windows.py:197-291); an imposed
\* delay costs exactly its days less the float of the work it holds up, no event
\* more than all of them together, and all of them no more than their days
\* (modelled.py:254-313, 356-533).
DelaysAddUp ==
  /\ Answered("windows") => WindowsAddUp
  /\ Answered("delay") => EventsBound(answer.result)
  /\ Answered("delay") /\ request.method = "impacted" =>
       /\ \A i \in DOMAIN request.events : CostsWhatFloatLeaves(i)
       /\ (\A i \in DOMAIN request.events : request.events[i].onset = 0) =>
            answer.result.total <= Total([i \in DOMAIN request.events |-> request.events[i].dur])

-----------------------------------------------------------------------------
\* No lever costs nothing but overlaps, so they are all pulled before money is spent.
EveryCrashCosts == \A a \in DOMAIN request.costs : request.costs[a].cost > 0

PromiseIsKept(plan) ==
  /\ FinishDay(plan) <= answer.result.end
  /\ EveryCrashCosts \/ request.pairs = {} => FinishDay(plan) = answer.result.end

WorkIsLeft(plan) ==
  \A a \in DOMAIN plan.tasks : plan.tasks[a] = request.plan.tasks[a] \/ plan.tasks[a].dur >= 1

PurchasesInOrder ==
  LET o == answer.result.options
  IN  \A n \in DOMAIN o :
        /\ o[n].before = (IF n = 1 THEN FinishDay(request.plan) ELSE o[n - 1].after)
        /\ o[n].after < o[n].before
        /\ IsCrash(o[n].of) => o[n].days <= request.costs[o[n].of[1]].max
        /\ FinishDay(request.plan) - o[n].before < request.target

\* A compression can be delivered: the options applied to the plan finish no
\* later than was promised, and not earlier either where a day saved is paid for,
\* and leave a day of whatever work was shortened; each option takes up where the
\* one before left, moves the finish and stays within its limit, and no money is
\* spent on a target already reached (compression.py:212-437).
PlanIsDeliverable ==
  Answered("compression") =>
    /\ PromiseIsKept(Applied(request.plan, answer.result.options))
    /\ WorkIsLeft(Applied(request.plan, answer.result.options))
    /\ PurchasesInOrder

\* A programme and its projects agree: work waits for what other projects owe
\* it, is never earlier than alone, and a project nobody hands anything to keeps
\* its own dates (portfolio.py:208-319).
ProjectsAgree ==
  Answered("portfolio") =>
    LET r == answer.result
        index(p) == CHOOSE i \in DOMAIN request.projects : request.projects[i].id = p
        at(e)  == r.dates[index(e[1])][e[2]]
        dur(e) == request.projects[index(e[1])].plan.tasks[e[2]].dur
        left(l)    == at(l.from) + (IF l.type \in {"FS", "FF"} THEN dur(l.from) ELSE 0)
        reached(l) == at(l.to) + (IF l.type \in {"FF", "SF"} THEN dur(l.to) ELSE 0)
        waits(i) == \E k \in DOMAIN request.external : index(request.external[k].to[1]) = i
    IN  /\ \A k \in DOMAIN request.external :
             left(request.external[k]) + request.external[k].lag <= reached(request.external[k])
        /\ \A i \in DOMAIN request.projects :
             LET alone == Standalone(request.projects[i])
             IN  /\ \A a \in DOMAIN alone : alone[a] <= r.dates[i][a]
                 /\ waits(i) \/ r.dates[i] = alone
        /\ r.end = Max({r.ends[i] : i \in DOMAIN r.ends})

-----------------------------------------------------------------------------
LineIsWalked(trades) ==
  LET l == answer.result.line
      n == Len(l.flow)
      start == EarlyStarts(answer.result.network)
      clear(i, m) == Gap(trades, l.flow, l.start, i, m) - trades[i].buffer
  IN  /\ \A i \in 2..Len(trades) :
           /\ \A m \in 1..n : clear(i, m) >= 0
           /\ l.start[i] = 0 \/ \E m \in 1..n : clear(i, m) = 0
           /\ l.interferences[i].gap >= trades[i].buffer
      /\ \A i \in DOMAIN trades, m \in 1..n :
           start[<<i, m>>] = SegmentStart(trades, l.flow, l.start, i, m)
      /\ FinishDay(answer.result.network) = l.duration

TrainRuns ==
  LET r == answer.result
      t == r.train
      zones == ToSet(t.flow)
      slots == DOMAIN t.takt
      start == EarlyStarts(r.network)
      fits(days) == Train(r.wagons, [n \in DOMAIN t.flow |-> [id |-> t.flow[n], sequence |-> n]],
                          days).overloaded = {}
  IN  /\ \A s \in slots : start[s] = t.takt[s] * t.days
      /\ FinishDay(r.network) = t.duration
      /\ \A s, u \in slots : s # u /\ t.takt[s] = t.takt[u] => s[1] # u[1] /\ s[2] # u[2]
      /\ \A i \in DOMAIN r.wagons : r.wagons[i].id \notin t.overloaded =>
           \A z \in zones : t.crews[i] * t.days >= WorkIn(r.wagons[i], z)
      /\ fits(r.shortest.days)
      /\ r.shortest.days > 1 => ~fits(r.shortest.days - 1)
      /\ t.overloaded = {} =>
           r.idle = Total([i \in DOMAIN r.wagons |-> t.paid[i] - t.worked[i]])

TakeOffTold ==
  LET r == answer.result
      used == DOMAIN request.lines \ r.problems
  IN  Len(request.lines) <= MaxLines =>
        /\ \A k \in used :
             \E p \in DOMAIN r.amounts : request.lines[k].place \in {Bare, p}
        /\ \A p \in DOMAIN r.amounts : r.amounts[p] >= 0
        /\ DOMAIN r.amounts \subseteq request.known

\* Lines can be walked: no crew enters a place before the trade in front has
\* left it and the buffer has passed, none waits longer than some place asks,
\* and the network handed to the engine gives the same dates; a train's wagons
\* never share a zone, have the crews they need, and run at the shortest takt
\* when none is given; a line of a take-off is used or reported
\* (locations.py:226-477, takt.py:215-444, projects.py:464-540).
LinesHold ==
  /\ Answered("lines") \/ Answered("stored lines") => LineIsWalked(request.trades)
  /\ Answered("takt") \/ Answered("stored takt") => TrainRuns
  /\ Answered("take-off") => TakeOffTold

-----------------------------------------------------------------------------
\* The days of a month an allowance may take, and those it took.
Offered(c, m) ==
  {d \in LatticeOf(WorkCalendarOf(c), DaysOfWeek, request.start, request.finish) \ c.holidays :
     MonthOf(d) = m}

SpreadEvenly(days, lost, count) ==
  LET n == Cardinality(days)
      taken == Min({count, n})
  IN  /\ lost \subseteq days /\ Cardinality(lost) = taken
      /\ \A d \in days :
           LET upTo(s) == Cardinality({x \in s : x <= d})
               skew == 2 * (n * upTo(lost) - taken * upTo(days))
           IN  -n <= skew /\ skew <= n

\* The days a calendar works before and no longer works after.
LostOf(before, after, first, last) ==
  LET worked(c) == LatticeOf(WorkCalendarOf(c), DaysOfWeek, first, last)
  IN  worked(before) \ worked(after)

\* Of several allowances that name one calendar the last is left in it.
TakesHold(k) ==
  \A j \in DOMAIN request.allowances :
    request.allowances[j].cal = request.allowances[k].cal => j <= k

\* What month m loses to allowance k: the days told, spread evenly, save those
\* that are extra work days, which stay worked; nothing when it does not hold.
MonthLoses(k, m) ==
  LET a     == request.allowances[k]
      c     == request.calendars[a.cal]
      days  == Offered(c, m)
      count == a.lost[m % YearLength]
      told  == {d \in answer.result.applied[k] : MonthOf(d) = m}
      lost  == {d \in LostOf(c, answer.result.calendars[a.cal], request.start, request.finish) :
                  MonthOf(d) = m}
  IN  /\ SpreadEvenly(days, told, count)
      /\ TakesHold(k) => lost = told \ c.extra
      /\ TakesHold(k) /\ days \cap c.extra = {} => SpreadEvenly(days, lost, count)

\* Nothing is lost but to an allowance and within its window.
LostWithin(c) ==
  LET before == request.calendars[c]
      after  == answer.result.calendars[c]
  IN  /\ LostOf(before, after, request.dataDate, request.horizon) \subseteq request.start..request.finish
      /\ after = before \/ \E k \in DOMAIN request.allowances : request.allowances[k].cal = c
      /\ WithoutAllowance(after) = before

FinishMovesBy(c) ==
  LET r == answer.result
      dry == LatticeOf(WorkCalendarOf(request.calendars[c]), DaysOfWeek, request.dataDate, request.horizon)
      lost == LostOf(request.calendars[c], r.calendars[c], request.dataDate, request.horizon)
  IN  CountWorkingDays(dry, r.dry, r.wet) = Cardinality({d \in lost : d < r.wet})

\* A weather allowance is lost working time (weather.py:108-239).  In a month
\* without extra work days the calendar loses the days asked for, or all it
\* has, spread evenly through the days it works and none of them lost already.
\* Extra work days are named with the others and stay worked, and of two
\* allowances for one calendar both are told and the last is lost.  No other day
\* is lost; taken out again the allowance leaves the calendar as it was; and the
\* finish moves by exactly the lost days the work meets.
AllowanceIsLost ==
  Answered("weather") =>
    LET r == answer.result
    IN  /\ \A k \in DOMAIN request.allowances :
             /\ r.applied[k] \subseteq request.start..request.finish
             /\ \A m \in MonthOf(request.start)..MonthOf(request.finish) : MonthLoses(k, m)
        /\ \A c \in DOMAIN request.calendars : LostWithin(c)
        /\ r.dry <= r.wet
        /\ \A c \in DOMAIN request.calendars :
             (\A n \in DOMAIN request.work : request.work[n].cal = c) => FinishMovesBy(c)

-----------------------------------------------------------------------------
\* The earned offset reads back what was earned, and tells lateness as the curve does.
EarnedOnTheCurve ==
  LET m == answer.result
      num == m.at[1]
      den == m.at[2]
      n   == num \div den
      step == IF n = m.length THEN 0 ELSE m.curve[n + 1] - m.curve[n]
  IN  /\ 0 <= num /\ num <= m.length * den
      /\ Grain * (m.curve[n] * den + step * (num - n * den)) = m.earned * den
      /\ m.elapsed \in 1..m.length => (IsLate(m) <=> m.earned < Grain * m.curve[m.elapsed])
      /\ m.elapsed > m.length => IsLate(m)

ProgressTold ==
  LET r == answer.result
      rows == r.rows
      today == {a \in DOMAIN rows : rows[a].planned[2] = request.dataDate /\ rows[a].finish = None}
  IN  /\ \A a \in DOMAIN rows :
           rows[a].finish # None /\ rows[a].finishVariance # None /\ rows[a].finishVariance > 0
             => a \in r.behind
      /\ r.due \subseteq r.behind
      /\ r.behind = {} /\ r.index # None => r.index[1] + Cardinality(today) = r.index[2]
      /\ r.worst # None =>
           r.total <= rows[r.worst].finishVariance * Cardinality(Measured(rows))

\* Progress is measured on one scale: the earned offset is where the baseline
\* planned exactly what was earned, so the index is below one if and only if less
\* was earned than planned, and stays there when a late project is done; what is
\* due and not begun, and what finished late, is behind (earned.py:193-295,
\* progress.py:48-214).
MeasuresAgree ==
  /\ Answered("earned") => EarnedOnTheCurve
  /\ Answered("progress") => ProgressTold
=============================================================================
