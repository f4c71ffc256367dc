----------------------------- MODULE Levelling -----------------------------
(***************************************************************************)
(* Serial schedule generation under resource limits                        *)
(* (massingplan/core/levelling.py, resources.py).  Once the calculation    *)
(* is done, each activity that has not started is placed, one per step, at *)
(* the first day on which its resources are free.                          *)
(*                                                                         *)
(* pool is what the request adds to the schedule:                          *)
(*   demands  sequence of [act, res, units], units a day                   *)
(*   cap      resource -> [units, cal, except], for those with a limit     *)
(*   horizon  "within_float" or "extend_finish"                            *)
(***************************************************************************)
EXTENDS Schedule

CONSTANTS
  Requests,       \* the pools a caller may level against
  MaxAttempts     \* how many days are tried when nothing bounds the search (400)

\* A demand may be any number of units; a resource is never less than absent.
ASSUME LevellingAssumption ==
  \A request \in Requests :
    /\ IsFiniteSet(DOMAIN request.demands) /\ DOMAIN request.demands \subseteq Nat
    /\ \A i \in DOMAIN request.demands : request.demands[i].units \in Int
    /\ \A r \in DOMAIN request.cap :
         LET cap == request.cap[r]
         IN  /\ cap.units \in Nat
             /\ \A day \in DOMAIN cap.except : cap.except[day] \in Nat

\* The span of work not placed yet is no pair of days.
ASSUME SpanAssumption == None \notin Int \X Int

\* Nor is it a move.
ASSUME MoveAssumption ==
  \A request \in Requests :
    None \notin [shifted : Int, left : Int,
                 by : SUBSET (Node \cup {request.demands[i].res : i \in DOMAIN request.demands})]

ASSUME AttemptsAssumption == MaxAttempts \in Nat \ {0}

VARIABLES
  pool,
  stage,          \* "waiting" for the dates, "placing", "levelled"
  span,           \* the days each placed activity shows, None until placed
  inst,           \* the same span as instants, for the bounds of its successors
  unfit,          \* activities that fitted nowhere inside the horizon
  moves           \* activity -> the move reported, None when it keeps its start

levelVars == <<pool, stage, span, inst, unfit, moves>>

Pinned(a)  == IsStarted(Task(a)) \/ IsComplete(Task(a))
Candidates == {a \in Node : ~Pinned(a)}
IsPlaced(a) == span[a] # None

-----------------------------------------------------------------------------
\* Resources.

Rows(a) == {i \in DOMAIN pool.demands : pool.demands[i].act = a}

DaysWorked(a, sp) == Days(a) \cap (sp[1]..sp[2])

\* What the activities in who, on their spans, ask of resource r on a day.
Demanded(who, sp, r, day) ==
  LET on == {i \in DOMAIN pool.demands :
               LET d == pool.demands[i]
               IN  d.act \in who /\ d.res = r /\ day \in DaysWorked(d.act, sp[d.act])}
  IN  MapThenSumSet(LAMBDA i : pool.demands[i].units, on)

Available(r, day) ==
  LET cap == pool.cap[r]
  IN  IF day \in DOMAIN cap.except THEN cap.except[day]
      ELSE IF cap.cal # None /\ day \notin Lattice[cap.cal] THEN 0
      ELSE cap.units

\* Whose demand counts while placing: everything placed that is not finished.
Holding == {a \in Node : IsPlaced(a) /\ ~IsComplete(Task(a))}

Used(r, day) == Demanded(Holding, span, r, day)

\* The resource-days a set of spans overbooks.
OverAllocations(sp) ==
  {rd \in (DOMAIN pool.cap) \X (UNION {Days(a) : a \in Node}) :
     Demanded({a \in Node : ~IsComplete(Task(a))}, sp, rd[1], rd[2])
       > Available(rd[1], rd[2])}

-----------------------------------------------------------------------------
\* The order of placement.

PriorityKey(a) == <<ls[a], totalFloat[a], -Task(a).dur, Position(a)>>

Outranks(a, b) ==
  \E i \in 1..4 : /\ PriorityKey(a)[i] < PriorityKey(b)[i]
                  /\ \A j \in 1..(i - 1) : PriorityKey(a)[j] = PriorityKey(b)[j]

\* Fault: the list is sorted once and walked, whatever precedes what.
AnyTurn(a) == a \in Candidates /\ ~IsPlaced(a)

\* An activity is placeable once every candidate that precedes it, along any
\* link, is placed.
Placeable(a) ==
  /\ a \in Candidates /\ ~IsPlaced(a)
  /\ \A k \in DOMAIN net.links :
       Link(k).succ = a /\ Link(k).pred \in Candidates => IsPlaced(Link(k).pred)

IsNextInLine(a) ==
  Placeable(a) /\ \A b \in Node : Placeable(b) /\ b # a => Outranks(a, b)

\* The bound a link puts on the successor of a placed predecessor.
LevelledBound(k) ==
  ForwardBound(Link(k), inst[Link(k).pred][1], inst[Link(k).pred][2])

\* The latest bound of the placed predecessors, and who binds: the first declared.
Binding(a) ==
  {k \in DOMAIN net.links :
     /\ Link(k).succ = a /\ IsPlaced(Link(k).pred)
     /\ \A j \in DOMAIN net.links :
          Link(j).succ = a /\ IsPlaced(Link(j).pred) =>
            \/ LevelledBound(j) < LevelledBound(k)
            \/ LevelledBound(j) = LevelledBound(k) /\ k <= j}

\* The earliest start the placed predecessors permit, as a set.
PrecedenceFloor(a) ==
  {SnapStartForward(Days(a), LevelledBound(k)) : k \in Binding(a)}

-----------------------------------------------------------------------------
\* One placement.

\* The span of an activity that starts on a day.
SpanFrom(a, start) ==
  <<start, IF Task(a).dur = 0 THEN start
           ELSE FinishFromStart(Days(a), start, Task(a).dur) - 1>>

Overdrawn(a, d, i) ==
  /\ pool.demands[i].res \in DOMAIN pool.cap
  /\ Used(pool.demands[i].res, d) + pool.demands[i].units
       > Available(pool.demands[i].res, d)

\* Fault: only the first day of the span is looked at.
RefusedOnArrival(a, sp) ==
  {di \in DaysWorked(a, <<sp[1], sp[1]>>) \X Rows(a) : Overdrawn(a, di[1], di[2])}

\* The days and demands that keep an activity off a span, each demand judged alone.
Refused(a, sp) ==
  {di \in DaysWorked(a, sp) \X Rows(a) : Overdrawn(a, di[1], di[2])}

\* The resource to blame: of the first demand refused on the first such day.
Blocker(a, sp) ==
  LET refused == Refused(a, sp)
  IN  {pool.demands[r[2]].res :
         r \in {r \in refused :
                  \A q \in refused : r[1] < q[1] \/ (r[1] = q[1] /\ r[2] <= q[2])}}

\* Within the float, nothing starts after its late start.
LatestAllowed(a) ==
  IF pool.horizon = "within_float" THEN SnapStartBack(Days(a), ls[a]) ELSE Max(Days(a))

\* The days tried: from the first the logic allows to the latest the horizon
\* does, or a bounded number of them when the horizon is open.
DaysTried(a, from, latest) ==
  {d \in Days(a) \cap (from..latest) :
     pool.horizon = "within_float" \/ CountWorkingDays(Days(a), from, d) < MaxAttempts}

\* Work that needs nothing, and a milestone, goes in untried.
GoesInFreely(a) == Rows(a) = {} \/ Task(a).dur = 0

SpansTried(a, earliest) ==
  {SpanFrom(a, d) : d \in DaysTried(a, SnapStartForward(Days(a), earliest), LatestAllowed(a))}

\* The span an activity gets: the first tried that fits.  What fits nowhere
\* goes where the logic puts it, and the clash is left to be reported.
Settled(a, earliest, fitting) ==
  CASE GoesInFreely(a) -> SpanFrom(a, earliest)
    [] ~GoesInFreely(a) /\ fitting # {} ->
         CHOOSE sp \in fitting : \A other \in fitting : sp[1] <= other[1]
    [] ~GoesInFreely(a) /\ fitting = {} ->
         IF earliest = Shown(a)[1] THEN Shown(a) ELSE SpanFrom(a, earliest)

StartLevelling(request) ==
  /\ phase = "done" /\ stage = "waiting"
  /\ pool' = request
  /\ stage' = "placing"
  /\ span' = [a \in Node |-> IF Pinned(a) THEN Shown(a) ELSE None]
  /\ inst' = [a \in Node |-> IF Pinned(a) THEN <<es[a], ef[a]>> ELSE None]
  /\ UNCHANGED <<unfit, moves>>

\* What is reported of a move: by how many days, what held the work up, and what
\* is left of its float.
MoveOf(a, earliest, tried, fits, sp) ==
  LET binder   == IF fits /\ earliest > Shown(a)[1]
                  THEN {Link(k).pred : k \in Binding(a)} ELSE {}
      blockers == IF GoesInFreely(a) THEN {}
                  ELSE UNION {Blocker(a, t) : t \in {t \in tried : ~fits \/ t[1] < sp[1]}}
      shifted  == CountWorkingDays(Days(a), SnapStartForward(Days(a), Shown(a)[1]),
                                   SnapStartForward(Days(a), sp[1]))
  IN  [shifted |-> shifted, by |-> binder \cup blockers, left |-> totalFloat[a] - shifted]

\* Never before the day the calculation gave, never before what the placed
\* predecessors allow.
Place ==
  /\ stage = "placing"
  /\ \E a \in Node :
       /\ IsNextInLine(a)
       /\ \E earliest \in {Max(PrecedenceFloor(a) \cup {Shown(a)[1]})} :
          \E tried \in {SpansTried(a, earliest)} :
          \E fitting \in {{sp \in tried : Refused(a, sp) = {}}} :
          \E sp \in {Settled(a, earliest, fitting)} :
            LET fits == GoesInFreely(a) \/ fitting # {}
                from == SnapStartForward(Days(a), sp[1])
            IN  /\ span' = [span EXCEPT ![a] = sp]
                /\ inst' = [inst EXCEPT ![a] =
                              <<from, FinishFromStart(Days(a), from, Task(a).dur)>>]
                /\ unfit' = IF fits THEN unfit ELSE unfit \cup {a}
                /\ moves' = IF sp[1] = Shown(a)[1] THEN moves
                            ELSE [moves EXCEPT ![a] = MoveOf(a, earliest, tried, fits, sp)]
  /\ UNCHANGED <<pool, stage>>

\* Every candidate placed: the spans, the finish and the clashes are reported.
Report ==
  /\ stage = "placing"
  /\ \A a \in Node : IsPlaced(a)
  /\ stage' = "levelled"
  /\ UNCHANGED <<pool, span, inst, unfit, moves>>

LevelInit ==
  /\ stage = "waiting" /\ pool = None
  /\ span = [a \in Node |-> None] /\ inst = span /\ moves = span
  /\ unfit = {}

LevelNext ==
  /\ (\E request \in Requests : StartLevelling(request)) \/ Place \/ Report
  /\ UNCHANGED <<vars, kind>>

\* A schedule is calculated, then levelled once.
LevellingNext ==
  \/ CPMNext /\ UNCHANGED <<kind, levelVars>>
  \/ LevelNext

LevellingSpec ==
  /\ IsGraph /\ IsNetwork /\ CPMInit /\ LevelInit
  /\ [][LevellingNext]_<<vars, kind, levelVars>>

FinishAfter == ShownFinish(span)
=============================================================================
