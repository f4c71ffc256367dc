-------------------------------- MODULE CPM --------------------------------
(***************************************************************************)
(* The critical-path calculation (massingplan/core/cpm.py): one run of     *)
(* calculate() over one network, as the passes it makes.  Validation, then *)
(* the topological sort of KahnSort, then the forward pass, the deadline,  *)
(* the backward pass, the as-late-as-possible post-pass and the floats.    *)
(* Each iteration of each loop is one step.                                *)
(*                                                                         *)
(* The network being scheduled is the record net, chosen in the initial    *)
(* state and never changed:                                                *)
(*   task          [Node -> activity], see Activities                      *)
(*   links         declaration position -> [pred, succ, type, lag]         *)
(*   mode          "retained_logic", "progress_override" or "actual_dates" *)
(*   lagCalendar   "predecessor", "successor", "twenty_four_hour" or       *)
(*                 "project_default"                                       *)
(*   mustFinishBy  the contract date or None                               *)
(*   dataDate      the instant the schedule is computed from               *)
(***************************************************************************)
EXTENDS KahnSort, Activities

CONSTANTS
  Calendars,        \* calendar ids
  Lattice,          \* [Calendars -> sets of working instants], bound once per run
  ProjectCalendar   \* the calendar of LagCalendar.PROJECT_DEFAULT

ASSUME CalendarAssumption ==
  /\ Lattice \in [Calendars -> SUBSET Int]
  /\ \A c \in Calendars : IsFiniteSet(Lattice[c])
  /\ ProjectCalendar \in Calendars

ASSUME NodeAssumption == None \notin Node

VARIABLES
  net,              \* the network, its options and the data date
  phase,            \* the pass under way
  at,               \* position of the loop over the activities
  cand,             \* next link position of the loop over one activity's links
  bound,            \* logic_bound in the forward pass, latest in the backward one
  driver,           \* the predecessor that set bound, or None
  es, ef, ls, lf,   \* early and late dates, None until computed
  driving,          \* the predecessor that drives each activity, or None
  overridden,       \* what beat the activity's constraint, or None
  violated,         \* activities whose constraint is reported as not honoured
  projectFinish, deadline, terminal,
  totalFloat, freeFloat

passVars  == <<at, cand, bound, driver>>
earlyVars == <<es, ef, driving, overridden, violated>>
lateVars  == <<ls, lf>>
spanVars  == <<projectFinish, deadline, terminal>>
floatVars == <<totalFloat, freeFloat>>
cpmVars   == <<net, phase, passVars, earlyVars, lateVars, spanVars, floatVars>>
vars      == <<kahnVars, cpmVars>>

RelationType == {"FS", "SS", "FF", "SF"}
FromPredecessorStart  == {"SS", "SF"}
DrivesSuccessorFinish == {"FF", "SF"}

Task(a)  == net.task[a]
Days(a)  == Lattice[Task(a).cal]
Link(k)  == net.links[k]

-----------------------------------------------------------------------------
\* Fault: the two modes are exchanged.
SuppressedByRetained(n, l) ==
  n.mode = "retained_logic" /\ IsStarted(n.task[l.succ]) /\ ~IsComplete(n.task[l.pred])

\* The links the passes see.  Progress override drops a link the field has
\* already contradicted: an incomplete predecessor of a started successor.
Suppressed(n, l) ==
  /\ n.mode = "progress_override"
  /\ IsStarted(n.task[l.succ])
  /\ ~IsComplete(n.task[l.pred])

ActiveEdges(n) ==
  [k \in {k \in DOMAIN n.links : ~Suppressed(n, n.links[k])} |->
     <<n.links[k].pred, n.links[k].succ>>]

\* The lattice a lag between two activities is counted on.
LagDays(pred, succ) ==
  IF net.lagCalendar = "successor" THEN Days(succ)
  ELSE IF net.lagCalendar = "project_default" THEN Lattice[ProjectCalendar]
  ELSE Days(pred)

\* Move a start instant, or a finish boundary, by lag working days.
AdvanceLag(i, lag, space, lat) ==
  IF lag = 0 THEN i
  ELSE IF net.lagCalendar = "twenty_four_hour" THEN i + lag
  ELSE IF space = "finish"
       THEN AddWorkingDays(lat, SnapStartBack(lat, i - 1), lag) + 1
  ELSE AddWorkingDays(lat, SnapStartForward(lat, i), lag)

\* Fault: the backward bound with the lag added instead of taken back.
LagAddedGoingBack(l, succStart, succFinish) ==
  LET toFinish == l.type \in DrivesSuccessorFinish
      b == AdvanceLag(IF toFinish THEN succFinish ELSE succStart, l.lag,
                      IF toFinish THEN "finish" ELSE "start", LagDays(l.pred, l.succ))
  IN  IF l.type \in FromPredecessorStart
      THEN FinishFromStart(Days(l.pred), SnapStartBack(Days(l.pred), b),
                           Duration(Task(l.pred)))
      ELSE b

\* The earliest start link l permits its successor, given the predecessor's dates.
ForwardBound(l, predStart, predFinish) ==
  LET fromStart == l.type \in FromPredecessorStart
      b == AdvanceLag(IF fromStart THEN predStart ELSE predFinish, l.lag,
                      IF fromStart THEN "start" ELSE "finish",
                      LagDays(l.pred, l.succ))
  IN  IF l.type \in DrivesSuccessorFinish
      THEN StartFromFinish(Days(l.succ), SnapFinishForward(Days(l.succ), b),
                           Duration(Task(l.succ)))
      ELSE b

\* The latest finish link l permits its predecessor, given the successor's dates.
BackwardBound(l, succStart, succFinish) ==
  LET toFinish == l.type \in DrivesSuccessorFinish
      b == AdvanceLag(IF toFinish THEN succFinish ELSE succStart, -l.lag,
                      IF toFinish THEN "finish" ELSE "start",
                      LagDays(l.pred, l.succ))
  IN  IF l.type \in FromPredecessorStart
      THEN FinishFromStart(Days(l.pred), SnapStartBack(Days(l.pred), b),
                           Duration(Task(l.pred)))
      ELSE b

\* Fault: a link is taken although earlier ones have not been.
LastLinkFirst(a, c, k) ==
  /\ k \in DOMAIN edges /\ k >= c /\ edges[k][2] = a
  /\ \A j \in DOMAIN edges : j >= c /\ edges[j][2] = a => j <= k

\* k is the next active link into a at or after position c.
IsNextLinkInto(a, c, k) ==
  /\ k \in DOMAIN edges /\ k >= c /\ edges[k][2] = a
  /\ \A j \in DOMAIN edges : j >= c /\ edges[j][2] = a => k <= j

NoLinkInto(a, c)  == \A k \in DOMAIN edges : k >= c => edges[k][2] # a
NoLinkOutOf(a, c) == \A k \in DOMAIN edges : k >= c => edges[k][1] # a

Successors(a) == {k \in DOMAIN edges : edges[k][1] = a}

-----------------------------------------------------------------------------
Activity ==
  [dur : Nat, cal : Calendars, constraint : ConstraintType, cdate : MaybeInt,
   start : MaybeInt, finish : MaybeInt, remaining : MaybeInt, percent : MaybeInt]

\* What the caller may supply, once Task and validate_network have accepted it.
IsNetwork ==
  /\ DOMAIN net = {"task", "links", "mode", "lagCalendar", "mustFinishBy", "dataDate"}
  /\ net.task \in [Node -> Activity]
  /\ \A a \in Node : IsTask(Task(a))
  /\ DOMAIN net.links \subseteq Nat \ {0} /\ IsFiniteSet(DOMAIN net.links)
  /\ net.links \in [DOMAIN net.links ->
                     [pred : Node, succ : Node, type : RelationType, lag : Int]]
  /\ net.mustFinishBy \in MaybeInt /\ net.dataDate \in Int

\* Everything before the first step; the caller supplies nodes and net.
CPMInit ==
  /\ edges = ActiveEdges(net)
  /\ KahnInit
  /\ phase = "validate"
  /\ at = 1 /\ cand = 1 /\ bound = None /\ driver = None
  /\ es = [a \in Node |-> None] /\ ef = es /\ ls = es /\ lf = es
  /\ driving = es /\ overridden = es /\ violated = {}
  /\ projectFinish = None /\ deadline = None /\ terminal = None
  /\ totalFloat = es /\ freeFloat = es

\* validate_network: an activity may not depend on itself, suppressed or not.
Validate ==
  /\ phase = "validate"
  /\ phase' = IF \E k \in DOMAIN net.links : Link(k).pred = Link(k).succ
              THEN "rejected" ELSE "sort"
  /\ UNCHANGED <<kahnVars, net, passVars, earlyVars, lateVars, spanVars, floatVars>>

Sort ==
  /\ phase = "sort"
  /\ KahnNext
  /\ UNCHANGED cpmVars

StartForward ==
  /\ phase = "sort"
  /\ sort = "ordered"
  /\ phase' = "forward"
  /\ UNCHANGED <<kahnVars, net, passVars, earlyVars, lateVars, spanVars, floatVars>>

\* Actuals are history: a finished activity keeps its recorded dates, unsnapped.
KeepActuals ==
  /\ phase = "forward" /\ at <= Len(order)
  /\ LET a == order[at]
     IN  /\ IsComplete(Task(a))
         /\ es' = [es EXCEPT ![a] = Task(a).start]
         /\ ef' = [ef EXCEPT ![a] = Task(a).finish + 1]
  /\ at' = at + 1
  /\ UNCHANGED <<kahnVars, net, phase, cand, bound, driver, driving, overridden,
                 violated, lateVars, spanVars, floatVars>>

\* Fault: the first bound is kept.
FirstBoundWins(b) == bound = None

BeatsBound(b) == bound = None \/ b > bound

\* One predecessor of the activity: the latest bound wins, the first declared on a tie.
ConsiderPredecessor ==
  /\ phase = "forward" /\ at <= Len(order)
  /\ LET a == order[at]
     IN  /\ ~IsComplete(Task(a))
         /\ \E k \in DOMAIN edges :
              /\ IsNextLinkInto(a, cand, k)
              /\ cand' = k + 1
              /\ LET p == edges[k][1]
                     b == ForwardBound(Link(k), es[p], ef[p])
                 IN  IF ef[p] # None /\ BeatsBound(b)
                     THEN bound' = b /\ driver' = p
                     ELSE UNCHANGED <<bound, driver>>
  /\ UNCHANGED <<kahnVars, net, phase, at, earlyVars, lateVars, spanVars, floatVars>>

\* Fault: logic may start work before the data date.
LogicAlone(t) ==
  IF bound # None THEN bound ELSE IF t.start # None THEN t.start ELSE net.dataDate

\* Logic, or an open start at the actual start or the data date; then the
\* data-date floor.
LogicStart(t) ==
  Later(net.dataDate,
        IF bound # None THEN bound
        ELSE IF t.start # None THEN t.start ELSE net.dataDate)

\* Fault: a mandatory constraint beats the data date.
MandatoryBeatsDataDate(lat, t) ==
  LET floor == EarlyFloor(lat, t)
  IN  IF floor = None \/ (IsStarted(t) /\ t.constraint \in FloorsEarlyStart)
      THEN LogicStart(t)
      ELSE IF t.constraint \in Mandatory THEN floor ELSE Later(LogicStart(t), floor)

\* The precedence stack: a mandatory constraint replaces logic but yields to
\* the data date, a soft one only pushes later, and work that has started
\* ignores a constraint on its start.
EarliestStart(lat, t) ==
  LET floor == EarlyFloor(lat, t)
  IN  IF floor = None \/ (IsStarted(t) /\ t.constraint \in FloorsEarlyStart)
      THEN LogicStart(t)
      ELSE IF t.constraint \in Mandatory THEN Later(floor, net.dataDate)
      ELSE Later(LogicStart(t), floor)

OverriddenBy(lat, t) ==
  LET floor == EarlyFloor(lat, t)
  IN  IF floor = None THEN None
      ELSE IF IsStarted(t) /\ t.constraint \in FloorsEarlyStart THEN "actual_dates"
      ELSE IF t.constraint \in Mandatory /\ floor < net.dataDate THEN "data_date"
      ELSE None

\* A predecessor drives only if its bound is what set the start.
DrivenBy(earliest) == IF bound # None /\ earliest = bound THEN driver ELSE None

\* Every predecessor considered: date the activity, snapping last.
PlaceEarly ==
  /\ phase = "forward" /\ at <= Len(order)
  /\ LET a        == order[at]
         t        == Task(a)
         earliest == EarliestStart(Days(a), t)
         start    == SnapStartForward(Days(a), earliest)
         finish   == FinishFromStart(Days(a), start, Duration(t))
         beat     == OverriddenBy(Days(a), t)
     IN  /\ ~IsComplete(t)
         /\ NoLinkInto(a, cand)
         /\ es' = [es EXCEPT ![a] = start]
         /\ ef' = [ef EXCEPT ![a] = finish]
         /\ driving' = [driving EXCEPT ![a] = DrivenBy(earliest)]
         /\ overridden' = [overridden EXCEPT ![a] = beat]
         /\ violated' = IF IsViolated(Days(a), t, start, finish, beat)
                        THEN violated \cup {a} ELSE violated
  /\ at' = at + 1 /\ cand' = 1 /\ bound' = None /\ driver' = None
  /\ UNCHANGED <<kahnVars, net, phase, lateVars, spanVars, floatVars>>

\* The terminal activity: the first in the order that sets the project finish,
\* unfinished work before finished work.
TerminalActivity(f) ==
  LET last == {i \in DOMAIN order : ef[order[i]] = f}
      open == {i \in last : ~IsComplete(Task(order[i]))}
      pool == IF open # {} THEN open ELSE last
  IN  order[CHOOSE i \in pool : IsLeast(pool, i)]

\* Between the passes: the project finish and the deadline late dates run from.
\* must_finish_by means the end of that day.
SetDeadline ==
  /\ phase = "forward" /\ at = Len(order) + 1
  /\ \E f \in {ef[a] : a \in Node} :
       /\ \A a \in Node : ef[a] <= f
       /\ projectFinish' = f
       /\ terminal' = TerminalActivity(f)
       /\ deadline' = IF net.mustFinishBy = None THEN f ELSE net.mustFinishBy + 1
  /\ phase' = "backward"
  /\ at' = Len(order)
  /\ UNCHANGED <<kahnVars, net, cand, bound, driver, earlyVars, lateVars, floatVars>>

KeepActualsLate ==
  /\ phase = "backward" /\ at >= 1
  /\ LET a == order[at]
     IN  /\ IsComplete(Task(a))
         /\ lf' = [lf EXCEPT ![a] = ef[a]]
         /\ ls' = [ls EXCEPT ![a] = es[a]]
  /\ at' = at - 1
  /\ UNCHANGED <<kahnVars, net, phase, cand, bound, driver, earlyVars, spanVars, floatVars>>

ConsiderSuccessor ==
  /\ phase = "backward" /\ at >= 1
  /\ LET a == order[at]
     IN  /\ ~IsComplete(Task(a))
         /\ \E k \in DOMAIN edges :
              /\ IsNextEdge(a, cand, k)
              /\ cand' = k + 1
              /\ LET s == edges[k][2]
                     b == BackwardBound(Link(k), ls[s], lf[s])
                 IN  bound' = IF ls[s] # None /\ (bound = None \/ b < bound)
                              THEN b ELSE bound
  /\ UNCHANGED <<kahnVars, net, phase, at, driver, earlyVars, lateVars, spanVars, floatVars>>

\* Fault: the deadline is only for activities without successors (as it once
\* was).
DeadlineForOpenEnds(lat, t) ==
  LET latest == IF bound = None THEN deadline ELSE bound
      cap    == LateCap(lat, t)
  IN  IF cap = None THEN latest
      ELSE IF t.constraint \in Mandatory THEN cap ELSE Earlier(latest, cap)

\* Never past the deadline; a mandatory constraint replaces even that.
LatestFinish(lat, t) ==
  LET latest == IF bound = None THEN deadline ELSE Earlier(bound, deadline)
      cap    == LateCap(lat, t)
  IN  IF cap = None THEN latest
      ELSE IF t.constraint \in Mandatory THEN cap
      ELSE Earlier(latest, cap)

PlaceLate ==
  /\ phase = "backward" /\ at >= 1
  /\ LET a      == order[at]
         t      == Task(a)
         latest == LatestFinish(Days(a), t)
         finish == IF Duration(t) = 0 THEN latest ELSE SnapFinishBack(Days(a), latest)
     IN  /\ ~IsComplete(t)
         /\ NoLinkOutOf(a, cand)
         /\ lf' = [lf EXCEPT ![a] = finish]
         /\ ls' = [ls EXCEPT ![a] = StartFromFinish(Days(a), finish, Duration(t))]
  /\ at' = at - 1 /\ cand' = 1 /\ bound' = None
  /\ UNCHANGED <<kahnVars, net, phase, driver, earlyVars, spanVars, floatVars>>

-----------------------------------------------------------------------------
IsAlap(a) == Task(a).constraint = "as_late_as_possible"

StartPostPass ==
  /\ phase = "backward" /\ at = 0
  /\ IF \E a \in Node : IsAlap(a)
     THEN phase' = "alap" /\ at' = Len(order)
     ELSE phase' = "float" /\ at' = 1
  /\ UNCHANGED <<kahnVars, net, cand, bound, driver, earlyVars, lateVars, spanVars, floatVars>>

\* Whether the post-pass may move the activity; the fault moves any open work.
AnyOpenWork(a) == ~IsComplete(Task(a))

MaySlide(a) == IsAlap(a) /\ ~IsComplete(Task(a))

\* Fault: the room is the total float.
AlapTotalFloat(a) == {CountWorkingDays(Days(a), es[a], ls[a])}

\* What _apply_alap measures: the working days up to the nearest successor's
\* early start, or up to the project finish.
AlapRooms(a) ==
  IF Successors(a) = {}
  THEN {CountWorkingDays(Days(a), ef[a], projectFinish)}
  ELSE {CountWorkingDays(Days(a), ef[a], es[edges[k][2]]) : k \in Successors(a)}

\* The post-pass over one activity, in reverse topological order.
SlideLate ==
  /\ phase = "alap" /\ at >= 1
  /\ LET a == order[at]
     IN  IF ~MaySlide(a)
         THEN UNCHANGED <<es, ef>>
         ELSE \E room \in AlapRooms(a) :
                /\ \A r \in AlapRooms(a) : room <= r
                /\ IF room <= 0 THEN UNCHANGED <<es, ef>>
                   ELSE LET start == AddWorkingDays(Days(a),
                                       SnapStartForward(Days(a), es[a]), room)
                        IN  /\ es' = [es EXCEPT ![a] = start]
                            /\ ef' = [ef EXCEPT ![a] =
                                        FinishFromStart(Days(a), start, Task(a).dur)]
  /\ at' = at - 1
  /\ UNCHANGED <<kahnVars, net, phase, cand, bound, driver, driving, overridden,
                 violated, lateVars, spanVars, floatVars>>

StartFloat ==
  /\ phase = "alap" /\ at = 0
  /\ phase' = "float" /\ at' = 1
  /\ UNCHANGED <<kahnVars, net, cand, bound, driver, earlyVars, lateVars, spanVars, floatVars>>

\* Fault: free float measured to the successors' late starts.
SlackToLateStart(a) ==
  IF Successors(a) = {}
  THEN {CountWorkingDays(Days(a), ef[a], deadline)}
  ELSE {CountWorkingDays(Days(a),
          SnapStartForward(Days(a), ForwardBound(Link(k), es[a], ef[a])),
          ls[edges[k][2]]) : k \in Successors(a)}

\* How far each successor's early start lies beyond the bound a imposes on it;
\* an activity without successors has the room to the deadline.
Slacks(a) ==
  IF Successors(a) = {}
  THEN {CountWorkingDays(Days(a), ef[a], deadline)}
  ELSE {CountWorkingDays(Days(a),
          SnapStartForward(Days(a), ForwardBound(Link(k), es[a], ef[a])),
          es[edges[k][2]]) : k \in Successors(a)}

\* Finished work has no float, rather than zero float.
MeasureFloat ==
  /\ phase = "float" /\ at <= Len(nodes)
  /\ LET a == nodes[at]
     IN  IF IsComplete(Task(a)) THEN UNCHANGED floatVars
         ELSE /\ totalFloat' = [totalFloat EXCEPT ![a] =
                                  CountWorkingDays(Days(a), es[a], ls[a])]
              /\ \E slack \in Slacks(a) :
                   /\ \A s \in Slacks(a) : slack <= s
                   /\ freeFloat' = [freeFloat EXCEPT ![a] = slack]
  /\ at' = at + 1
  /\ UNCHANGED <<kahnVars, net, phase, cand, bound, driver, earlyVars, lateVars, spanVars>>

Return ==
  /\ phase = "float" /\ at = Len(nodes) + 1
  /\ phase' = "done"
  /\ UNCHANGED <<kahnVars, net, passVars, earlyVars, lateVars, spanVars, floatVars>>

Forward  == KeepActuals \/ ConsiderPredecessor \/ PlaceEarly
Backward == KeepActualsLate \/ ConsiderSuccessor \/ PlaceLate
PostPass == SlideLate \/ StartFloat \/ MeasureFloat \/ Return

CPMNext ==
  \/ Validate \/ Sort \/ StartForward
  \/ Forward \/ SetDeadline \/ Backward \/ StartPostPass \/ PostPass

CPMSpec == IsGraph /\ IsNetwork /\ CPMInit /\ [][CPMNext]_vars

-----------------------------------------------------------------------------
\* The result: what NetworkResult derives from the dates.

IsCritical(a) == totalFloat[a] # None /\ totalFloat[a] <= 0

\* The driving chain walked back from the terminal activity, as a set of
\* activities; the walk stops at an activity it has met.
LongestPath ==
  LET chain[n \in 0..Cardinality(Node)] ==
        IF n = 0 THEN {terminal}
        ELSE LET met == chain[n - 1]
             IN  met \cup ({driving[a] : a \in met} \ {None})
  IN  chain[Cardinality(Node)]
=============================================================================
