--------------------------- MODULE CPMProperties ---------------------------
(***************************************************************************)
(* What the critical-path calculation promises about the dates and floats  *)
(* it returns.  Rerun is a second, declarative formulation of the forward  *)
(* pass; the floats are judged by spending them and scheduling again.      *)
(***************************************************************************)
EXTENDS CPM

\* Types, and the network is one the caller may supply; every date computed for
\* work still to do is on its calendar, so no arithmetic left the bound window.
CPMTypeOK ==
  /\ KahnTypeOK
  /\ phase \in {"validate", "rejected", "sort", "forward", "backward", "alap",
                "float", "done"}
  /\ at \in 0..(Len(nodes) + 1) /\ cand \in Nat /\ bound \in MaybeInt
  /\ driver \in Node \cup {None}
  /\ \A d \in {es, ef, ls, lf, totalFloat, freeFloat} : d \in [Node -> MaybeInt]
  /\ driving \in [Node -> Node \cup {None}]
  /\ violated \subseteq Node
  /\ \A a \in Node : es[a] # None /\ Task(a).finish = None => es[a] \in Days(a)
  /\ \A a \in Node : ls[a] # None /\ Task(a).finish = None /\ Duration(Task(a)) > 0
                       => ls[a] \in Days(a)
  /\ phase = "validate" => IsGraph /\ IsNetwork

\* The sort, and the walk that names a loop when the sort is left with one,
\* always come to an answer.
SortTerminates == phase = "sort" ~> sort \in {"ordered", "named"}

-----------------------------------------------------------------------------
\* Early dates.

\* The bound an active link puts on the early start of its successor.
LinkBound(k) == ForwardBound(Link(k), es[edges[k][1]], ef[edges[k][1]])

\* Retained logic: as soon as an activity is dated it respects every active
\* link into it, unless its dates are history or a mandatory constraint
\* replaced the logic.  (Until the post-pass moves an activity.)
LinksHonoured ==
  phase \in {"forward", "backward"} =>
    \A k \in DOMAIN edges :
      LET s == edges[k][2]
      IN  ef[s] # None /\ ~IsComplete(Task(s)) /\ Task(s).constraint \notin Mandatory
          => ef[edges[k][1]] # None /\ LinkBound(k) <= es[s]

\* You cannot work yesterday: no remaining work starts before the data date,
\* not even under a mandatory constraint or after the post-pass.
DataDateFloor ==
  \A a \in Node : es[a] # None /\ ~IsComplete(Task(a)) => es[a] >= net.dataDate

\* Nothing moves an actual: an activity with an actual finish keeps both its
\* recorded dates through every pass, whatever links and remaining days it has.
HistoryKept ==
  \A a \in Node :
    es[a] # None /\ Task(a).finish # None =>
      es[a] = Task(a).start /\ ef[a] = Task(a).finish + 1

\* A start is never later than something asks for: it is the snap of the data
\* date, of the actual start, of the constraint, or of the bound of the link
\* credited with driving it.
StartIsExplained ==
  phase \in {"forward", "backward"} =>
    \A a \in Node :
      es[a] # None /\ ~IsComplete(Task(a)) =>
        LET Snap(i) == SnapStartForward(Days(a), i)
            floor   == EarlyFloor(Days(a), Task(a))
        IN  IF driving[a] # None
            THEN \E k \in DOMAIN edges :
                   edges[k] = <<driving[a], a>> /\ es[a] = Snap(LinkBound(k))
            ELSE es[a] \in {Snap(i) : i \in {net.dataDate, Task(a).start, floor} \ {None}}

\* The two together: an early start is the least one the links, the data date
\* and the constraint ask for, and the driver named is the one that asked.
StartIsLeast == LinksHonoured /\ StartIsExplained

\* What the field reported outranks the plan in every pass: actuals stand, and
\* what is left is planned from the data date on.
FieldOutranksPlan == DataDateFloor /\ HistoryKept

-----------------------------------------------------------------------------
\* A second formulation of the forward pass: the early dates of every
\* activity, given an extra start floor for each (START_ON_OR_AFTER).
Greatest(S) == CHOOSE x \in S : IsGreatest(S, x)

\* What asks for the start of an activity, given the bounds its links put on it.
AskedFor(a, bounds) ==
  LET t     == Task(a)
      floor == IF IsStarted(t) /\ t.constraint \in FloorsEarlyStart
               THEN None ELSE EarlyFloor(Days(a), t)
  IN  IF t.constraint \in Mandatory /\ floor # None
      THEN {floor, net.dataDate}
      ELSE bounds \cup {net.dataDate} \cup ({floor} \ {None})
             \cup (IF bounds = {} THEN {t.start} \ {None} ELSE {})

\* The latest of it is granted; finished work has happened when it happened.
Granted(a, bounds, s) ==
  LET t     == Task(a)
      start == SnapStartForward(Days(a), Greatest(AskedFor(a, bounds) \cup {s}))
  IN  IF IsComplete(t) THEN [s |-> t.start, f |-> t.finish + 1]
      ELSE [s |-> start, f |-> FinishFromStart(Days(a), start, Duration(t))]

\* The bounds the links E put on a, where the dates are d.
BoundsInto(E, a, d) ==
  {ForwardBound(Link(k), d[E[k][1]].s, d[E[k][1]].f) : k \in {k \in DOMAIN E : E[k][2] = a}}

RerunOver(E, delay) ==
  LET pass[i \in 0..Len(order)] ==
        IF i = 0 THEN [a \in Node |-> [s |-> 0, f |-> 0]]
        ELSE LET before == pass[i - 1]
                 a      == order[i]
             IN  [before EXCEPT ![a] = Granted(a, BoundsInto(E, a, before), delay[a])]
  IN  pass[Len(order)]

Rerun(delay) == RerunOver(edges, delay)

NoDelay == [a \in Node |-> net.dataDate]

Delayed(a, days) ==
  [NoDelay EXCEPT ![a] = AddWorkingDays(Days(a), es[a], days)]

FinishOf(dates) == Greatest({dates[a].f : a \in Node})

\* The loop over the predecessors, with its running maximum, its ties and the
\* precedence stack after it, computes the longest path: the early dates are
\* those of the second formulation.
ForwardPassIsLongestPath ==
  phase = "backward" /\ at = Len(order) /\ cand = 1 =>
    \A a \in Node : Rerun(NoDelay)[a] = [s |-> es[a], f |-> ef[a]]

-----------------------------------------------------------------------------
\* Late dates and floats.

Open(a) == Task(a).finish = None

\* No activity may finish after the project finishes, or after the contract
\* date when there is one (cpm.py:511-525), open ends and others alike.
LateFinishCapped ==
  \A a \in Node : lf[a] # None /\ Open(a) /\ Task(a).constraint \notin Mandatory
    => lf[a] <= deadline

\* The networks whose floats the next properties judge: real work, not started,
\* without constraints or a contract date, and no link whose lag the two passes
\* count differently.
Plain ==
  /\ net.mustFinishBy = None
  /\ \A a \in Node : /\ Task(a).constraint = "none" /\ Task(a).start = None
                     /\ Task(a).dur > 0
  /\ \A k \in DOMAIN edges :
       /\ Link(k).type # "SF"
       /\ Link(k).type = "FF" =>
            \/ Link(k).lag = 0 \/ net.lagCalendar = "twenty_four_hour"
            \/ LagDays(edges[k][1], edges[k][2]) = Days(edges[k][1])

\* Lags are counted on a calendar that the work at both their ends keeps.
LagsStayOnOneCalendar ==
  \A k \in DOMAIN edges :
    Link(k).lag # 0 =>
      /\ Task(edges[k][1]).cal = Task(edges[k][2]).cal
      /\ net.lagCalendar \in {"predecessor", "successor"}

OneCalendar == LagsStayOnOneCalendar /\ \A a, b \in Node : Task(a).cal = Task(b).cal

\* Nothing is late before it starts: the backward pass undoes the forward one
\* exactly enough, across calendars and the calendars lags are counted on.
NoUnexplainedNegativeFloat ==
  phase = "done" /\ Plain => \A a \in Node : totalFloat[a] >= 0

\* Spending exactly the reported total float does not move the project finish
\* (what tests/test_cpm.py:727 asks of one network), also across calendars.
TotalFloatCanBeSpent ==
  phase = "done" /\ Plain /\ LagsStayOnOneCalendar =>
    \A a \in Node : totalFloat[a] >= 0 =>
      FinishOf(Rerun(Delayed(a, totalFloat[a]))) <= projectFinish

\* One day past the reported total float does move it.
TotalFloatIsAll ==
  phase = "done" /\ Plain /\ OneCalendar =>
    \A a \in Node : FinishOf(Rerun(Delayed(a, totalFloat[a] + 1))) > projectFinish

\* An activity that slips by its free float moves no other activity's dates.
FreeFloatCanBeSpent ==
  phase = "done" /\ Plain /\ OneCalendar =>
    \A a \in Node : Successors(a) # {} /\ freeFloat[a] >= 0 =>
      \A b \in Node \ {a} :
        Rerun(Delayed(a, freeFloat[a]))[b] = [s |-> es[b], f |-> ef[b]]

\* The chain presented as setting the finish has no float to give.
LongestPathIsCritical ==
  phase = "done" /\ Plain /\ OneCalendar => \A a \in LongestPath : IsCritical(a)

\* All four together: the reported total float is exactly what an activity can
\* slip before the project does, never less than nothing, and none of it is on
\* the chain that sets the finish (cpm.py:489-606).
TotalFloatIsExact ==
  /\ NoUnexplainedNegativeFloat /\ TotalFloatCanBeSpent /\ TotalFloatIsAll
  /\ LongestPathIsCritical

-----------------------------------------------------------------------------
\* Constraints.

\* The table of constraints.py:91-98: a cap that the early dates pass shows as
\* negative float, whichever pass it was that missed it.
MissedCapIsNegativeFloat ==
  phase = "done" =>
    \A a \in Node :
      LET t == Task(a)
      IN  (/\ Open(a) /\ Duration(t) > 0 /\ HasConstraint(t)
           /\ \/ t.constraint \in CapsLateStart /\ es[a] > t.cdate
              \/ t.constraint \in CapsLateFinish /\ ef[a] > t.cdate)
          => totalFloat[a] < 0

-----------------------------------------------------------------------------
\* As late as possible.

\* The post-pass moves no finish past the project finish, the one thing ALAP
\* is defined never to do (cpm.py:631).
AlapHoldsFinish ==
  phase \in {"alap", "float", "done"} => \A a \in Node : ef[a] <= projectFinish

\* The post-pass redraws an activity with the days it was drawn with.  It does
\* not do so for work in progress: cpm.py:650 takes its original duration.
RedrawnAlike(a) == MaySlide(a) => Duration(Task(a)) = Task(a).dur

\* The room up to instant i is counted on a's own calendar.  A milestone counted
\* up to a day its calendar does not work lands on the next day it does work.
RoomIsWhole(a, i) == MaySlide(a) /\ Task(a).dur = 0 => i \in Days(a)

\* Sliding an activity breaks no plain finish-to-start link out of it.
AlapKeepsPlainLinks ==
  phase \in {"alap", "float", "done"} =>
    \A k \in DOMAIN edges :
      LET p == edges[k][1]
          s == edges[k][2]
      IN  (/\ Link(k).type = "FS" /\ Link(k).lag = 0
           /\ Open(s) /\ Task(s).constraint \notin Mandatory
           /\ RedrawnAlike(p) /\ RoomIsWhole(p, es[s]))
          => ef[p] <= es[s]

\* The post-pass only moves work later, and only work asked to be late: never its
\* start earlier, nor its finish when it is redrawn with the days it was drawn with.
AlapOnlyLater ==
  [][phase = "alap" =>
       \A a \in Node : es'[a] # es[a] \/ ef'[a] # ef[a] =>
         /\ Task(a).constraint = "as_late_as_possible" /\ Open(a)
         /\ es'[a] >= es[a]
         /\ RedrawnAlike(a) => es'[a] > es[a] /\ ef'[a] > ef[a]]_vars

-----------------------------------------------------------------------------
\* Progress.

\* Progress override, which drops links the field has contradicted, never
\* dates an activity later than retained logic does.
OverrideEdges ==
  ActiveEdges([task |-> net.task, links |-> net.links, mode |-> "progress_override"])

OverrideNeverLater ==
  phase = "backward" /\ at = Len(order) /\ cand = 1 /\ net.mode = "retained_logic" =>
    LET dropped == RerunOver(OverrideEdges, NoDelay)
    IN  \A a \in Node : dropped[a].s <= es[a] /\ dropped[a].f <= ef[a]

-----------------------------------------------------------------------------
\* The inductive invariant behind LinksHonoured, StartIsExplained, DataDateFloor,
\* HistoryKept and LateFinishCapped.

Passes == {"forward", "backward", "alap", "float", "done"}

\* The sort works on the active links of a legal network that never changes.
NetworkFixed == IsNetwork /\ edges = ActiveEdges(net)

DatesTyped ==
  /\ phase \in {"validate", "rejected", "sort"} \cup Passes
  /\ at \in Nat /\ cand \in Nat
  /\ bound \in MaybeInt /\ driver \in Node \cup {None}
  /\ es \in [Node -> MaybeInt] /\ ef \in [Node -> MaybeInt]
  /\ ls \in [Node -> MaybeInt] /\ lf \in [Node -> MaybeInt]
  /\ driving \in [Node -> Node \cup {None}]
  /\ \A a \in Node : (es[a] = None <=> ef[a] = None) /\ (ls[a] = None <=> lf[a] = None)

\* What each phase may rely on.
PhaseOrder ==
  /\ phase \in Passes => sort = "ordered"
  /\ phase \notin Passes =>
       /\ at = 1 /\ cand = 1 /\ bound = None /\ driver = None
       /\ \A a \in Node : ef[a] = None
  /\ phase \notin Passes \ {"forward"} => \A a \in Node : lf[a] = None
  /\ phase \in Passes \ {"forward"} =>
       /\ projectFinish \in Int /\ deadline \in Int
       /\ \A a \in Node : ef[a] # None
  /\ phase \in {"backward", "alap"} => at <= Len(order)

\* The forward pass has dated the activities before position `at`, and no other.
DatedPrefix ==
  phase = "forward" =>
    /\ at \in 1..(Len(order) + 1)
    /\ \A j \in DOMAIN order : ef[order[j]] # None <=> j < at

Structure == KahnInv /\ NetworkFixed /\ DatesTyped /\ PhaseOrder /\ DatedPrefix

\* The inner loop over the predecessors of order[at]: bound is the greatest
\* bound met so far, and driver a predecessor that set it.
LinksConsidered ==
  phase = "forward" =>
    /\ (bound # None \/ cand # 1) => at <= Len(order) /\ ~IsComplete(Task(order[at]))
    /\ at <= Len(order) =>
         \A k \in DOMAIN edges :
           edges[k][2] = order[at] /\ k < cand => bound # None /\ LinkBound(k) <= bound
    /\ bound # None =>
         \E k \in DOMAIN edges : edges[k] = <<driver, order[at]>> /\ bound = LinkBound(k)

CPMInv == Structure /\ LinksConsidered
=============================================================================
