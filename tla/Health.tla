------------------------------- MODULE Health -------------------------------
(***************************************************************************)
(* The fourteen checks of a computed schedule (massingplan/core/health.py) *)
(* as asked for by api/schedules.py and services/projects.py.              *)
(*                                                                         *)
(* Thirteen of them read the dates.  The critical path test runs the       *)
(* calculation again with a delay put into the first open activity of the  *)
(* driving path, and compares.                                             *)
(*                                                                         *)
(* review is what the caller brings:                                       *)
(*   baseline   [id -> baseline finish], empty when there is none; it may  *)
(*              name work since dropped                                    *)
(*   resourced  the activities with a resource, None when not supplied     *)
(***************************************************************************)
EXTENDS Schedule

CONSTANTS
  Reviews,         \* what callers bring
  HighFloat,       \* the days of float above which logic is thought missing (44)
  LongDuration,    \* the days above which work cannot be progressed (44)
  ProbeDays        \* the delay the critical path test injects (600)

ASSUME ProbeAssumption == {HighFloat, LongDuration, ProbeDays} \subseteq Nat \ {0}

ASSUME ReviewAssumption == \A r \in Reviews : r.baseline \in [DOMAIN r.baseline -> Int]

VARIABLES
  review,
  checks,          \* check -> its result, None before the assessment
  probe            \* the test under way: what it delays and the dates before, or None

healthVars == <<review, checks, probe>>

Passed(ok, offenders) == [status |-> IF ok THEN "pass" ELSE "fail", of |-> offenders]
Skipped == [status |-> "skipped", of |-> {}]

\* At most five, at least ninety or ninety-five in a hundred; nothing of nothing is none.
AtMostFive(few, all)        == 100 * few <= 5 * all
AtLeast(percent, many, all) == 100 * many >= percent * all

-----------------------------------------------------------------------------
LinksInto(a)  == {k \in DOMAIN net.links : Link(k).succ = a}
LinksOutOf(a) == {k \in DOMAIN net.links : Link(k).pred = a}
OpenStarts    == {a \in Node : LinksInto(a) = {}}
OpenFinishes  == {a \in Node : LinksOutOf(a) = {}}

ComesBefore(when, a, b) == when[a] < when[b] \/ (when[a] = when[b] /\ Position(a) <= Position(b))

\* Fault: everything that opens or closes the plan is excused.
TiesExcused ==
  {a \in OpenStarts : \A b \in OpenStarts : es[a] <= es[b]}
  \cup {a \in OpenFinishes : \A b \in OpenFinishes : ef[b] <= ef[a]}

\* One activity may open the plan and one may close it.
Excused ==
  {a \in OpenStarts : \A b \in OpenStarts : ComesBefore(es, a, b)}
  \cup {a \in OpenFinishes : \A b \in OpenFinishes : ComesBefore(ef, b, a)}

Dangling == ((OpenStarts \cup OpenFinishes) \ Excused) \cup (OpenStarts \cap OpenFinishes)

\* Constraints that pin a date rather than bound one.
IsHard(t) ==
  t.constraint \in Mandatory \cup (FloorsEarlyStart \cap CapsLateStart)
                             \cup (FloorsEarlyFinish \cap CapsLateFinish)

Working     == {a \in Node : Task(a).dur > 0}
Complete    == {a \in Node : IsComplete(Task(a))}
FloatAbove(n) == {a \in Node : totalFloat[a] # None /\ totalFloat[a] > n}
FloatBelow(n) == {a \in Node : totalFloat[a] # None /\ totalFloat[a] < n}

FewActivities(who) == Passed(AtMostFive(Cardinality(who), Cardinality(Node)), who)
NoActivity(who)    == Passed(who = {}, who)

LogicCheck      == FewActivities(Dangling)
LeadsCheck      == NoActivity({k \in DOMAIN net.links : Link(k).lag < 0})
LagsCheck       == LET lags == {k \in DOMAIN net.links : Link(k).lag > 0}
                   IN  Passed(AtMostFive(Cardinality(lags), Cardinality(DOMAIN net.links)), lags)
TypesCheck      == LET plain == {k \in DOMAIN net.links : Link(k).type = "FS"}
                   IN  Passed(AtLeast(90, Cardinality(plain), Cardinality(DOMAIN net.links)),
                              DOMAIN net.links \ plain)
ConstraintCheck == FewActivities({a \in Node : IsHard(Task(a))})
FloatCheck      == FewActivities(FloatAbove(HighFloat))
NegativeCheck   == NoActivity(FloatBelow(0))
DurationCheck   == FewActivities({a \in Node : Task(a).dur > LongDuration})

\* Actuals lie in the past.
DatesCheck ==
  IF Complete = {} THEN Skipped
  ELSE NoActivity({a \in Complete : Task(a).finish > net.dataDate})

ResourceCheck(r) ==
  IF r.resourced = None THEN Skipped ELSE NoActivity(Working \ r.resourced)

\* Finished work that finished after its baseline.
MissedCheck(r) ==
  LET missed == {a \in Complete \cap DOMAIN r.baseline : Task(a).finish > r.baseline[a]}
  IN  IF DOMAIN r.baseline = {} \/ Complete = {} THEN Skipped
      ELSE Passed(AtMostFive(Cardinality(missed), Cardinality(Complete)), missed)

\* The length of the path against the float at its end; finished work has none.
LengthCheck ==
  LET length == CountWorkingDays(Lattice[ProjectCalendar], Min({es[a] : a \in Node}), projectFinish)
      slack  == IF totalFloat[terminal] = None THEN 0 ELSE totalFloat[terminal]
  IN  IF length <= 0 THEN Skipped ELSE Passed(AtLeast(95, length + slack, length), {})

\* What was completed out of what was due; nothing due is no index.
ExecutionCheck(r) ==
  LET due == {a \in DOMAIN r.baseline : r.baseline[a] <= net.dataDate}
  IN  IF due = {} THEN Skipped
      ELSE Passed(AtLeast(95, Cardinality(due \cap Complete), Cardinality(due)), due \ Complete)

Checked(r, criticalPath) ==
  <<LogicCheck, LeadsCheck, LagsCheck, TypesCheck, ConstraintCheck, FloatCheck, NegativeCheck,
    DurationCheck, DatesCheck, ResourceCheck(r), MissedCheck(r), criticalPath, LengthCheck,
    ExecutionCheck(r)>>

\* Whether the logic is sound enough to optimise against.
IsOptimisable(results) == \A n \in {1, 7, 13} : results[n].status # "fail"

-----------------------------------------------------------------------------
\* The critical path test.

\* The nth activity back along the driving path from the one that ends it.
DrivenThrough ==
  LET back[n \in 0..Cardinality(Node)] ==
        IF n = 0 THEN terminal
        ELSE IF back[n - 1] = None THEN None ELSE driving[back[n - 1]]
  IN  back

\* What is delayed: the first on the path that is not finished and takes time,
\* finished work being history.
ProbePoint ==
  LET open == {n \in DOMAIN DrivenThrough :
                 LET a == DrivenThrough[n]
                 IN  a # None /\ ~IsComplete(Task(a)) /\ Task(a).dur > 0}
  IN  IF open = {} THEN None ELSE DrivenThrough[Max(open)]

\* The calculation starts again, on the network delayed.
Recalculate(network) ==
  /\ net' = network
  /\ inDegree' = [a \in Node |-> Cardinality(EdgesInto(a))]
  /\ seeded' = 0 /\ ready' = <<>> /\ order' = <<>> /\ cursor' = 1
  /\ sort' = "seed" /\ path' = <<>>
  /\ phase' = "validate"
  /\ at' = 1 /\ cand' = 1 /\ bound' = None /\ driver' = None
  /\ LET blank == [a \in Node |-> None]
     IN  /\ es' = blank /\ ef' = blank /\ ls' = blank /\ lf' = blank
         /\ driving' = blank /\ overridden' = blank
         /\ totalFloat' = blank /\ freeFloat' = blank
  /\ violated' = {} /\ projectFinish' = None /\ deadline' = None /\ terminal' = None
  /\ UNCHANGED <<nodes, edges>>

\* Every check that reads the dates; then the probe is sent, if there is one.
Assess(r) ==
  /\ phase = "done" /\ checks = None
  /\ review' = r
  /\ checks' = Checked(r, Skipped)
  /\ LET a == ProbePoint
     IN  IF a = None THEN probe' = None /\ UNCHANGED vars
         ELSE /\ probe' = [of |-> a, finish |-> projectFinish, own |-> ef[a], path |-> LongestPath]
              /\ Recalculate([net EXCEPT !.task[a].dur = @ + ProbeDays])

OneCalendarInUse == \A a, b \in Node : Task(a).cal = Task(b).cal

\* Under one calendar the finish moves by the delay; under several, by what the
\* delayed activity's own finish moved, and it still drives.
ProbePasses ==
  IF OneCalendarInUse
  THEN CountWorkingDays(Days(probe.of), probe.finish, projectFinish) = ProbeDays
  ELSE /\ projectFinish - probe.finish = ef[probe.of] - probe.own
       /\ probe.of \in LongestPath

AnswerProbe ==
  /\ phase = "done" /\ checks # None
  /\ probe # None /\ checks[12] = Skipped
  /\ checks' = [checks EXCEPT ![12] = Passed(ProbePasses, IF ProbePasses THEN {} ELSE {probe.of})]
  /\ UNCHANGED <<review, probe, vars>>

IsAssessed == checks # None /\ (probe # None => checks[12] # Skipped)

HealthInit == review = None /\ checks = None /\ probe = None

HealthNext == ((\E r \in Reviews : Assess(r)) \/ AnswerProbe) /\ UNCHANGED kind

\* A schedule is calculated and assessed; the probe has it calculated again.
AssessingNext ==
  \/ CPMNext /\ UNCHANGED <<kind, healthVars>>
  \/ HealthNext

HealthSpec ==
  /\ IsGraph /\ IsNetwork /\ CPMInit /\ HealthInit
  /\ [][AssessingNext]_<<vars, kind, healthVars>>
=============================================================================
