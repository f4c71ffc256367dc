-------------------------- MODULE HealthProperties --------------------------
(***************************************************************************)
(* What a passing check is worth.                                          *)
(***************************************************************************)
EXTENDS Health, Measures

\* Activities reached from a along the links, with it.
Onward(a) ==
  LET reach[n \in 0..Cardinality(Node)] ==
        IF n = 0 THEN {a}
        ELSE reach[n - 1] \cup {Link(k).succ : k \in UNION {LinksOutOf(b) : b \in reach[n - 1]}}
  IN  reach[Cardinality(Node)]

\* Plans so small that one activity is more than five in a hundred.
Small == ~AtMostFive(1, Cardinality(Node))

\* Links that progress suppresses are checked though nothing sorts them: two
\* activities in progress may each follow the other, and nothing else.
LogicIsWhole ==
  Small /\ LogicCheck.status = "pass" /\ DOMAIN edges = DOMAIN net.links =>
    \E first, last \in Node : Onward(first) = Node /\ \A a \in Node : last \in Onward(a)

DateIsKept ==
  LET t == Task(terminal)
  IN  /\ IsOptimisable(Checked([baseline |-> [a \in {} |-> 0], resourced |-> None], Skipped))
      /\ ~IsComplete(t) /\ t.constraint \notin Mandatory
      => CountWorkingDays(Days(terminal), deadline, projectFinish) <= 0

\* A lag in working days of the calendar its work keeps.
IsCountedInWork(k) ==
  /\ net.lagCalendar # "twenty_four_hour"
  /\ LagDays(Link(k).pred, Link(k).succ) = Days(Link(k).pred)

\* What takes up a delay on the driving path of a plan on one calendar.
Absorbs ==
  \/ IsStarted(Task(probe.of))
  \/ \E a \in probe.path : Task(a).constraint \in Mandatory \cup FloorsEarlyFinish
  \/ \E k \in DOMAIN net.links :
       \/ Link(k).type # "FS"
       \/ Link(k).lag # 0 /\ ~IsCountedInWork(k)

PathGoverns ==
  IsAssessed /\ probe # None /\ OneCalendarInUse /\ checks[12].status = "fail" => Absorbs

\* The same baseline as the progress report sees it.
Against(r) ==
  Standings(Lattice, net.task,
            [a \in DOMAIN r.baseline |-> <<None, r.baseline[a]>>], [a \in {} |-> 0])

BaselinesAgree ==
  checks # None /\ DOMAIN review.baseline \subseteq Node =>
    LET rows  == Against(review)
        index == ExecutionIndex(rows, net.dataDate)
    IN  /\ \A a \in checks[11].of : IsBehind(rows[a], net.dataDate)
        /\ checks[14].status = "skipped" <=> index = None
        /\ index # None => (checks[14].status = "pass" <=> AtLeast(95, index[1], index[2]))

\* A check that passes is worth something: logic that passes, all of it sorted,
\* joins every activity to one start and one finish; a schedule fit to optimise
\* ends by the date it was given; a driving path that does not carry a delay to
\* the finish has something on it that takes the delay up; and the two checks
\* against a baseline say no more than the progress report does
\* (health.py:203-531, progress.py:48-105).
HealthIsHonest ==
  /\ phase = "done" /\ checks = None => LogicIsWhole /\ DateIsKept
  /\ PathGoverns /\ BaselinesAgree

\* "A sound network moves the project finish with it" (health.py:544): a plan
\* whose checks of logic and float pass, nothing but finish-to-start links on
\* one calendar, whatever has been progressed.
SoundNetworkPasses ==
  /\ IsAssessed /\ probe # None /\ OneCalendarInUse
  /\ IsOptimisable(checks)
  /\ \A a \in Node : Task(a).constraint = "none"
  /\ \A k \in DOMAIN net.links : Link(k).type = "FS" /\ Link(k).lag = 0
  => checks[12].status = "pass"
=============================================================================
