------------------------ MODULE LevellingProperties ------------------------
(***************************************************************************)
(* What levelling promises about the dates it proposes.                    *)
(***************************************************************************)
EXTENDS Levelling

Levelled == {a \in Candidates : IsPlaced(a)}

LogicSurvives ==
  \A a \in Levelled :
    /\ span[a][1] >= Shown(a)[1]
    /\ \A k \in DOMAIN net.links :
         Link(k).succ = a => IsPlaced(Link(k).pred) /\ LevelledBound(k) <= inst[a][1]

\* Levelling passes over a milestone, and checks each demand of an activity that
\* asks twice for one resource alone.
Unchecked(a) ==
  \/ Task(a).dur = 0
  \/ \E i, j \in Rows(a) : i # j /\ pool.demands[i].res = pool.demands[j].res

\* Levelled work overbooks nothing: on any overbooked day the resource is asked
\* for by work the leveller may not move or could not fit, whatever the order
\* of placement, the calendars and the exceptions of the resource.
NothingOverbooked ==
  stage = "levelled" =>
    \A rd \in OverAllocations(span) :
      \E a \in Node : /\ a \in unfit \/ Pinned(a) \/ Unchecked(a)
                      /\ \E i \in Rows(a) : pool.demands[i].res = rd[1]
                      /\ rd[2] \in DaysWorked(a, span[a])

\* Schedules that have the float they report: no work is late already, none is
\* held by a constraint, and everything still to place takes time.
NothingLate ==
  /\ \A a \in Node : totalFloat[a] # None => totalFloat[a] >= 0
  /\ \A a \in Candidates : Task(a).dur > 0 /\ Task(a).constraint = "none"

FinishSurvives ==
  \/ pool.horizon # "within_float" \/ ~NothingLate
  \/ /\ \A a \in Levelled : inst[a][1] <= ls[a] /\ inst[a][2] <= lf[a]
     /\ stage = "levelled" => FinishAfter = ShownProjectFinish

\* Every move says what held the work up -- a resource that was taken, or a
\* predecessor that was itself moved -- and what is left of the float that was
\* frozen before any move.
MovesAreExplained ==
  NothingLate =>
    \A a \in Node :
      moves[a] # None =>
        /\ moves[a].by # {} /\ moves[a].shifted > 0
        /\ moves[a].left < totalFloat[a]
        /\ \A p \in moves[a].by \cap Node : moves[p] # None

\* Work is moved only between its logic and its float, and for a reason: a
\* levelled activity starts no earlier than its predecessors, where they now
\* stand, allow (levelling.py:278-285), nor than the calculation showed; under
\* the horizon that keeps the finish it ends by its late finish, so the project
\* finish stays however many activities were delayed (levelling.py:353-355); and
\* what is said to hold it up is a resource or work that moved too.
MovedWithinBounds ==
  stage # "waiting" => LogicSurvives /\ FinishSurvives /\ MovesAreExplained

\* Work that ends by the instant m stands on, on a day m's calendar works; or
\* another finish milestone on that calendar.
EndsWith(b, m) ==
  /\ ef[b] <= ef[m]
  /\ IF es[b] # ef[b] THEN ef[b] - 1 \in Days(m)
     ELSE kind[b] = "finish_milestone" /\ Task(b).cal = Task(m).cal

\* A finish milestone shows on the last day of the work that drives it, not on
\* the day after, and where nothing else ends later the project finish is that
\* day too (schedule.py:149-171).  Not so if the post-pass may move it away from
\* that work, or the work ended on a day that its calendar does not work.
MilestoneClosesWork ==
  phase = "done" =>
    \A m \in Node :
      LET p == driving[m]
      IN  (/\ kind[m] = "finish_milestone" /\ es[m] = ef[m] /\ p # None /\ ~IsAlap(m)
           /\ Task(m).cal = Task(p).cal /\ es[p] # ef[p] /\ ef[p] - 1 \in Days(p)
           /\ \A k \in DOMAIN edges : edges[k][2] = m => Link(k).type = "FS" /\ Link(k).lag = 0)
          => /\ Shown(m) = <<Shown(p)[2], Shown(p)[2]>>
             /\ (\A b \in Node : EndsWith(b, m)) => ShownProjectFinish = Shown(p)[2]

\* The finish stays for every activity, as the horizon's name promises
\* (levelling.py:55, "Never move the project finish").
FinishNeverMoves ==
  stage = "levelled" =>
    pool.horizon # "within_float" \/ FinishAfter <= ShownProjectFinish
=============================================================================
