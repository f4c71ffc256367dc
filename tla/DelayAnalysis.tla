---------------------------- MODULE DelayAnalysis ----------------------------
(***************************************************************************)
(* Delay analysis: the observed one, window by window over the updates of  *)
(* a project (massingplan/core/windows.py), and the two modelled ones,     *)
(* which insert delays into the plan or take them out of what was built    *)
(* (massingplan/core/modelled.py).                                         *)
(*                                                                         *)
(* An update is [date, out]; a delay event is [id, dur, impacts, onset],   *)
(* onset 0 when it is not known.                                           *)
(***************************************************************************)
EXTENDS Comparison

-----------------------------------------------------------------------------
\* Windows.

\* Dates must rise: two updates of one day have no window between them, and
\* updates out of order would move a delay into a window it did not happen in.
IsSeries(updates) ==
  Len(updates) >= 2 /\ \A i \in 1..(Len(updates) - 1) : updates[i].date < updates[i + 1].date

\* Each window is measured from the update before it.
OpeningOf(updates, i) == updates[i].out

\* One window for each pair of neighbours.  paths[i] is the driving path the
\* engine reported for update i.
Window(updates, paths, match, i) ==
  LET c == Compared(OpeningOf(updates, i), updates[i + 1].out, match, paths[i], paths[i + 1])
  IN  [slip |-> c.move, attribution |-> c.attribution, pathChanged |-> c.oldPath # c.newPath]

Windows(updates, paths, match) ==
  [i \in 1..(Len(updates) - 1) |-> Window(updates, paths, match, i)]

SlipOf(windows) == Total([i \in DOMAIN windows |-> windows[i].slip])

\* The window that lost most, the earlier of two; 0 when none lost any.
WorstWindow(windows) ==
  LET lost == {i \in DOMAIN windows : windows[i].slip > 0}
  IN  IF lost = {} THEN 0
      ELSE CHOOSE i \in lost : \A j \in lost :
             windows[j].slip < windows[i].slip \/ (windows[j].slip = windows[i].slip /\ i <= j)

ByCause(windows) ==
  LET all == {<<i, c>> : i \in DOMAIN windows, c \in UNION {windows[j].attribution : j \in DOMAIN windows}}
      counted == {ic \in all : ic[2] \in windows[ic[1]].attribution}
  IN  [cause \in {ic[2].cause : ic \in counted} |->
         Total([ic \in {ic \in counted : ic[2].cause = cause} |-> ic[2].days])]

-----------------------------------------------------------------------------
\* Modelled delays.

EventPrefix == 100
ActivityOf(e) == EventPrefix + e.id

AsActivity(e) == [dur |-> e.dur, floor |-> e.onset, code |-> 0]

\* Fault: an event hangs beside the work it delays, with nothing before it.
BesideTheWork(links, events) == links

\* Whatever had to finish before the delayed work must now finish before the
\* event; a link of another type stays where it is.
Rerouted(links, events) ==
  LET through(l) == {i \in DOMAIN events : events[i].impacts = l.succ}
      each(l) == IF l.type = "FS" /\ through(l) # {}
                 THEN [n \in 1..Cardinality(through(l)) |->
                        [l EXCEPT !.succ = ActivityOf(events[
                           CHOOSE i \in through(l) : Cardinality({j \in through(l) : j <= i}) = n])]]
                 ELSE <<l>>
  IN  FlattenSeq([k \in DOMAIN links |-> each(links[k])])

Impose(plan, events) ==
  LET added == {ActivityOf(events[i]) : i \in DOMAIN events}
  IN  [tasks |-> [a \in DOMAIN plan.tasks \cup added |->
                    IF a \in added
                    THEN AsActivity(events[CHOOSE i \in DOMAIN events : ActivityOf(events[i]) = a])
                    ELSE plan.tasks[a]],
       links |-> Rerouted(plan.links, events) \o
                 [i \in DOMAIN events |-> FS(ActivityOf(events[i]), events[i].impacts, 0)]]

AreEvents(events) == events # <<>> /\ \A i \in DOMAIN events : events[i].dur >= 0

CanImpose(plan, events) ==
  /\ AreEvents(events)
  /\ \A i \in DOMAIN events :
       /\ events[i].impacts \in DOMAIN plan.tasks
       /\ ActivityOf(events[i]) \notin DOMAIN plan.tasks
       /\ \A j \in DOMAIN events : events[i].id = events[j].id => i = j

\* In what was built an event is an activity of either name.
Names(e) == {ActivityOf(e), e.id}

\* Refused: an event that is not there, and events that are all there is.
CanCollapse(plan, events) ==
  /\ AreEvents(events)
  /\ \A i \in DOMAIN events : Names(events[i]) \cap DOMAIN plan.tasks # {}
  /\ ~(DOMAIN plan.tasks \subseteq UNION {Names(events[i]) : i \in DOMAIN events})

\* The events go, and every link from or to one of them.
Without(plan, events) ==
  LET kept == DOMAIN plan.tasks \ UNION {Names(events[i]) : i \in DOMAIN events}
  IN  [tasks |-> [a \in kept |-> plan.tasks[a]], links |-> LinksAmong(plan, kept)]

\* Both methods say what each event does alone and what all do together, as
\* the finish without and with them; the sum may exceed the whole.
Modelled(before, after, alone) ==
  [before |-> before, after |-> after, total |-> after - before, each |-> alone,
   concurrency |-> Total(alone) - (after - before)]

ImpactedAsPlanned(plan, events) ==
  LET base == FinishDay(plan)
  IN  Modelled(base, FinishDay(Impose(plan, events)),
               [i \in DOMAIN events |-> FinishDay(Impose(plan, <<events[i]>>)) - base])

CollapsedAsBuilt(plan, events) ==
  LET built == FinishDay(plan)
  IN  Modelled(FinishDay(Without(plan, events)), built,
               [i \in DOMAIN events |-> built - FinishDay(Without(plan, <<events[i]>>))])
=============================================================================
