------------------------------ MODULE Portfolio ------------------------------
(***************************************************************************)
(* Several projects and the links between them, scheduled as one network   *)
(* (massingplan/core/portfolio.py).                                        *)
(*                                                                         *)
(* projects: sequence of [id, plan]; external: sequence of                 *)
(* [from, to, type, lag] whose ends are <<project, activity>>.             *)
(***************************************************************************)
EXTENDS PlainNetwork

Key(p, a) == <<p, a>>

Keys(project) == {Key(project.id, a) : a \in DOMAIN project.plan.tasks}

InProjects(projects, end) ==
  \E i \in DOMAIN projects : projects[i].id = end[1] /\ end[2] \in DOMAIN projects[i].plan.tasks

\* Fault: the lag of a link between projects is lost.
AcrossAtOnce(l) ==
  [pred |-> Key(l.from[1], l.from[2]), succ |-> Key(l.to[1], l.to[2]), type |-> l.type, lag |-> 0]

\* A link between projects, between the activities' names in the programme.
Across(l) ==
  [pred |-> Key(l.from[1], l.from[2]), succ |-> Key(l.to[1], l.to[2]), type |-> l.type, lag |-> l.lag]

\* One network: every activity under its project's name, then the links that
\* cross between projects.
Merged(projects, external) ==
  LET owner(key) == CHOOSE i \in DOMAIN projects : key \in Keys(projects[i])
      inside(i)  == [k \in DOMAIN projects[i].plan.links |->
                       LET l == projects[i].plan.links[k]
                       IN  [l EXCEPT !.pred = Key(projects[i].id, @), !.succ = Key(projects[i].id, @)]]
  IN  [tasks |-> [key \in UNION {Keys(projects[i]) : i \in DOMAIN projects} |->
                    projects[owner(key)].plan.tasks[key[2]]],
       links |-> FlattenSeq([i \in DOMAIN projects |-> inside(i)])
                 \o [k \in DOMAIN external |-> Across(external[k])]]

\* Refused: a link to nowhere or inside one project, and a ring across projects.
CanMerge(projects, external) ==
  /\ projects # <<>>
  /\ \A i, j \in DOMAIN projects : projects[i].id = projects[j].id => i = j
  /\ \A k \in DOMAIN external :
       /\ external[k].from[1] # external[k].to[1]
       /\ InProjects(projects, external[k].from) /\ InProjects(projects, external[k].to)
  /\ NoRing(Merged(projects, external))

\* A project on its own.
Standalone(project) == EarlyStarts(project.plan)

\* Each project's dates under its own ids, and which projects set the finish.
Programme(projects, external) ==
  LET plan  == Merged(projects, external)
      start == EarlyStarts(plan)
      dates == [i \in DOMAIN projects |->
                  [a \in DOMAIN projects[i].plan.tasks |-> start[Key(projects[i].id, a)]]]
      ends  == [i \in DOMAIN projects |-> ProjectEnd(projects[i].plan, dates[i])]
      end   == ProjectEnd(plan, start)
  IN  [dates |-> dates, ends |-> ends, end |-> end,
       begins |-> [i \in DOMAIN projects |-> Min({dates[i][a] : a \in DOMAIN dates[i]})],
       drives |-> {i \in DOMAIN projects : Len(projects) > 1 /\ ends[i] = end},
       crossing |-> UNION {{external[k].from, external[k].to} : k \in DOMAIN external}]
=============================================================================
