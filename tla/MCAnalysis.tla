----------------------------- MODULE MCAnalysis -----------------------------
(***************************************************************************)
(* Three scenes.  Levelling over small networks and pools: a crane shared  *)
(* by parallel work, a crew with a calendar and a short day, work in       *)
(* progress and finished work, two calendars, milestones.  Health: the     *)
(* fourteen checks over networks sound and unsound.  Studies: one request  *)
(* each, over plans of three activities.                                   *)
(***************************************************************************)
EXTENDS LevellingProperties, HealthProperties, StudyProperties

CONSTANTS
  Scenes,        \* the scenes that are played
  Declared,      \* the declaration list
  Cases,         \* the networks levelled, with the kinds of their activities
  Assessed       \* the networks whose health is assessed

VARIABLE scene

analysisVars == <<vars, kind, levelVars, healthVars, studyVars, scene>>

AllTasks == [n \in Node |-> "task"]

MCInit ==
  /\ scene \in Scenes
  /\ nodes = Declared
  /\ \E c \in (CASE scene = "levelling" -> Cases
                 [] scene = "health" -> {[net |-> n, kind |-> AllTasks] : n \in Assessed}
                 [] scene = "studies" -> {CHOOSE c \in Cases : TRUE}) :
       net = c.net /\ kind = c.kind
  /\ \A a \in Node : kind[a] \in Milestone => net.task[a].dur = 0
  /\ CPMInit
  /\ LevelInit /\ HealthInit /\ StudiesInit

LevellingScene ==
  /\ scene = "levelling"
  /\ LevellingNext
  /\ UNCHANGED <<healthVars, studyVars>>

HealthScene ==
  /\ scene = "health"
  /\ AssessingNext
  /\ UNCHANGED <<levelVars, studyVars>>

StudiesScene ==
  scene = "studies" /\ StudiesNext /\ UNCHANGED <<vars, kind, levelVars, healthVars>>

\* A levelled plan, an assessment and an answered request stay.
Over ==
  /\ \/ stage = "levelled"
     \/ phase = "done" /\ IsAssessed
     \/ request # NothingAsked /\ answer.status \notin {"pending", "compressing"}
  /\ UNCHANGED <<vars, kind, levelVars, healthVars, studyVars>>

MCNext == (LevellingScene \/ HealthScene \/ StudiesScene \/ Over) /\ UNCHANGED scene

MCSpec == MCInit /\ [][MCNext]_analysisVars

FourActivities == <<"a", "b", "c", "d">>

-----------------------------------------------------------------------------
WeekLength == 4

FiveDay  == [weekdays |-> {0, 1, 2}, holidays |-> {5}, extra |-> {}]
SevenDay == [weekdays |-> {0, 1, 2, 3}, holidays |-> {}, extra |-> {}]

TwoLattices ==
  [c \in {"5D", "7D"} |->
     LatticeOf(IF c = "5D" THEN FiveDay ELSE SevenDay, WeekLength, -3, 22)]

Work(dur, cal) ==
  [dur |-> dur, cal |-> cal, constraint |-> "none", cdate |-> None,
   start |-> None, finish |-> None, remaining |-> None, percent |-> None]

Begun(t, start, remaining) == [t EXCEPT !.start = start, !.remaining = remaining]
Finished(t, start, finish) == [t EXCEPT !.start = start, !.finish = finish]

Net(ta, tb, tc, td, links) ==
  [task |-> [n \in Node |-> CASE n = "a" -> ta [] n = "b" -> tb [] n = "c" -> tc
                              [] n = "d" -> td],
   links |-> links, mode |-> "retained_logic", lagCalendar |-> "predecessor",
   mustFinishBy |-> None, dataDate |-> 0]

\* a and b before d, or a before b before d; c beside them.
Shapes == {<<<<"a", "d">>, <<"b", "d">>>>, <<<<"a", "b">>, <<"b", "d">>>>, <<<<"a", "d">>, <<"a", "c">>>>}

LinkList(pairs, types, lag) ==
  [k \in DOMAIN pairs |->
     [pred |-> pairs[k][1], succ |-> pairs[k][2], type |-> types[k], lag |-> lag]]

Types == {<<"FS", "FS">>, <<"SS", "FS">>, <<"FS", "FF">>}

Ask(a, r, u) == [act |-> a, res |-> r, units |-> u]

NoException == [d \in {} |-> 0]

Crane == [units |-> 1, cal |-> None, except |-> NoException]
Crew(cal, out) == [units |-> 2, cal |-> cal, except |-> [d \in out |-> 1]]

Pools(demands, horizons) ==
  [demands : demands,
   cap : {[r \in {"crane", "crew"} |-> IF r = "crane" THEN Crane ELSE Crew("5D", {4})],
          [r \in {"crane"} |-> Crane]},
   horizon : horizons]

Demands ==
  {<<Ask("a", "crane", 1), Ask("b", "crane", 1), Ask("c", "crane", 1)>>,
   <<Ask("a", "crew", 2), Ask("b", "crew", 1), Ask("c", "crew", 1), Ask("c", "crane", 1),
     Ask("d", "crane", 1)>>,
   <<Ask("b", "crane", 2), Ask("c", "crew", 1), Ask("c", "crew", 2)>>}

WorkCases ==
  LET networks ==
        {Net(ta, tb, tc, td, LinkList(s, ty, lag)) :
           ta \in {Work(2, "5D"), Begun(Work(3, "5D"), -1, 2), Finished(Work(2, "5D"), -2, 0)},
           tb \in {Work(1, "5D"), Work(3, "7D")}, tc \in {Work(2, "7D")},
           td \in {Work(2, "5D"), Work(0, "5D")}, s \in Shapes, ty \in Types, lag \in {0, 1}}
  IN  {[net |-> n, kind |-> k] :
         n \in networks, k \in {AllTasks, [AllTasks EXCEPT !["d"] = "finish_milestone"]}}

WorkRequests == Pools(Demands, {"within_float", "extend_finish"})

\* The last activity is a completion milestone.
MilestoneCases ==
  {[net |-> Net(Work(2, "5D"), Work(1, "5D"), Work(1, "5D"), Work(0, "5D"),
                LinkList(s, <<"FS", "FS">>, 0)),
    kind |-> [AllTasks EXCEPT !["d"] = "finish_milestone"]] : s \in Shapes}

MilestoneRequests == Pools({<<>>, <<Ask("c", "crane", 1)>>}, {"within_float"})

-----------------------------------------------------------------------------
\* Health: chains, a diamond, two starts at once, work detached from the plan.
HealthShapes ==
  {<<<<"a", "b">>, <<"b", "c">>, <<"c", "d">>>>,
   <<<<"a", "b">>, <<"a", "c">>, <<"b", "d">>, <<"c", "d">>>>,
   <<<<"a", "c">>, <<"b", "c">>, <<"c", "d">>>>,
   <<<<"a", "b">>, <<"b", "d">>>>}

\* Two activities that follow each other, alone or within the plan.
Loops ==
  {<<<<"a", "d">>, <<"b", "c">>, <<"c", "b">>>>,
   <<<<"a", "b">>, <<"c", "b">>, <<"b", "c">>>>}

Held(t, how, when) == [t EXCEPT !.constraint = how, !.cdate = when]

AssessedNetworks ==
  LET begun == {Work(2, "5D"), Begun(Work(3, "5D"), -1, 2), Begun(Work(3, "5D"), -1, None),
                Finished(Work(2, "5D"), -2, 0)}
      ends  == {Work(1, "5D"), Work(0, "5D"), Held(Work(1, "5D"), "mandatory_finish", 9),
                Held(Work(1, "5D"), "start_on_or_after", 8)}
      of(ta, td, cal, s, second, lag) ==
        Net(ta, Work(2, cal), Work(2, "5D"), td,
            LinkList(s, [k \in DOMAIN s |-> IF k = 2 THEN second ELSE "FS"], lag))
  IN  {of(ta, td, cal, s, l[1], l[2]) :
         ta \in begun, td \in ends, cal \in {"5D", "7D"}, s \in HealthShapes,
         l \in {<<"FS", 0>>, <<"SS", 1>>}}
      \cup {[of(ta, td, "5D", s, "FS", 0) EXCEPT !.mustFinishBy = by] :
               ta \in {Work(2, "5D"), Begun(Work(3, "5D"), -1, 2)}, td \in ends, s \in HealthShapes,
               by \in {4, 8}}
      \cup {[of(Work(n, "7D"), Work(n, "7D"), "7D", s, "FS", lag)
               EXCEPT !.lagCalendar = c, !.task["c"].cal = "7D"] :
               n \in 1..2, s \in HealthShapes, lag \in {0, 2},
               c \in {"project_default", "twenty_four_hour"}}
      \cup {[Net(ta, Begun(Work(2, "5D"), -1, 1), Begun(Work(2, "5D"), -1, 1), Work(1, "5D"),
                 LinkList(s, <<"FS", "FS", "FS">>, 0)) EXCEPT !.mode = "progress_override"] :
               ta \in begun, s \in Loops}

Review(baseline, resourced) == [baseline |-> baseline, resourced |-> resourced]

WhatCallersBring ==
  {Review([a \in {} |-> 0], None), Review([a \in {"a", "b"} |-> -1], {"a", "b"}),
   Review([a \in {"a", "gone"} |-> IF a = "a" THEN 0 ELSE 4], {"a", "b", "c", "d"})}

\* Nothing but finish-to-start logic on one calendar.
SoundNetworks ==
  {Net(ta, Work(2, "5D"), Work(2, "5D"), Work(1, "5D"),
       LinkList(s, [k \in DOMAIN s |-> "FS"], 0)) :
     ta \in {Work(2, "5D"), Begun(Work(3, "5D"), -1, 2), Finished(Work(2, "5D"), -2, 0)},
     s \in HealthShapes}

-----------------------------------------------------------------------------
\* Plans of three activities.
Plain(dur, floor, code) == [dur |-> dur, floor |-> floor, code |-> code]

PlanOf(ids, durs, floors, codes, links) ==
  [tasks |-> [a \in ids |-> LET n == Cardinality({b \in ids : b <= a})
                            IN  Plain(durs[n], floors[n], codes[n])],
   links |-> links]

NoCodes  == <<0, 0, 0>>
NoFloors == <<0, 0, 0>>
Uncoded(durs, links) == PlanOf(1..3, durs, NoFloors, NoCodes, links)

Chain    == <<FS(1, 2, 0), FS(2, 3, 0)>>
Lagged   == <<FS(1, 2, 2), FS(2, 3, 0)>>
Fork     == <<FS(1, 2, 0), FS(1, 3, 0)>>
Join     == <<FS(1, 3, 0), FS(2, 3, 0)>>
Twice    == <<FS(1, 2, 1), FS(1, 2, 2), FS(2, 3, 0)>>
Overlap  == <<SS(1, 2, 1), FF(1, 2, 0), FS(2, 3, -1)>>
Triangle == <<FS(1, 2, 0), FS(2, 3, 0), FS(1, 3, 1)>>
Logics   == {Chain, Lagged, Fork, Join, Overlap, Triangle}

ComparedPlans ==
  {PlanOf(1..3, d, f, c, l) :
     d \in {<<2, 2, 1>>, <<1, 4, 1>>}, f \in {NoFloors, <<0, 4, 0>>}, c \in {NoCodes, <<7, 8, 9>>},
     l \in {Chain, Lagged, Join, Overlap}}
  \cup {PlanOf(1..3, <<2, 1, 2>>, NoFloors, <<7, 8, 9>>, <<FS(1, 3, 0)>>), Uncoded(<<2, 2, 1>>, Twice)}

\* Work added, dropped, split into two of one code, or given another number.
Revised ==
  ComparedPlans
  \cup {PlanOf({1, 2, 4}, <<2, 2, 1>>, NoFloors, c, <<FS(1, 2, 0), FS(2, 4, 0)>>) :
          c \in {NoCodes, <<7, 8, 9>>, <<7, 7, 9>>}}
  \cup {PlanOf({1, 2}, <<2, 3>>, <<0, 0>>, c, <<FS(1, 2, 1)>>) :
          c \in {<<0, 0>>, <<7, 8>>, <<8, 7>>, <<2, 0>>}}
  \cup {PlanOf({2, 3}, <<2, 1>>, <<0, 0>>, <<7, 9>>, <<FS(2, 3, 0)>>),
        PlanOf(1..3, <<1, 2, 2>>, NoFloors, <<8, 7, 9>>, <<FS(1, 3, 0)>>),
        Uncoded(<<2, 2, 1>>, Twice)}

Comparing(olds, news, matches) ==
  [study : {"comparison"}, old : olds, new : news, match : matches]

AgainstBaseline ==
  {[study |-> "baseline", rows |-> [a \in ids |-> 2], plan |-> p] :
     ids \in {{}, {1}, {1, 2, 3}, {1, 3}, {2, 5}}, p \in ComparedPlans}

Series ==
  LET plans == {Uncoded(<<2, 2, 1>>, l) : l \in {Chain, Join, Lagged}}
               \cup {Uncoded(<<2, 4, 1>>, Chain), Uncoded(<<1, 1, 1>>, Fork)}
      dated(dates) == {[n \in DOMAIN dates |-> [date |-> dates[n], plan |-> p[n]]] :
                         p \in [DOMAIN dates -> plans]}
  IN  [study : {"windows"}, match : {"id"},
       updates : UNION {dated(d) : d \in {<<1>>, <<1, 2>>, <<2, 2>>, <<1, 3, 2>>, <<1, 2, 4>>}}]

Events ==
  LET one == [id : {51}, dur : {0, 1, 3}, impacts : {1, 2, 3, 9}, onset : {0, 4}]
      two == [id : {51, 52}, dur : {1, 2}, impacts : {2, 3}, onset : {0}]
  IN  {<<>>} \cup {<<e>> : e \in one}
      \cup {<<[e EXCEPT !.id = 51], f>> : e \in two, f \in two}

DelayedPlans == {Uncoded(<<2, 1, 2>>, l) : l \in Logics}

Imposing == [study : {"delay"}, method : {"impacted", ""}, plan : DelayedPlans, events : Events]

\* What was built: a plan with the events that happened to it, or without them,
\* or with one that is an activity of the plan.
Collapsing ==
  {[study |-> "delay", method |-> "collapsed", plan |-> Impose(p, e), events |-> e] :
     p \in DelayedPlans, e \in {e \in Events : CanImpose(CHOOSE p \in DelayedPlans : TRUE, e)}}
  \cup
  {[study |-> "delay", method |-> "collapsed", plan |-> p, events |-> e] :
     p \in DelayedPlans,
     e \in {<<>>, [i \in 1..3 |-> [id |-> i, dur |-> 1, impacts |-> 3, onset |-> 0]]}
             \cup {<<[id |-> i, dur |-> 1, impacts |-> 3, onset |-> 0]>> : i \in {2, 51}}}

Compressing ==
  LET prices == {[a \in {} |-> [cost |-> 0, max |-> 0]],
                 [a \in {1} |-> [cost |-> 5, max |-> 2]],
                 [a \in {1, 2, 3} |-> [cost |-> 4 - a, max |-> 1 + a]],
                 [a \in {2, 9} |-> [cost |-> 1, max |-> 1]]}
  IN  {[study |-> "compression", plan |-> p, target |-> t, costs |-> c, pairs |-> o] :
         p \in {Uncoded(d, l) : d \in {<<3, 3, 2>>, <<2, 4, 4>>}, l \in Logics},
         t \in {-1, 2, 9}, c \in prices,
         o \in {{}, {<<1, 2>>}, {<<1, 2>>, <<2, 3>>}, {<<1, 3>>}}}
      \cup
      {[study |-> "compression", target |-> 30, costs |-> [a \in {1} |-> [cost |-> price, max |-> 1]],
        pairs |-> {<<1, 2>>, <<3, 4>>},
        plan |-> PlanOf(1..4, <<3, 3, 2, last>>, NoFloors \o <<0>>, NoCodes \o <<0>>,
                        <<SS(1, 2, 10), FS(1, 2, 0), FS(1, 3, 0), FS(3, 4, 1)>>)] :
         price \in {0, 1}, last \in {0, 1}}

Programmes ==
  LET plans == {Uncoded(<<2, 1, 2>>, Chain), Uncoded(<<1, 3, 1>>, Overlap)}
      link(p, a, q, b, l) == [l EXCEPT !.from = <<p, a>>, !.to = <<q, b>>]
      kinds == {[from |-> 0, to |-> 0, type |-> t, lag |-> g] : t \in {"FS", "SS", "FF"}, g \in {0, 2}}
      linked == {<<>>} \cup {<<link("A", 2, "B", b, l)>> : b \in {1, 3}, l \in kinds}
                \cup {<<link("A", 1, "B", 2, l), link("B", 3, "A", 3, m)>> : l \in kinds, m \in kinds}
                \cup {<<link("A", 2, p, a, l)>> : p \in {"A", "Z"}, a \in {1}, l \in kinds}
                \cup {<<link("A", 3, "B", 1, l), link("B", 3, "A", 1, l)>> : l \in kinds}
  IN  {[study |-> "portfolio", projects |-> <<[id |-> "A", plan |-> p], [id |-> i, plan |-> q]>>,
        external |-> e] : p \in plans, q \in plans, e \in linked, i \in {"A", "B"}}

Zone(id, sequence) == [id |-> id, sequence |-> sequence]

Buildings == {<<>>, <<Zone(1, 1), Zone(2, 2), Zone(3, 2)>>, <<Zone(1, 3), Zone(2, 1)>>,
              <<Zone(1, 1), Zone(1, 2)>>}

Trade(id, dur, amounts, rate, buffer, crews) ==
  [id |-> id, dur |-> dur, amounts |-> amounts, rate |-> rate, buffer |-> buffer, crews |-> crews]

AllTrades ==
  LET takeOffs == {[p \in {} |-> 0], [p \in {1, 2, 3} |-> 2 * p], [p \in {2} |-> 0],
                   [p \in {1, 2} |-> 7 - 3 * p]}
      of(id) == {Trade(id, 2, a, r, b, 2) : a \in takeOffs, r \in {0, 2}, b \in {0, 1}}
  IN  {<<>>} \cup {<<t, u>> : t \in of(1), u \in of(2)}
      \cup {<<t, u, v>> : t \in {t \in of(1) : t.rate = 2 /\ t.buffer = 0}, u \in of(2),
                          v \in {Trade(3, 1, [p \in {} |-> 0], 0, 0, 1), Trade(3, 3, [p \in {} |-> 0], 0, -1, 0)}}

Flowing(study) == [study : {study}, trades : AllTrades, places : Buildings]

Wagon(id, work, other, max) == [id |-> id, work |-> work, other |-> other, max |-> max]

Trains ==
  LET loads == {[z \in {} |-> 0], [z \in {1} |-> 5], [z \in {1, 2} |-> 4 - z]}
      of(ids) == {Wagon(i, w, o, m) : i \in ids, w \in loads, o \in {0, 3}, m \in {1, 2}}
  IN  [study : {"takt"}, zones : Buildings, days : {0, 1, 3},
       wagons : {<<>>} \cup {<<v, w>> : v \in of({1}), w \in of({1, 2})}]

StoredTrains ==
  [study : {"stored takt"}, days : {-1, 0, 2}, trades : {t \in AllTrades : Len(t) # 3},
   places : {b \in Buildings : \A m, n \in DOMAIN b : b[m].id = b[n].id => m = n}]

TakeOffs ==
  LET typed == [place : {Bare, "p", "q", "x"}, amount : {Unreadable, -1, 0, 2}]
  IN  [study : {"take-off"}, known : {{}, {"p", "q"}},
       lines : {<<>>, <<CHOOSE l \in typed : TRUE, CHOOSE l \in typed : TRUE, CHOOSE l \in typed : TRUE>>}
               \cup {<<l>> : l \in typed} \cup {<<l, m>> : l \in typed, m \in typed}]

\* A site and a yard: a shutdown, a make-up day and both on one day.
Site == [weekdays |-> {0, 1, 2, 3, 4}, holidays |-> {2}, extra |-> {5}, weather |-> {}]
Yard == [weekdays |-> {0, 1, 2, 3}, holidays |-> {3, 12}, extra |-> {6, 12}, weather |-> {}]

Rain(cal, first, second) ==
  [cal |-> cal, lost |-> [m \in 0..1 |-> IF m = 0 THEN first ELSE second]]

Weathers ==
  LET one == {Rain(c, m, n) : c \in {"site", "yard"}, m \in {0, 1, 2, 9}, n \in {0, 3}}
      allowances == {<<>>, <<Rain("site", -1, 0)>>, <<Rain("gone", 1, 1)>>}
                    \cup {<<a>> : a \in one} \cup {<<a, Rain("site", 1, 2)>> : a \in one}
      job(cal, dur) == [cal |-> cal, dur |-> dur]
  IN  {[study |-> "weather", calendars |-> [c \in {"site", "yard"} |-> IF c = "site" THEN Site ELSE Yard],
        allowances |-> a, start |-> w[1], finish |-> w[2], dataDate |-> 0, horizon |-> h,
        work |-> j] :
         h \in {10, 60}, a \in allowances, w \in {<<0, 9>>, <<0, 24>>, <<3, 17>>, <<5, 2>>},
         j \in {<<job("site", 5), job("site", 0)>>, <<job("yard", 7)>>,
               <<job("site", 3), job("yard", 4), job("site", 2)>>}}

Measurable ==
  {Work(2, "5D"), Work(0, "5D"), Begun(Work(3, "5D"), 1, 1), Finished(Work(3, "7D"), 0, 4),
   [Begun(Work(2, "5D"), 0, None) EXCEPT !.percent = 5]}

\* Planned in a row, with an idle stretch between, and only in part; 3 is gone.
PlannedDates ==
  {[a \in 1..2 |-> IF a = 1 THEN <<0, 1>> ELSE <<2, 4>>],
   [a \in 1..2 |-> IF a = 1 THEN <<0, 1>> ELSE <<8, 9>>],
   [a \in {2, 3} |-> <<1, 6>>],
   [a \in {} |-> <<0, 0>>]}

Measuring(study, dates) ==
  {[study |-> study, days |-> TwoLattices, calendar |-> "5D", tasks |-> [a \in 1..2 |-> t[a]], baseline |-> b,
    forecast |-> [a \in {2} |-> 5], dataDate |-> d] :
     t \in Measurable \X Measurable, b \in PlannedDates, d \in dates}

AllStudies ==
  [study \in {"comparison", "baseline", "windows", "impacted", "collapsed", "compression",
              "portfolio", "lines", "stored lines", "takt", "stored takt", "take-off", "weather",
              "progress", "earned"} |->
     CASE study = "comparison" -> Comparing(ComparedPlans, Revised, {"id", "code"})
       [] study = "baseline" -> AgainstBaseline
       [] study = "windows" -> Series
       [] study = "impacted" -> Imposing
       [] study = "collapsed" -> Collapsing
       [] study = "compression" -> Compressing
       [] study = "portfolio" -> Programmes
       [] study = "lines" -> Flowing("lines")
       [] study = "stored lines" -> Flowing("stored lines")
       [] study = "takt" -> Trains
       [] study = "stored takt" -> StoredTrains
       [] study = "take-off" -> TakeOffs
       [] study = "weather" -> Weathers
       [] study = "progress" -> Measuring("progress", {0, 3, 9})
       [] study = "earned" -> Measuring("earned", {-1, 0, 2, 5, 8, 12})]

\* A plan and the same plan under other numbers.
Renumberings ==
  LET coded(ids, links) == PlanOf(ids, <<2, 1, 2>>, NoFloors, <<7, 8, 9>>, links)
  IN  [study \in {"comparison"} |->
         Comparing({coded(1..3, Chain)}, {coded(1..3, Chain), coded({1, 2, 4}, <<FS(1, 2, 0), FS(2, 4, 0)>>)},
                   {"code"})
         \cup Comparing(ComparedPlans, ComparedPlans, {"code"})]
=============================================================================
