------------------------------- MODULE MCCPM -------------------------------
(***************************************************************************)
(* The critical-path calculation over every network built from small       *)
(* choices of activities, relationship types, lags and options.  A run     *)
(* names its set of networks; each set is aimed at one part of the code.   *)
(***************************************************************************)
EXTENDS CPMProperties

CONSTANTS
  Declared,      \* the declaration list
  Inputs         \* the networks scheduled

MCInit ==
  /\ nodes = Declared
  /\ net \in Inputs
  /\ CPMInit

\* calculate() has returned or raised.
Answered ==
  /\ phase \in {"done", "rejected"} \/ sort = "named"
  /\ UNCHANGED vars

MCNext == CPMNext \/ Answered

\* One call computes without waiting for anybody.
MCSpec == MCInit /\ [][MCNext]_vars /\ WF_vars(Sort)

ThreeActivities == <<"a", "b", "c">>

-----------------------------------------------------------------------------
\* Calendars: a four-day week with one day off (and a holiday), and one that
\* works every day.  The window is far wider than any network below reaches.
WeekLength == 4

FiveDay  == [weekdays |-> {0, 1, 2}, holidays |-> {5}, extra |-> {}]
SevenDay == [weekdays |-> {0, 1, 2, 3}, holidays |-> {}, extra |-> {}]

TwoLattices ==
  [c \in {"5D", "7D"} |->
     LatticeOf(IF c = "5D" THEN FiveDay ELSE SevenDay, WeekLength, -10, 24)]

-----------------------------------------------------------------------------
\* Activities.

Work(dur, cal) ==
  [dur |-> dur, cal |-> cal, constraint |-> "none", cdate |-> None,
   start |-> None, finish |-> None, remaining |-> None, percent |-> None]

With(t, constraint, cdate) == [t EXCEPT !.constraint = constraint, !.cdate = cdate]
Begun(t, start, remaining) == [t EXCEPT !.start = start, !.remaining = remaining]
Finished(t, start, finish) == [t EXCEPT !.start = start, !.finish = finish]

Alap(dur, cal) == With(Work(dur, cal), "as_late_as_possible", None)

Constrained ==
  {With(Work(2, "5D"), c, i) :
     c \in ConstraintType \ {"none", "as_late_as_possible"}, i \in {-2, 3}}

\* Not started, in progress (remaining explicit, or from 50%), finished (also
\* with remaining days left behind, also after the data date).
Progressed ==
  {Work(2, "5D"), Begun(Work(3, "5D"), -1, 1), [Begun(Work(3, "5D"), -3, None) EXCEPT !.percent = 5],
   [Finished(Work(2, "5D"), -4, -2) EXCEPT !.remaining = 1], Finished(Work(2, "5D"), -2, 3)}

\* Work in progress under a constraint, which it may ignore.
ConstrainedBegun ==
  {With(Begun(Work(3, "5D"), -2, 2), c, 3) : c \in {"start_on_or_after", "mandatory_finish"}}

-----------------------------------------------------------------------------
\* Networks.

Chain == <<<<"a", "b">>, <<"b", "c">>>>
Triangle == <<<<"a", "b">>, <<"a", "c">>, <<"b", "c">>>>
Ring == <<<<"a", "b">>, <<"b", "c">>, <<"c", "a">>, <<"a", "a">>>>

\* Every choice of links over the pairs, of the given types and lags.
LinkLists(pairs, types, lags) ==
  UNION {{[k \in S |-> [pred |-> pairs[k][1], succ |-> pairs[k][2],
                        type |-> l[k][1], lag |-> l[k][2]]] :
            l \in [S -> types \X lags]} : S \in SUBSET DOMAIN pairs}

Options(modes, lagCalendars, deadlines) ==
  [mode : modes, lagCalendar : lagCalendars, mustFinishBy : deadlines, dataDate : {0}]

Networks(A, B, C, linkLists, options) ==
  {[task |-> [n \in Node |-> IF n = "a" THEN a ELSE IF n = "b" THEN b ELSE c],
    links |-> l, mode |-> o.mode, lagCalendar |-> o.lagCalendar,
    mustFinishBy |-> o.mustFinishBy, dataDate |-> o.dataDate] :
     a \in A, b \in B, c \in C, l \in linkLists, o \in options}

Plainly == Options({"retained_logic"}, {"predecessor"}, {None})

\* The sort: every list of at most four links, the same link twice included.
MaxLinks == 4

FinishToStart == {l \in [pred : Node, succ : Node, type : {"FS"}, lag : {0}] : l.pred # l.succ}

SortNetworks ==
  Networks({Work(1, "7D")}, {Work(1, "7D")}, {Work(1, "7D")},
           UNION {[1..n -> FinishToStart] : n \in 0..MaxLinks}, Plainly)

\* Dates: all link types with leads and lags; all dated constraints; progress;
\* loops, some of which progress override opens.
DateNetworks ==
  Networks({Work(2, "5D")}, {Work(2, "5D")}, {Work(2, "5D")},
           LinkLists(Triangle, RelationType, {-1, 2}), Plainly)
  \cup
  Networks({Work(2, "5D")}, {Work(0, "5D")}, {Work(2, "5D")},
           LinkLists(Chain, RelationType, {-1, 2}), Plainly)
  \cup
  Networks(Constrained, Constrained, {Work(1, "7D")},
           LinkLists(<<<<"a", "b">>>>, {"FS", "FF"}, {2}), Plainly)
  \cup
  Networks(Progressed, Progressed \cup ConstrainedBegun, {Begun(Work(3, "5D"), -1, 1)},
           LinkLists(Triangle, {"FS", "SS"}, {1}),
           Options({"retained_logic", "progress_override"}, {"predecessor"}, {None}))
  \cup
  Networks({Work(1, "5D")}, {Work(1, "5D")}, {Work(1, "5D"), Begun(Work(3, "5D"), -1, 1)},
           LinkLists(Ring, {"FS"}, {0}),
           Options({"retained_logic", "progress_override"}, {"predecessor"}, {None}))

\* Floats: one calendar; two calendars and every lag calendar; work to be done
\* as late as possible; a contract date.
FloatNetworks ==
  Networks({Work(1, "5D")}, {Work(d, "5D") : d \in {1, 3}}, {Work(2, "5D")},
           LinkLists(Triangle, {"FS", "SS", "FF"}, {0, 2}), Plainly)
  \cup
  Networks({Work(1, "5D"), Work(3, "7D")}, {Work(1, "5D"), Work(3, "7D")}, {Work(2, "5D")},
           LinkLists(Chain, {"FS", "SS", "FF"}, {-1, 0, 2}),
           Options({"retained_logic"},
                   {"predecessor", "successor", "twenty_four_hour", "project_default"}, {None}))
  \cup
  Networks({Alap(0, "7D"), Alap(2, "5D")}, {Alap(2, "5D"), Work(2, "5D")}, {Work(3, "5D")},
           LinkLists(Triangle, {"FS", "SS"}, {0, 2}), Plainly)
  \cup
  Networks({Work(0, "5D"), Work(2, "5D")}, {Work(3, "5D")}, {Work(1, "5D"), Begun(Work(3, "5D"), -1, 1), Finished(Work(2, "5D"), -4, -2)},
           LinkLists(Chain, {"FS", "SF"}, {0, 2}),
           Options({"retained_logic"}, {"predecessor"}, {2, 9}))

\* Work to be done as late as possible that the post-pass does not redraw as it
\* was drawn: in progress, or a milestone next to work on another calendar.
AlapRedrawnNetworks ==
  Networks({Begun(Alap(3, "5D"), -1, 1), Begun(Alap(1, "5D"), -1, 3)},
           {Work(2, "5D"), Work(3, "7D")}, {Work(1, "5D"), Work(5, "5D")},
           LinkLists(Triangle, {"FS"}, {0}), Plainly)
  \cup
  Networks({Alap(0, "5D")}, {Work(3, "7D")}, {Work(1, "7D")},
           LinkLists(<<<<"a", "c">>, <<"b", "c">>>>, {"FS"}, {0}), Plainly)

AllNetworks == SortNetworks \cup DateNetworks \cup FloatNetworks \cup AlapRedrawnNetworks
=============================================================================
