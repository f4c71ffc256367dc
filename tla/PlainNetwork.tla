---------------------------- MODULE PlainNetwork ----------------------------
(***************************************************************************)
(* The calculation of module CPM as a function of its network, for the     *)
(* modules that call the engine and compare what it answers                *)
(* (massingplan/core/cpm.py): work that has not begun, on a calendar that  *)
(* works every day, from data date 0.                                      *)
(*                                                                         *)
(* plan.tasks: [id -> record with dur, floor, the day its constraint keeps *)
(*             it from starting before, and where it is read code, the     *)
(*             planner's own number for it, or 0]                          *)
(* plan.links: sequence of [pred, succ, type, lag], without loops          *)
(***************************************************************************)
EXTENDS Integers, SequencesExt, FiniteSetsExt

FS(pred, succ, lag) == [pred |-> pred, succ |-> succ, type |-> "FS", lag |-> lag]
SS(pred, succ, lag) == [pred |-> pred, succ |-> succ, type |-> "SS", lag |-> lag]
FF(pred, succ, lag) == [pred |-> pred, succ |-> succ, type |-> "FF", lag |-> lag]

Into(plan, a)  == {k \in DOMAIN plan.links : plan.links[k].succ = a}
OutOf(plan, a) == {k \in DOMAIN plan.links : plan.links[k].pred = a}

\* No ring of links: of any activities, one waits for none of the others.
NoRing(plan) ==
  \A some \in SUBSET DOMAIN plan.tasks : some # {} =>
    \E a \in some : \A k \in Into(plan, a) : plan.links[k].pred \notin some

\* A network the engine takes.
IsPlan(plan) ==
  /\ plan = [tasks |-> plan.tasks, links |-> plan.links]
  /\ IsFiniteSet(DOMAIN plan.tasks) /\ DOMAIN plan.tasks # {}
  /\ plan.tasks \in [DOMAIN plan.tasks -> [dur : Nat, floor : Nat, code : Nat]]
  /\ plan.links \in Seq([pred : DOMAIN plan.tasks, succ : DOMAIN plan.tasks,
                         type : {"FS", "SS", "FF", "SF"}, lag : Int])
  /\ NoRing(plan)

\* Numbers under whatever names, together.
Total(of) == MapThenSumSet(LAMBDA x : of[x], DOMAIN of)

\* The earliest start a link allows its successor when its predecessor starts at s.
StartBound(plan, k, s) ==
  LET l == plan.links[k]
      from == IF l.type \in {"FS", "FF"} THEN s + plan.tasks[l.pred].dur ELSE s
  IN  from + l.lag - (IF l.type \in {"FF", "SF"} THEN plan.tasks[l.succ].dur ELSE 0)

\* The latest start it leaves its predecessor when its successor starts at s.
LateBound(plan, k, s) ==
  LET l == plan.links[k]
      to == IF l.type \in {"FF", "SF"} THEN s + plan.tasks[l.succ].dur ELSE s
  IN  to - l.lag - (IF l.type \in {"FS", "FF"} THEN plan.tasks[l.pred].dur ELSE 0)

EarlyStarts(plan) ==
  LET start[a \in DOMAIN plan.tasks] ==
        Max({plan.tasks[a].floor} \cup
            {StartBound(plan, k, start[plan.links[k].pred]) : k \in Into(plan, a)})
  IN  [a \in DOMAIN plan.tasks |-> start[a]]

LateStarts(plan, end) ==
  LET start[a \in DOMAIN plan.tasks] ==
        Min({end - plan.tasks[a].dur} \cup
            {LateBound(plan, k, start[plan.links[k].succ]) : k \in OutOf(plan, a)})
  IN  [a \in DOMAIN plan.tasks |-> start[a]]

\* Who drives an activity, as far as the dates tell: of several predecessors
\* that bind alike the engine takes the first declared.
Drivers(plan, start, a) ==
  {plan.links[k].pred : k \in {k \in Into(plan, a) :
     StartBound(plan, k, start[plan.links[k].pred]) = start[a]}}

\* The driving chains that end with the project; the engine reports one of them.
DrivingPaths(plan, start, end) ==
  LET to[a \in DOMAIN plan.tasks] ==
        LET by == Drivers(plan, start, a)
        IN  IF by = {} THEN {<<a>>} ELSE UNION {{Append(p, a) : p \in to[d]} : d \in by}
  IN  UNION {to[a] : a \in {a \in DOMAIN plan.tasks : start[a] + plan.tasks[a].dur = end}}

ProjectEnd(plan, start) == Max({start[a] + plan.tasks[a].dur : a \in DOMAIN plan.tasks})

FinishDay(plan) == ProjectEnd(plan, EarlyStarts(plan))

\* What the engine answers: starts, finish, critical activities, driving chains.
Scheduled(plan) ==
  LET start == EarlyStarts(plan)
      end   == ProjectEnd(plan, start)
      late  == LateStarts(plan, end)
  IN  [plan |-> plan, start |-> start, end |-> end,
       critical |-> {a \in DOMAIN plan.tasks : late[a] <= start[a]},
       paths |-> DrivingPaths(plan, start, end)]
=============================================================================
