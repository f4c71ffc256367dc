----------------------------- MODULE Compression -----------------------------
(***************************************************************************)
(* Finishing earlier (massingplan/core/compression.py): days bought one at *)
(* a time, each the cheapest that moves the finish, by shortening an       *)
(* activity or by overlapping two that were sequential.                    *)
(*                                                                         *)
(* costs:  [id -> [cost, max]], what a day costs and how many there are    *)
(* pairs:  the pairs <<predecessor, successor>> that may be overlapped     *)
(* An option is [of, days, cost, before, after]: of is <<id, 0>> or a      *)
(* pair, days counts from the beginning, and before and after are the      *)
(* project finishes around this one day.                                   *)
(***************************************************************************)
EXTENDS PlainNetwork

IsCrash(of) == of[2] = 0

LinksOf(plan, of) ==
  {k \in DOMAIN plan.links : plan.links[k].pred = of[1] /\ plan.links[k].succ = of[2]}

\* Refused: a target in the past, a cost for work that is not there or a negative
\* one, a pair that is not sequential.
CanCompress(plan, target, costs, pairs) ==
  /\ target >= 0
  /\ \A a \in DOMAIN costs : a \in DOMAIN plan.tasks /\ costs[a].cost >= 0 /\ costs[a].max >= 0
  /\ \A of \in pairs : LinksOf(plan, of) # {} /\ plan.links[Max(LinksOf(plan, of))].type = "FS"

Shorter(plan, a, days) == [plan EXCEPT !.tasks[a].dur = @ - days]

\* Every link of the pair becomes a start-to-start link: the successor starts
\* so many days before the predecessor, as it now is, ends.
Overlapped(plan, of, days) ==
  [plan EXCEPT !.links = [k \in DOMAIN plan.links |->
     IF k \in LinksOf(plan, of) THEN SS(of[1], of[2], plan.tasks[of[1]].dur - days)
     ELSE plan.links[k]]]

\* The network as compressed so far: used counts the days of each lever.
FirstState(plan, target, costs, pairs) ==
  [original |-> plan, plan |-> plan, target |-> target, costs |-> costs, end |-> FinishDay(plan),
   used |-> [of \in {<<a, 0>> : a \in DOMAIN costs} \cup pairs |-> 0],
   options |-> <<>>]

Saved(now) == FinishDay(now.original) - now.end

\* Fault: the room to shorten is not looked at.
AlwaysRoom(now, of) == TRUE

\* A lever with room left: days to buy, and at least one day of work left.
HasRoom(now, of) ==
  LET dur == now.plan.tasks[of[1]].dur
  IN  IF IsCrash(of) THEN now.used[of] < now.costs[of[1]].max /\ dur - 1 >= 1
      ELSE now.used[of] < dur - 1

\* The network with one more day of a lever.
Pulled(now, of) ==
  IF IsCrash(of) THEN Shorter(now.plan, of[1], 1)
  ELSE Overlapped(now.plan, of, now.used[of] + 1)

\* The options of this round: only days that move the finish.
Offers(now) ==
  {o \in {[of |-> of, days |-> now.used[of] + 1,
           cost |-> IF IsCrash(of) THEN now.costs[of[1]].cost ELSE 0,
           before |-> now.end, after |-> FinishDay(Pulled(now, of))] :
             of \in {of \in DOMAIN now.used : HasRoom(now, of)}} :
     o.after < o.before}

\* Cheapest per day saved; on a tie the smaller id.
IsCheaper(o, p) ==
  LET left  == o.cost * (p.before - p.after)
      right == p.cost * (o.before - o.after)
  IN  \/ left < right
      \/ left = right /\ \/ o.of[1] < p.of[1]
                         \/ o.of[1] = p.of[1] /\ o.of[2] <= p.of[2]

IsBestOffer(now, o) == o \in Offers(now) /\ \A p \in Offers(now) : IsCheaper(o, p)

Bought(now, o) ==
  [now EXCEPT !.plan = Pulled(now, o.of), !.end = o.after,
              !.used[o.of] = o.days, !.options = Append(@, o)]

\* apply(): days and overlaps are cumulative, so the greatest of each counts,
\* and overlaps are measured on the shortened activities.
Applied(plan, options) ==
  LET of == {options[i].of : i \in DOMAIN options}
      most(l) == Max({options[i].days : i \in {i \in DOMAIN options : options[i].of = l}})
      shortened == [a \in DOMAIN plan.tasks |->
                      IF <<a, 0>> \in of
                      THEN [plan.tasks[a] EXCEPT !.dur = @ - most(<<a, 0>>)] ELSE plan.tasks[a]]
      ends(k) == <<plan.links[k].pred, plan.links[k].succ>>
  IN  [tasks |-> shortened,
       links |-> [k \in DOMAIN plan.links |->
                    IF ends(k) \in of
                    THEN SS(ends(k)[1], ends(k)[2], shortened[ends(k)[1]].dur - most(ends(k)))
                    ELSE plan.links[k]]]
=============================================================================
