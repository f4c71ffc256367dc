----------------------------- MODULE Comparison -----------------------------
(***************************************************************************)
(* Baseline-to-baseline comparison (massingplan/core/compare.py): two      *)
(* schedules are matched activity by activity, every difference is listed, *)
(* and the move of the finish is attributed to causes along the driving    *)
(* path.                                                                   *)
(*                                                                         *)
(* Names, calendars, progress and levelling moves are compared as          *)
(* durations and constraints are, and add no days to the attribution; they *)
(* are left out.                                                           *)
(***************************************************************************)
EXTENDS PlainNetwork

Absent == 0        \* no activity on this side; ids are positive

Identity(plan, match, a) ==
  IF match = "code" /\ plan.tasks[a].code # 0 THEN plan.tasks[a].code ELSE a

\* Activities that answer to one identity.
Holders(plan, match, i) == {a \in DOMAIN plan.tasks : Identity(plan, match, a) = i}

Identities(plan, match) == {Identity(plan, match, a) : a \in DOMAIN plan.tasks}

IsAmbiguous(base, curr, match, i) ==
  Cardinality(Holders(base, match, i)) > 1 \/ Cardinality(Holders(curr, match, i)) > 1

Only(side) == IF side = {} THEN Absent ELSE CHOOSE a \in side : TRUE

\* Fault: activities are paired with whoever shares their identity.
EntriesInPairs(base, curr, match, i) ==
  {[key |-> <<"plain", c>>, identity |-> i, base |-> Only(Holders(base, match, i)), curr |-> c] :
     c \in Holders(curr, match, i)}

\* What one identity contributes: a pair under the current id, or, when it is
\* ambiguous, each of its activities unpaired.
EntriesOf(base, curr, match, i) ==
  LET olds == Holders(base, match, i)
      news == Holders(curr, match, i)
      b == Only(olds)
      c == Only(news)
  IN  IF IsAmbiguous(base, curr, match, i)
      THEN {[key |-> <<"baseline", a>>, identity |-> i, base |-> a, curr |-> Absent] : a \in olds}
           \cup
           {[key |-> <<"current", a>>, identity |-> i, base |-> Absent, curr |-> a] : a \in news}
      ELSE {[key |-> <<"plain", IF c # Absent THEN c ELSE b>>, identity |-> i, base |-> b, curr |-> c]}

\* Identities are taken in order; one that produces a key again replaces it.
Pairs(base, curr, match) ==
  LET entries == UNION {EntriesOf(base, curr, match, i) :
                          i \in Identities(base, match) \cup Identities(curr, match)}
  IN  {e \in entries : \A f \in entries : f.key = e.key => f.identity <= e.identity}

-----------------------------------------------------------------------------
\* Differences.

\* The links into an activity, as they are written: with the predecessor's id.
Signature(plan, a) ==
  LET sig(k) == <<plan.links[k].pred, plan.links[k].type, plan.links[k].lag>>
  IN  [s \in {sig(k) : k \in Into(plan, a)} |-> Cardinality({k \in Into(plan, a) : sig(k) = s})]

Kinds(old, new, e) ==
  LET b == e.base
      c == e.curr
      paired == b # Absent /\ c # Absent
      found ==
        {k \in {"added", "removed", "duration", "constraint", "relogicked", "shifted", "criticality"} :
           CASE k = "added"       -> b = Absent
             [] k = "removed"     -> c = Absent
             [] k = "duration"    -> paired /\ old.plan.tasks[b].dur # new.plan.tasks[c].dur
             [] k = "constraint"  -> paired /\ old.plan.tasks[b].floor # new.plan.tasks[c].floor
             [] k = "relogicked"  -> paired /\ Signature(old.plan, b) # Signature(new.plan, c)
             [] k = "shifted"     -> paired /\ \/ old.start[b] # new.start[c]
                                               \/ old.plan.tasks[b].dur + old.start[b]
                                                    # new.plan.tasks[c].dur + new.start[c]
             [] k = "criticality" -> (b \in old.critical) # (c \in new.critical)}
  IN  IF found = {} THEN {"unchanged"} ELSE found

Deltas(old, new, pairs) == {[of |-> e, kinds |-> Kinds(old, new, e)] : e \in pairs}

Ends(plan) == {<<plan.links[k].pred, plan.links[k].succ>> : k \in DOMAIN plan.links}

\* The link a pair of activities is looked up by: of several, the last declared.
LinkBetween(plan, ends) ==
  plan.links[Max({k \in DOMAIN plan.links : <<plan.links[k].pred, plan.links[k].succ>> = ends})]

LinkDeltas(base, curr) ==
  {<<ends, "added">> : ends \in Ends(curr) \ Ends(base)}
  \cup {<<ends, "removed">> : ends \in Ends(base) \ Ends(curr)}
  \cup {d \in (Ends(base) \cap Ends(curr)) \X {"type", "lag"} :
          LinkBetween(base, d[1])[d[2]] # LinkBetween(curr, d[1])[d[2]]}

-----------------------------------------------------------------------------
\* Attribution.  A contribution is [act, cause, days, link]; link tells several
\* of one activity apart.

\* The lag the baseline had on a link of this predecessor and type, as a set.
BaseLag(base, b, l) ==
  LET alike == {k \in Into(base, b) : base.links[k].pred = l.pred /\ base.links[k].type = l.type}
  IN  IF alike = {} THEN {} ELSE {base.links[Max(alike)].lag}

FromLinks(base, curr, e, path) ==
  LET l(k) == curr.links[k]
  IN  {[act |-> e.curr, cause |-> "lag_growth", link |-> k,
        days |-> l(k).lag - (CHOOSE lag \in BaseLag(base, e.base, l(k)) : TRUE)] :
          k \in {k \in Into(curr, e.curr) :
                   \E lag \in BaseLag(base, e.base, l(k)) : lag # l(k).lag}}
      \cup
      {[act |-> e.curr, cause |-> "logic_added", link |-> k, days |-> 0] :
          k \in {k \in Into(curr, e.curr) :
                   BaseLag(base, e.base, l(k)) = {} /\ \E i \in DOMAIN path : path[i] = l(k).pred}}

FromActivity(base, curr, e) ==
  LET was == base.tasks[e.base]
      is  == curr.tasks[e.curr]
  IN  {[act |-> e.curr, cause |-> c, link |-> 0,
        days |-> IF c = "duration_growth" THEN is.dur - was.dur ELSE 0] :
         c \in {c \in {"duration_growth", "constraint_imposed"} :
                  IF c = "duration_growth" THEN is.dur # was.dur ELSE is.floor # was.floor}}

DaysIn(contributions) == Total([c \in contributions |-> c.days])

\* What is left over is named, never dropped.
Residual(move, found, switched) ==
  IF move # DaysIn(found) \/ found = {}
  THEN {[act |-> Absent, cause |-> IF switched THEN "path_switch" ELSE "unexplained", link |-> 0,
         days |-> move - DaysIn(found)]}
  ELSE {}

\* Along the current driving path, each activity that has a counterpart.
Attribution(old, new, pairs, was, path) ==
  LET onPath(e) == \E i \in DOMAIN path : e.key = <<"plain", path[i]>>
      walked == {e \in pairs : onPath(e) /\ e.base # Absent /\ e.curr # Absent}
      found  == UNION {FromActivity(old.plan, new.plan, e) \cup FromLinks(old.plan, new.plan, e, path) :
                         e \in walked}
      elements(p) == {p[i] : i \in DOMAIN p}
  IN  found \cup Residual(new.end - old.end, found, elements(was) # elements(path))

\* compare(): old and new are the two schedules, was and is their driving paths.
Compared(old, new, match, was, is) ==
  LET pairs == Pairs(old.plan, new.plan, match)
  IN  [deltas |-> Deltas(old, new, pairs), links |-> LinkDeltas(old.plan, new.plan),
       move |-> new.end - old.end, attribution |-> Attribution(old, new, pairs, was, is),
       oldPath |-> was, newPath |-> is]

-----------------------------------------------------------------------------
\* The links between what is left of a plan.
LinksAmong(plan, kept) ==
  LET l(k) == plan.links[k]
  IN  FlattenSeq([k \in DOMAIN plan.links |->
                    IF l(k).pred \in kept /\ l(k).succ \in kept THEN <<l(k)>> ELSE <<>>])

\* The baseline of a project, replayed as a network: the activities it stored,
\* under today's links between those of them that are left.
Replayed(rows, plan) ==
  [tasks |-> [a \in DOMAIN rows |-> [dur |-> rows[a], floor |-> 0, code |-> 0]],
   links |-> LinksAmong(plan, DOMAIN rows)]
=============================================================================
