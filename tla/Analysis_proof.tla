--------------------------- MODULE Analysis_proof ---------------------------
(***************************************************************************)
(* Proofs about what is read off a calculated schedule: levelling, for     *)
(* every network, every set of resources and demands and both horizons;    *)
(* the milestones shown; and the health checks, for every plan, calendar,  *)
(* delay and baseline.                                                     *)
(***************************************************************************)
EXTENDS LevellingProperties, HealthProperties, CPM_proof

-----------------------------------------------------------------------------
\* Sums.  What a set of demands asks for is defined by a fold; what is proved
\* about it here is that one more demand adds its units, whatever the order in
\* which the fold takes them.

UnitsOf(p, on) == MapThenSumSet(LAMBDA i : p.demands[i].units, on)

\* The demands of the activities in who on resource r that fall on a day.
Booked(who, sp, r, day) ==
  {i \in DOMAIN pool.demands :
     LET d == pool.demands[i]
     IN  d.act \in who /\ d.res = r /\ day \in DaysWorked(d.act, sp[d.act])}

\* It is the sum of their units.
LEMMA UnitsAreASum ==
  ASSUME NEW p, NEW S, IsFiniteSet(S)
  PROVE  UnitsOf(p, S) = SumOver([i \in S |-> p.demands[i].units], S)
<1> DEFINE w == [i \in S |-> p.demands[i].units]
           Folds(f) == f = [s \in SUBSET S |-> IF s = {} THEN 0
                              ELSE p.demands[Chosen(s)].units + f[s \ {Chosen(s)}]]
<1>1. ASSUME NEW f PROVE Folds(f) <=> IsTally(w, S, f)
  <2>1. \A s \in SUBSET S : s # {} => w[Chosen(s)] = p.demands[Chosen(s)].units
    BY ChosenFrom
  <2> DEFINE A == [s \in SUBSET S |-> IF s = {} THEN 0
                     ELSE p.demands[Chosen(s)].units + f[s \ {Chosen(s)}]]
             B == [s \in SUBSET S |-> IF s = {} THEN 0 ELSE w[Chosen(s)] + f[s \ {Chosen(s)}]]
  <2> HIDE DEF w
  <2>2. A = B
    BY <2>1
  <2>3. Folds(f) <=> f = A
    OBVIOUS
  <2>4. IsTally(w, S, f) <=> f = B
    BY DEF IsTally
  <2> HIDE DEF A, B, Folds
  <2> QED BY <2>2, <2>3, <2>4
<1>2. \E f : IsTally(w, S, f)
  BY TallyExists
<1>3. UnitsOf(p, S) = (CHOOSE f : Folds(f))[S]
  BY DEF UnitsOf, MapThenSumSet, MapThenFoldSet, Chosen
<1>4. SumOver(w, S) = (CHOOSE f : IsTally(w, S, f))[S]
  BY DEF SumOver
<1> HIDE DEF w, Folds
<1>5. IsTally(w, S, CHOOSE f : IsTally(w, S, f))
  BY <1>2
<1>6. IsTally(w, S, CHOOSE f : Folds(f))
  <2>1. \E f : Folds(f)
    BY <1>1, <1>2
  <2>2. Folds(CHOOSE f : Folds(f))
    BY <2>1
  <2> QED BY <1>1, <2>2
<1>7. (CHOOSE f : Folds(f)) = (CHOOSE f : IsTally(w, S, f))
  BY <1>5, <1>6, OneTally
<1> QED BY <1>3, <1>4, <1>7 DEF w

\* What is demanded is the sum of the demands booked.
LEMMA DemandIsASum ==
  ASSUME NEW who, NEW sp, NEW r, NEW day
  PROVE  Demanded(who, sp, r, day) = UnitsOf(pool, Booked(who, sp, r, day))
BY DEF Demanded, UnitsOf, Booked

\* Sums of whole units are whole.
LEMMA SumIsInteger ==
  ASSUME NEW p, NEW S, IsFiniteSet(S), \A i \in S : p.demands[i].units \in Int
  PROVE  UnitsOf(p, S) \in Int
<1> DEFINE w == [i \in S |-> p.demands[i].units]
<1>1. UnitsOf(p, S) = SumOver(w, S)
  BY UnitsAreASum
<1>2. \A i \in S : w[i] \in Int
  OBVIOUS
<1> HIDE DEF w
<1> QED BY <1>1, <1>2, SumIsWhole

\* One more demand adds its units.
LEMMA SumTakesOne ==
  ASSUME NEW p, NEW S, IsFiniteSet(S), \A i \in S : p.demands[i].units \in Int, NEW any \in S
  PROVE  UnitsOf(p, S) = UnitsOf(p, S \ {any}) + p.demands[any].units
<1> DEFINE w == [i \in S |-> p.demands[i].units]
           v == [i \in S \ {any} |-> p.demands[i].units]
<1>1. IsFiniteSet(S \ {any})
  BY FS_Subset
<1>2. UnitsOf(p, S) = SumOver(w, S) /\ UnitsOf(p, S \ {any}) = SumOver(v, S \ {any})
  BY <1>1, UnitsAreASum
<1>3. (\A i \in S : w[i] \in Int) /\ w[any] = p.demands[any].units
  OBVIOUS
<1>4. \A i \in S \ {any} : w[i] = v[i]
  OBVIOUS
<1> HIDE DEF w, v
<1>5. SumOver(w, S) = SumOver(w, S \ {any}) + w[any]
  BY <1>3, SumTakesAny
<1>6. SumOver(w, S \ {any}) = SumOver(v, S \ {any})
  BY <1>1, <1>4, SumAgrees
<1> QED BY <1>2, <1>3, <1>5, <1>6

-----------------------------------------------------------------------------
\* Capacity.  While work is placed, a resource is within its capacity on every
\* day on which nobody asks for it whom the leveller does not check.

AllDays == UNION {Days(a) : a \in Node}

Unsteered(a) == a \in unfit \/ Pinned(a) \/ Unchecked(a)

Asks(a, r, day) ==
  /\ \E i \in Rows(a) : pool.demands[i].res = r
  /\ day \in DaysWorked(a, span[a])

Steered(r, day) == \A a \in Node : IsPlaced(a) /\ Unsteered(a) => ~Asks(a, r, day)

PoolAccepted ==
  /\ stage \in {"waiting", "placing", "levelled"}
  /\ DOMAIN span = Node
  /\ stage # "waiting" => pool \in Requests
  /\ stage = "levelled" => \A a \in Node : IsPlaced(a)

WithinCapacity ==
  stage # "waiting" =>
    \A r \in DOMAIN pool.cap : \A day \in AllDays :
      Steered(r, day) => Used(r, day) <= Available(r, day)

CapacityInv == IsNetwork /\ PoolAccepted /\ WithinCapacity

\* What is used is the sum of the demands booked, and a resource is never less
\* than absent.
LEMMA SumsAreWhole ==
  ASSUME pool \in Requests, NEW r, NEW day
  PROVE  /\ Used(r, day) = UnitsOf(pool, Booked(Holding, span, r, day))
         /\ Used(r, day) \in Int
         /\ IsFiniteSet(DOMAIN pool.demands)
         /\ \A i \in DOMAIN pool.demands : pool.demands[i].units \in Int
         /\ r \in DOMAIN pool.cap => Available(r, day) \in Nat
<1>1. /\ IsFiniteSet(DOMAIN pool.demands)
      /\ \A i \in DOMAIN pool.demands : pool.demands[i].units \in Int
  BY LevellingAssumption DEF LevellingAssumption
<1>2. Used(r, day) = UnitsOf(pool, Booked(Holding, span, r, day))
  BY DemandIsASum DEF Used
<1>3. UnitsOf(pool, Booked(Holding, span, r, day)) \in Int
  <2>1. /\ Booked(Holding, span, r, day) \in SUBSET DOMAIN pool.demands
        /\ IsFiniteSet(Booked(Holding, span, r, day))
    BY <1>1, FS_Subset DEF Booked
  <2> QED BY <1>1, <2>1, SumIsInteger
<1>4. r \in DOMAIN pool.cap => Available(r, day) \in Nat
  BY LevellingAssumption DEF LevellingAssumption, Available
<1> QED BY <1>1, <1>2, <1>3, <1>4

\* The same of the state after a step.
LEMMA UsedNext ==
  ASSUME NEW r, NEW day
  PROVE  Used(r, day)' = UnitsOf(pool', Booked(Holding, span, r, day)')
BY DEF Used, Demanded, UnitsOf, Booked, MapThenSumSet, MapThenFoldSet

\* The first of the spans that fit is one of them.
LEMMA SettledFits ==
  ASSUME IsNetwork, NEW a \in Node, NEW earliest, NEW fitting,
         fitting \subseteq SpansTried(a, earliest), fitting # {}, ~GoesInFreely(a)
  PROVE  /\ Settled(a, earliest, fitting) \in fitting
         /\ Settled(a, earliest, fitting)[1] \in Days(a)
<1> DEFINE K == {t[1] : t \in fitting}
<1>1. \A t \in fitting : t[1] \in Days(a)
  BY DEF SpansTried, SpanFrom, DaysTried
<1>2. K \in SUBSET Days(a) /\ K # {} /\ IsLattice(Days(a))
  BY <1>1, ActivityFacts
<1>3. K \in SUBSET Int /\ IsFiniteSet(K)
  BY <1>2, FS_Subset DEF IsLattice
<1>4. PICK x \in K : \A y \in K : x <= y
  <2> HIDE DEF K
  <2> QED BY <1>2, <1>3, HasLeast
<1>5. \E t \in fitting : \A other \in fitting : t[1] <= other[1]
  BY <1>4
<1>6. Settled(a, earliest, fitting) = CHOOSE t \in fitting : \A other \in fitting : t[1] <= other[1]
  BY DEF Settled
<1> QED BY <1>1, <1>5, <1>6

\* What one placement does: the next activity gets a span that either nobody
\* checks, or on which nothing is overdrawn, or it is reported as unfit.
LEMMA PlaceFacts ==
  ASSUME IsNetwork, Place
  PROVE  /\ stage = "placing" /\ stage' = stage /\ pool' = pool
         /\ \E a \in Node : \E sp :
              /\ a \in Candidates /\ ~IsPlaced(a)
              /\ span' = [span EXCEPT ![a] = sp]
              /\ \/ unfit' = unfit /\ (GoesInFreely(a) \/ Refused(a, sp) = {})
                 \/ unfit' = unfit \cup {a}
<1>1. stage = "placing" /\ stage' = stage /\ pool' = pool
  BY DEF Place
<1>2. PICK a \in Node :
        /\ IsNextInLine(a)
        /\ \E earliest, tried, fitting, sp :
             /\ tried = SpansTried(a, earliest)
             /\ fitting = {t \in tried : Refused(a, t) = {}}
             /\ sp = Settled(a, earliest, fitting)
             /\ span' = [span EXCEPT ![a] = sp]
             /\ unfit' = IF GoesInFreely(a) \/ fitting # {} THEN unfit ELSE unfit \cup {a}
  BY DEF Place
<1>3. a \in Candidates /\ ~IsPlaced(a)
  BY <1>2 DEF IsNextInLine, Placeable
<1>4. PICK earliest, tried, fitting, sp :
             /\ tried = SpansTried(a, earliest)
             /\ fitting = {t \in tried : Refused(a, t) = {}}
             /\ sp = Settled(a, earliest, fitting)
             /\ span' = [span EXCEPT ![a] = sp]
             /\ unfit' = IF GoesInFreely(a) \/ fitting # {} THEN unfit ELSE unfit \cup {a}
  BY <1>2
<1>5. ASSUME ~GoesInFreely(a), fitting # {}
      PROVE  Refused(a, sp) = {}
  <2>1. fitting \subseteq SpansTried(a, earliest)
    BY <1>4
  <2>2. sp \in fitting
    BY <1>4, <1>5, <2>1, SettledFits
  <2> QED BY <1>4, <2>2
<1> QED BY <1>1, <1>3, <1>4, <1>5

\* Placing one activity keeps every resource within its capacity: the demands
\* it books are those that were checked.
LEMMA PlaceKeepsCapacity ==
  ASSUME CapacityInv, Place, net' = net
  PROVE  WithinCapacity'
<1>1. /\ IsNetwork /\ DOMAIN span = Node /\ WithinCapacity
      /\ stage = "placing" /\ stage' = stage /\ pool' = pool /\ pool \in Requests
  BY PlaceFacts DEF CapacityInv, PoolAccepted
<1>0. PICK a \in Node : \E sp :
        /\ a \in Candidates /\ ~IsPlaced(a)
        /\ span' = [span EXCEPT ![a] = sp]
        /\ \/ unfit' = unfit /\ (GoesInFreely(a) \/ Refused(a, sp) = {})
           \/ unfit' = unfit \cup {a}
  BY <1>1, PlaceFacts
<1>2. PICK sp :
        /\ a \in Candidates /\ ~IsPlaced(a)
        /\ span' = [span EXCEPT ![a] = sp]
        /\ \/ unfit' = unfit /\ (GoesInFreely(a) \/ Refused(a, sp) = {})
           \/ unfit' = unfit \cup {a}
  BY <1>0
<1>3. /\ span'[a] = sp /\ DOMAIN span' = Node
      /\ \A b \in Node \ {a} : span'[b] = span[b]
      /\ unfit \subseteq unfit'
  BY <1>1, <1>2
<1>4. \A b \in Node : /\ Days(b)' = Days(b) /\ Task(b)' = Task(b) /\ Rows(b)' = Rows(b)
                      /\ Pinned(b)' = Pinned(b) /\ Unchecked(b)' = Unchecked(b)
  BY <1>1 DEF Days, Task, Rows, Pinned, Unchecked, IsStarted, IsComplete
<1>5. SUFFICES ASSUME NEW r \in DOMAIN pool.cap, NEW day \in AllDays, Steered(r, day)'
               PROVE  Used(r, day)' <= Available(r, day)'
  <2>1. AllDays' = AllDays
    BY <1>4 DEF AllDays
  <2> QED BY <1>1, <2>1 DEF WithinCapacity
<1>6. Available(r, day)' = Available(r, day)
  BY <1>1 DEF Available
<1>7. ASSUME NEW b \in Node \ {a}
      PROVE  /\ IsPlaced(b)' <=> IsPlaced(b)
             /\ Asks(b, r, day)' <=> Asks(b, r, day)
  BY <1>1, <1>3, <1>4 DEF IsPlaced, Asks, DaysWorked
<1>8. Steered(r, day)
  <2> SUFFICES ASSUME NEW b \in Node, IsPlaced(b), Unsteered(b) PROVE ~Asks(b, r, day)
    BY DEF Steered
  <2>1. b # a
    BY <1>2
  <2>2. IsPlaced(b)' /\ Unsteered(b)'
    BY <1>3, <1>4, <1>7, <2>1 DEF Unsteered
  <2> QED BY <1>5, <1>7, <2>1, <2>2 DEF Steered
<1>9. Used(r, day) <= Available(r, day)
  BY <1>1, <1>5, <1>8 DEF WithinCapacity
<1> DEFINE before == Booked(Holding, span, r, day)
<1>10. /\ Used(r, day) = UnitsOf(pool, before)
       /\ Used(r, day) \in Int /\ Available(r, day) \in Nat
       /\ IsFiniteSet(DOMAIN pool.demands)
       /\ \A i \in DOMAIN pool.demands : pool.demands[i].units \in Int
  BY <1>1, SumsAreWhole
<1> DEFINE Mine == {i \in Rows(a) : /\ pool.demands[i].res = r
                                    /\ day \in DaysWorked(a, sp) /\ sp # None}
<1>11. Booked(Holding, span, r, day)' = before \cup Mine
  <2>1. ASSUME NEW i \in DOMAIN pool.demands
        PROVE  i \in Booked(Holding, span, r, day)' <=> i \in before \cup Mine
    <3>0. PICK b : b = pool.demands[i].act
      OBVIOUS
    <3>1. CASE b = a
      <4>1. i \notin before
        BY <1>2, <3>0, <3>1 DEF Booked, Holding
      <4>2. ~IsComplete(Task(a))
        BY <1>2 DEF Candidates, Pinned
      <4> QED BY <1>1, <1>2, <1>3, <1>4, <3>0, <3>1, <4>1, <4>2
              DEF Booked, Holding, IsPlaced, Rows, DaysWorked, IsComplete
    <3>2. CASE b # a
      <4>1. i \notin Mine
        BY <3>0, <3>2 DEF Rows
      <4>2. CASE b \in Node
        <5>1. /\ span'[b] = span[b] /\ Days(b)' = Days(b) /\ Task(b)' = Task(b)
          BY <1>3, <1>4, <3>2, <4>2
        <5>2. b \in Holding' <=> b \in Holding
          BY <5>1, <4>2 DEF Holding, IsPlaced, IsComplete
        <5>3. DaysWorked(b, span[b])' = DaysWorked(b, span[b])
          BY <5>1 DEF DaysWorked
        <5> QED BY <1>1, <3>0, <4>1, <5>2, <5>3 DEF Booked
      <4>3. CASE b \notin Node
        BY <1>1, <3>0, <4>1, <4>3 DEF Booked, Holding
      <4> QED BY <4>2, <4>3
    <3> QED BY <3>1, <3>2
  <2>2. Booked(Holding, span, r, day)' \subseteq DOMAIN pool.demands
    BY <1>1 DEF Booked
  <2>3. before \cup Mine \subseteq DOMAIN pool.demands
    BY DEF Booked, Rows
  <2> HIDE DEF before, Mine
  <2> QED BY <2>1, <2>2, <2>3
<1>12. Used(r, day)' = UnitsOf(pool, before \cup Mine)
  BY <1>1, <1>11, UsedNext
<1>13. CASE Mine = {}
  <2>1. before \cup Mine = before
    BY <1>13
  <2> QED BY <1>6, <1>9, <1>10, <1>12, <2>1
<1>14. CASE Mine # {}
  <2>1. PICK i \in Mine : TRUE
    BY <1>14
  <2>2. /\ i \in Rows(a) /\ pool.demands[i].res = r
        /\ day \in DaysWorked(a, sp) /\ sp # None
    BY <2>1
  <2>3. IsPlaced(a)' /\ Asks(a, r, day)'
    BY <1>1, <1>3, <1>4, <2>2 DEF IsPlaced, Asks, DaysWorked
  <2>4. ~Unsteered(a)'
    BY <1>5, <2>3 DEF Steered
  <2>5. a \notin unfit' /\ ~Unchecked(a)
    BY <1>4, <2>4 DEF Unsteered
  <2>6. /\ Task(a).dur # 0
        /\ \A j \in Rows(a) : pool.demands[j].res = r => j = i
    BY <2>2, <2>5 DEF Unchecked
  <2>7. Refused(a, sp) = {}
    BY <1>2, <2>2, <2>5, <2>6 DEF GoesInFreely
  <2>8. ~Overdrawn(a, day, i)
    <3>1. <<day, i>> \in DaysWorked(a, sp) \X Rows(a) /\ <<day, i>>[1] = day /\ <<day, i>>[2] = i
      BY <2>2
    <3> QED BY <2>7, <3>1 DEF Refused
  <2>9. ~(Used(r, day) + pool.demands[i].units > Available(r, day))
    BY <2>2, <2>8, <1>5 DEF Overdrawn
  <2>10. Mine = {i}
    BY <2>1, <2>6
  <2>11. i \in DOMAIN pool.demands /\ i \notin before
    BY <1>2, <2>2 DEF Rows, Booked, Holding
  <2>12. UnitsOf(pool, before \cup {i}) = UnitsOf(pool, before) + pool.demands[i].units
    <3>1. before \cup {i} \subseteq DOMAIN pool.demands
      BY <2>11 DEF Booked
    <3>2. IsFiniteSet(before \cup {i}) /\ (before \cup {i}) \ {i} = before
      BY <1>10, <2>11, <3>1, FS_Subset
    <3>3. \A j \in before \cup {i} : pool.demands[j].units \in Int
      BY <1>10, <3>1
    <3> HIDE DEF before
    <3>4. UnitsOf(pool, before \cup {i})
            = UnitsOf(pool, (before \cup {i}) \ {i}) + pool.demands[i].units
      BY <3>2, <3>3, SumTakesOne
    <3> QED BY <3>2, <3>4
  <2>13. Used(r, day)' = Used(r, day) + pool.demands[i].units
    BY <1>10, <1>12, <2>10, <2>12
  <2>14. pool.demands[i].units \in Int
    BY <1>10, <2>11
  <2> QED BY <1>6, <1>10, <2>9, <2>13, <2>14
<1> QED BY <1>13, <1>14

\* When levelling starts, only work that is not moved is placed, and on a day it
\* does not ask for, nothing is used.
LEMMA StartKeepsCapacity ==
  ASSUME CapacityInv, NEW request \in Requests, StartLevelling(request), net' = net
  PROVE  (PoolAccepted /\ WithinCapacity)'
<1>1. /\ stage' = "placing" /\ pool' = request /\ pool' \in Requests
      /\ span' = [a \in Node |-> IF Pinned(a) THEN Shown(a) ELSE None]
  BY DEF StartLevelling
<1>2. PoolAccepted'
  BY <1>1 DEF PoolAccepted
<1>3. SUFFICES ASSUME NEW r \in DOMAIN pool'.cap, NEW day, Steered(r, day)'
               PROVE  Used(r, day)' <= Available(r, day)'
  BY <1>2 DEF WithinCapacity
<1>4. \A a \in Node : IsPlaced(a)' => Pinned(a)'
  BY <1>1 DEF IsPlaced, Pinned, Task, IsStarted, IsComplete
<1>5. \A a \in Node : IsPlaced(a)' => ~Asks(a, r, day)'
  BY <1>3, <1>4 DEF Steered, Unsteered
<1>6. Booked(Holding, span, r, day)' = {}
  BY <1>5 DEF Booked, Holding, Asks, Rows
<1>7. Used(r, day)' = UnitsOf(pool', {})
  BY <1>6, UsedNext
<1>8. UnitsOf(pool', {}) = 0
  BY UnitsAreASum, SumOfNone, FS_EmptySet
<1>9. Available(r, day)' \in Nat
  BY <1>1, LevellingAssumption DEF LevellingAssumption, Available
<1> QED BY <1>7, <1>8, <1>9

\* A step that moves no work changes neither what is used nor what there is.
LEMMA NothingMoves ==
  ASSUME pool \in Requests, net' = net, UNCHANGED <<pool, span, unfit>>, WithinCapacity,
         stage # "waiting"
  PROVE  WithinCapacity'
<1>1. \A a \in Node : /\ IsPlaced(a)' <=> IsPlaced(a)
                      /\ Unsteered(a)' <=> Unsteered(a)
                      /\ \A r, day : Asks(a, r, day)' <=> Asks(a, r, day)
  BY DEF IsPlaced, Unsteered, Asks, Pinned, Unchecked, Rows, DaysWorked, Task, Days,
         IsStarted, IsComplete
<1>2. AllDays' = AllDays
  BY DEF AllDays, Days, Task
<1>3. ASSUME NEW r, NEW day
      PROVE  /\ Steered(r, day)' <=> Steered(r, day)
             /\ Used(r, day)' = Used(r, day)
             /\ Available(r, day)' = Available(r, day)
  <2>1. Steered(r, day)' <=> Steered(r, day)
    BY <1>1 DEF Steered
  <2>2. Booked(Holding, span, r, day)' = Booked(Holding, span, r, day)
    BY DEF Booked, Holding, IsPlaced, DaysWorked, Task, Days, IsComplete
  <2>3. Used(r, day)' = UnitsOf(pool, Booked(Holding, span, r, day))
    BY <2>2, UsedNext
  <2>4. Used(r, day) = UnitsOf(pool, Booked(Holding, span, r, day))
    BY SumsAreWhole
  <2>5. Available(r, day)' = Available(r, day)
    BY DEF Available
  <2> QED BY <2>1, <2>3, <2>4, <2>5
<1> QED BY <1>2, <1>3 DEF WithinCapacity

\* Every step keeps the invariant.
LEMMA CapacityStep ==
  ASSUME CapacityInv, [LevellingNext]_<<vars, kind, levelVars>>
  PROVE  CapacityInv'
<1>1. net' = net
  <2>1. CASE CPMNext
    BY <2>1, StepsKeepTheNetwork
  <2>2. CASE LevelNext
    BY <2>2 DEF LevelNext, vars, cpmVars
  <2>3. CASE UNCHANGED <<vars, kind, levelVars>>
    BY <2>3 DEF vars, cpmVars
  <2> QED BY <2>1, <2>2, <2>3 DEF LevellingNext
<1>2. IsNetwork'
  BY <1>1 DEF CapacityInv, IsNetwork, Task, Link
<1>3. CASE UNCHANGED levelVars
  <2>1. /\ UNCHANGED <<pool, stage, span, unfit>>
        /\ PoolAccepted /\ WithinCapacity
    BY <1>3 DEF levelVars, CapacityInv
  <2>2. PoolAccepted'
    BY <2>1 DEF PoolAccepted, IsPlaced
  <2>3. WithinCapacity'
    BY <1>1, <2>1, NothingMoves DEF PoolAccepted, WithinCapacity
  <2> QED BY <1>2, <2>2, <2>3 DEF CapacityInv
<1>4. ASSUME NEW request \in Requests, StartLevelling(request)
      PROVE  CapacityInv'
  BY <1>1, <1>2, <1>4, StartKeepsCapacity DEF CapacityInv
<1>5. CASE Place
  <2>1. WithinCapacity'
    BY <1>1, <1>5, PlaceKeepsCapacity
  <2>2. PoolAccepted'
    <3>1. stage = "placing" /\ stage' = stage /\ pool' = pool
      BY <1>5, PlaceFacts DEF CapacityInv
    <3>2. DOMAIN span' = DOMAIN span
      BY <1>5, PlaceFacts DEF CapacityInv
    <3> QED BY <3>1, <3>2 DEF CapacityInv, PoolAccepted
  <2> QED BY <1>2, <2>1, <2>2 DEF CapacityInv
<1>6. CASE Report
  <2>1. /\ stage = "placing" /\ stage' = "levelled" /\ UNCHANGED <<pool, span, unfit>>
        /\ \A a \in Node : IsPlaced(a)
    BY <1>6 DEF Report
  <2>2. PoolAccepted'
    BY <2>1 DEF CapacityInv, PoolAccepted, IsPlaced
  <2>3. WithinCapacity'
    BY <1>1, <2>1, NothingMoves DEF CapacityInv, PoolAccepted
  <2> QED BY <1>2, <2>2, <2>3 DEF CapacityInv
<1> QED BY <1>3, <1>4, <1>5, <1>6 DEF LevellingNext, LevelNext, levelVars

\* The capacity invariant, once everything is placed, says what is promised.
LEMMA CapacityIsEnough ==
  ASSUME CapacityInv
  PROVE  NothingOverbooked
<1> SUFFICES ASSUME stage = "levelled", NEW rd \in OverAllocations(span)
             PROVE  \E a \in Node : /\ a \in unfit \/ Pinned(a) \/ Unchecked(a)
                                    /\ \E i \in Rows(a) : pool.demands[i].res = rd[1]
                                    /\ rd[2] \in DaysWorked(a, span[a])
  BY DEF NothingOverbooked
<1>1. /\ pool \in Requests /\ WithinCapacity /\ \A a \in Node : IsPlaced(a)
  BY DEF CapacityInv, PoolAccepted
<1>2. /\ rd[1] \in DOMAIN pool.cap /\ rd[2] \in AllDays
      /\ Demanded({a \in Node : ~IsComplete(Task(a))}, span, rd[1], rd[2])
           > Available(rd[1], rd[2])
  BY DEF OverAllocations, AllDays
<1>3. Holding = {a \in Node : ~IsComplete(Task(a))}
  BY <1>1 DEF Holding
<1>4. Used(rd[1], rd[2]) > Available(rd[1], rd[2])
  BY <1>2, <1>3 DEF Used
<1>5. Used(rd[1], rd[2]) \in Int /\ Available(rd[1], rd[2]) \in Nat
  BY <1>1, <1>2, SumsAreWhole
<1>6. ~Steered(rd[1], rd[2])
  BY <1>1, <1>2, <1>4, <1>5 DEF WithinCapacity
<1> QED BY <1>6 DEF Steered, Unsteered, Asks

\* While work is placed, the capacity invariant holds.
LEMMA CapacityHolds == LevellingSpec => []CapacityInv
<1>1. IsNetwork /\ LevelInit => CapacityInv
  BY DEF LevelInit, CapacityInv, PoolAccepted, WithinCapacity
<1>2. CapacityInv /\ [LevellingNext]_<<vars, kind, levelVars>> => CapacityInv'
  BY CapacityStep
<1> QED BY <1>1, <1>2, PTL DEF LevellingSpec

\* Levelled work overbooks nothing, whatever the network, the resources with
\* their calendars and exceptions, the demands and the horizon: on a day a
\* resource is overbooked, work asks for it that the leveller may not move, could
\* not fit, or does not check (levelling.py:483-574).
THEOREM LevelledWorkFits == LevellingSpec => []NothingOverbooked
<1>1. CapacityInv => NothingOverbooked
  BY CapacityIsEnough
<1> QED BY <1>1, CapacityHolds, PTL

-----------------------------------------------------------------------------
\* The logic of levelled work.

\* What is placed has instants, and what the leveller may not move is placed first.
PlacedAsInstants ==
  /\ DOMAIN span = Node /\ DOMAIN inst = Node
  /\ stage = "waiting" => \A a \in Node : ~IsPlaced(a)
  /\ stage # "waiting" => phase = "done" /\ \A a \in Node : Pinned(a) => IsPlaced(a)
  /\ \A a \in Node : IsPlaced(a) => inst[a][1] \in Int /\ inst[a][2] \in Int

\* Among finitely many numbered values there is a greatest, and a first of those.
LEMMA FirstOfTheGreatest ==
  ASSUME NEW K \in SUBSET Int, IsFiniteSet(K), K # {}, NEW f \in [K -> Int]
  PROVE  \E t \in K : \A j \in K : f[j] < f[t] \/ (f[j] = f[t] /\ t <= j)
<1> DEFINE Ahead(k) == {j \in K : f[k] < f[j] \/ (f[k] = f[j] /\ j < k)}
           B == {Ahead(k) : k \in K}
<1>1. PICK T \in B : IsMinimal(T, B)
  <2>1. B \subseteq SUBSET K
    OBVIOUS
  <2>2. \A k \in K : Ahead(k) \in B
    OBVIOUS
  <2> HIDE DEF B, Ahead
  <2>3. B # {}
    BY <2>2
  <2> QED BY <2>1, <2>3, SmallestSubset, Zenon
<1>2. PICK t \in K : T = Ahead(t)
  OBVIOUS
<1>3. ASSUME NEW y \in K, y \in Ahead(t) PROVE FALSE
  <2>1. y \notin Ahead(y)
    OBVIOUS
  <2>2. \A z \in K : z \in Ahead(y) => z \in Ahead(t)
    BY <1>3
  <2>3. Ahead(y) \subseteq T /\ Ahead(y) # T
    BY <1>2, <1>3, <2>1, <2>2
  <2>4. Ahead(y) \in B
    OBVIOUS
  <2> HIDE DEF Ahead, B
  <2> QED BY <1>1, <2>3, <2>4 DEF IsMinimal
<1> QED BY <1>3

\* The bounds of the placed predecessors, and the latest of them.
LEMMA BindersBind ==
  ASSUME IsNetwork, PlacedAsInstants, NEW a \in Node,
         NEW k \in DOMAIN net.links, Link(k).succ = a, IsPlaced(Link(k).pred)
  PROVE  /\ LevelledBound(k) \in Int
         /\ \E t \in Binding(a) : LevelledBound(t) \in Int /\ LevelledBound(k) <= LevelledBound(t)
<1> DEFINE K == {j \in DOMAIN net.links : Link(j).succ = a /\ IsPlaced(Link(j).pred)}
           f == [j \in K |-> LevelledBound(j)]
<1>1. \A j \in K : LevelledBound(j) \in Int
  <2> SUFFICES ASSUME NEW j \in K PROVE LevelledBound(j) \in Int
    OBVIOUS
  <2>1. Link(j) \in ALink /\ Link(j).pred \in Node
    BY DEF IsNetwork, Link, ALink
  <2>2. inst[Link(j).pred][1] \in Int /\ inst[Link(j).pred][2] \in Int
    BY <2>1 DEF PlacedAsInstants
  <2> QED BY <2>1, <2>2, ForwardBoundIsInteger DEF LevelledBound
<1>2. K \in SUBSET Int /\ IsFiniteSet(K) /\ k \in K
  <2>1. K \in SUBSET (DOMAIN net.links) /\ DOMAIN net.links \subseteq Int
    BY DEF IsNetwork
  <2>2. IsFiniteSet(DOMAIN net.links)
    BY DEF IsNetwork
  <2> HIDE DEF K
  <2>3. IsFiniteSet(K)
    BY <2>1, <2>2, FS_Subset
  <2>4. k \in K
    BY DEF K
  <2> QED BY <2>1, <2>3, <2>4
<1>3. f \in [K -> Int] /\ \A j \in K : f[j] = LevelledBound(j)
  BY <1>1
<1>4. PICK t \in K : \A j \in K : f[j] < f[t] \/ (f[j] = f[t] /\ t <= j)
  <2> HIDE DEF f, K
  <2> QED BY <1>2, <1>3, FirstOfTheGreatest
<1>5. t \in Binding(a)
  <2>1. t \in DOMAIN net.links /\ Link(t).succ = a /\ IsPlaced(Link(t).pred)
    OBVIOUS
  <2>2. ASSUME NEW j \in DOMAIN net.links, Link(j).succ = a, IsPlaced(Link(j).pred)
        PROVE  \/ LevelledBound(j) < LevelledBound(t)
               \/ LevelledBound(j) = LevelledBound(t) /\ t <= j
    <3>1. j \in K
      BY <2>2
    <3> HIDE DEF f, K
    <3> QED BY <1>3, <1>4, <3>1
  <2> HIDE DEF f, K
  <2> QED BY <2>1, <2>2 DEF Binding
<1> HIDE DEF f, K
<1>6. f[k] = LevelledBound(k) /\ f[t] = LevelledBound(t)
  BY <1>2, <1>3, <1>4
<1>7. PICK x \in Int, y \in Int : x = f[k] /\ y = f[t]
  BY <1>2, <1>3, <1>4
<1>8. x <= y
  <2>1. x < y \/ x = y
    BY <1>2, <1>4, <1>7
  <2> QED BY <2>1
<1> QED BY <1>5, <1>6, <1>7, <1>8

\* Only one predecessor binds.
LEMMA OneBinder ==
  ASSUME IsNetwork, PlacedAsInstants, NEW a \in Node, NEW t \in Binding(a), NEW u \in Binding(a)
  PROVE  t = u /\ LevelledBound(t) \in Int
<1>1. /\ t \in DOMAIN net.links /\ Link(t).succ = a /\ IsPlaced(Link(t).pred)
      /\ u \in DOMAIN net.links /\ Link(u).succ = a /\ IsPlaced(Link(u).pred)
  BY DEF Binding
<1>2. LevelledBound(t) \in Int /\ LevelledBound(u) \in Int /\ t \in Int /\ u \in Int
  BY <1>1, BindersBind DEF IsNetwork
<1>3. LevelledBound(t) < LevelledBound(u) \/ (LevelledBound(t) = LevelledBound(u) /\ u <= t)
  BY <1>1 DEF Binding
<1>4. LevelledBound(u) < LevelledBound(t) \/ (LevelledBound(u) = LevelledBound(t) /\ t <= u)
  BY <1>1 DEF Binding
<1> QED BY <1>2, <1>3, <1>4

\* The day the search starts from is neither before the day the calculation
\* shows nor before what any placed predecessor allows.
LEMMA EarliestIsAFloor ==
  ASSUME IsNetwork, PlacedAsInstants, NEW a \in Node, Shown(a)[1] \in Int,
         NEW earliest, earliest = Max(PrecedenceFloor(a) \cup {Shown(a)[1]})
  PROVE  /\ earliest \in Int /\ earliest >= Shown(a)[1]
         /\ \A k \in DOMAIN net.links :
              Link(k).succ = a /\ IsPlaced(Link(k).pred) => LevelledBound(k) <= earliest
<1>1. IsLattice(Days(a))
  BY ActivityFacts
<1>2. CASE Binding(a) = {}
  <2>1. PrecedenceFloor(a) \cup {Shown(a)[1]} = {Shown(a)[1]}
    BY <1>2 DEF PrecedenceFloor
  <2>2. earliest = Shown(a)[1]
    BY <2>1 DEF Max
  <2>3. \A k \in DOMAIN net.links : ~(Link(k).succ = a /\ IsPlaced(Link(k).pred))
    BY <1>2, BindersBind
  <2> QED BY <2>2, <2>3
<1>3. CASE Binding(a) # {}
  <2>1. PICK t \in Binding(a) : TRUE
    BY <1>3
  <2>2. Binding(a) = {t} /\ LevelledBound(t) \in Int
    BY <2>1, OneBinder
  <2>3. PICK floor \in Int : floor = SnapStartForward(Days(a), LevelledBound(t))
                             /\ floor >= LevelledBound(t)
    BY <1>1, <2>2, SnapForwardMovesForward
  <2>4. PrecedenceFloor(a) \cup {Shown(a)[1]} = {floor, Shown(a)[1]}
    BY <2>2, <2>3 DEF PrecedenceFloor
  <2>5. /\ earliest \in {floor, Shown(a)[1]}
        /\ earliest >= floor /\ earliest >= Shown(a)[1]
    <3>1. \E x \in {floor, Shown(a)[1]} : \A y \in {floor, Shown(a)[1]} : x >= y
      OBVIOUS
    <3>2. earliest = CHOOSE x \in {floor, Shown(a)[1]} : \A y \in {floor, Shown(a)[1]} : x >= y
      BY <2>4 DEF Max
    <3> QED BY <3>1, <3>2
  <2>6. \A k \in DOMAIN net.links :
          Link(k).succ = a /\ IsPlaced(Link(k).pred) =>
            LevelledBound(k) \in Int /\ LevelledBound(k) <= LevelledBound(t)
    BY <2>2, BindersBind
  <2> QED BY <2>2, <2>3, <2>5, <2>6
<1> QED BY <1>2, <1>3

\* Wherever an activity is put, it is not before the day the search starts from.
LEMMA SettledIsNotEarly ==
  ASSUME IsNetwork, NEW a \in Node, NEW earliest \in Int,
         NEW fitting, fitting \subseteq SpansTried(a, earliest),
         NEW sp, sp = Settled(a, earliest, fitting)
  PROVE  sp[1] \in Int /\ sp[1] >= earliest
<1>1. IsLattice(Days(a))
  BY ActivityFacts
<1>2. PICK from \in Int : from = SnapStartForward(Days(a), earliest) /\ from >= earliest
  BY <1>1, SnapForwardMovesForward
<1>3. CASE GoesInFreely(a)
  BY <1>3 DEF Settled, SpanFrom
<1>4. CASE ~GoesInFreely(a) /\ fitting # {}
  <2>1. sp \in fitting /\ sp[1] \in Days(a)
    BY <1>4, SettledFits
  <2>2. PICK d \in DaysTried(a, from, LatestAllowed(a)) : sp = SpanFrom(a, d)
    BY <1>2, <2>1 DEF SpansTried
  <2>3. d \in from..LatestAllowed(a) /\ d \in Int
    BY <1>1, <2>2 DEF DaysTried, IsLattice
  <2>4. d >= from
    BY <2>3
  <2>5. sp[1] = d
    BY <2>2 DEF SpanFrom
  <2> QED BY <1>2, <2>3, <2>4, <2>5
<1>5. CASE ~GoesInFreely(a) /\ fitting = {}
  BY <1>5 DEF Settled, SpanFrom
<1> QED BY <1>3, <1>4, <1>5

\* The day an activity shows, once it is dated.
LEMMA ShownIsADay ==
  ASSUME Structure, phase = "done", NEW a \in Node
  PROVE  /\ es[a] \in Int /\ ef[a] \in Int
         /\ Shown(a) \in Int \X Int /\ Shown(a)[1] \in Int
<1>1. es[a] \in Int /\ ef[a] \in Int
  BY DEF Structure, PhaseOrder, DatesTyped, MaybeInt, Passes
<1>2. IsLattice(Days(a))
  BY ActivityFacts DEF Structure, NetworkFixed
<1>3. SnapStartBack(Days(a), es[a] - 1) \in Int
  BY <1>1, <1>2, SnapBackMovesBack
<1>4. Shown(a) \in Int \X Int
  BY <1>1, <1>3 DEF Shown, Present
<1> QED BY <1>1, <1>4

LogicInv == Structure /\ PlacedAsInstants /\ LogicSurvives

\* A calculation that is over moves nothing more.
LEMMA CalculationIsOver ==
  ASSUME phase = "done", [CPMNext]_vars
  PROVE  UNCHANGED vars
BY DEF CPMNext, Validate, Sort, StartForward, Forward, KeepActuals, ConsiderPredecessor,
   PlaceEarly, SetDeadline, Backward, KeepActualsLate, ConsiderSuccessor, PlaceLate,
   StartPostPass, PostPass, SlideLate, StartFloat, MeasureFloat, Return, vars, cpmVars

\* Placing work keeps the logic: its own, and that of what is placed already.
LEMMA PlaceKeepsLogic ==
  ASSUME LogicInv, Place, UNCHANGED <<vars, kind>>
  PROVE  (PlacedAsInstants /\ LogicSurvives)'
<1>1. /\ Structure /\ IsNetwork /\ DOMAIN span = Node /\ DOMAIN inst = Node
      /\ stage = "placing" /\ stage' = stage /\ phase = "done"
      /\ \A b \in Node : Pinned(b) => IsPlaced(b)
  BY DEF LogicInv, Place, PlacedAsInstants, Structure, NetworkFixed
<1>0. PICK a \in Node :
        /\ IsNextInLine(a)
        /\ \E earliest \in {Max(PrecedenceFloor(a) \cup {Shown(a)[1]})} :
           \E tried \in {SpansTried(a, earliest)} :
           \E fitting \in {{sp \in tried : Refused(a, sp) = {}}} :
           \E sp \in {Settled(a, earliest, fitting)} :
             LET from == SnapStartForward(Days(a), sp[1])
             IN  /\ span' = [span EXCEPT ![a] = sp]
                 /\ inst' = [inst EXCEPT ![a] =
                               <<from, FinishFromStart(Days(a), from, Task(a).dur)>>]
  BY ZenonT(60) DEF Place
<1>2. Placeable(a)
  BY <1>0 DEF IsNextInLine
<1>3. PICK earliest, fitting, sp, from, finish :
        /\ earliest = Max(PrecedenceFloor(a) \cup {Shown(a)[1]})
        /\ fitting \subseteq SpansTried(a, earliest)
        /\ sp = Settled(a, earliest, fitting)
        /\ from = SnapStartForward(Days(a), sp[1])
        /\ finish = FinishFromStart(Days(a), from, Task(a).dur)
        /\ span' = [span EXCEPT ![a] = sp]
        /\ inst' = [inst EXCEPT ![a] = <<from, finish>>]
  <2>1. PICK earliest :
          /\ earliest = Max(PrecedenceFloor(a) \cup {Shown(a)[1]})
          /\ \E fitting \in {{sp \in SpansTried(a, earliest) : Refused(a, sp) = {}}} :
             \E sp \in {Settled(a, earliest, fitting)} :
               /\ span' = [span EXCEPT ![a] = sp]
               /\ inst' = [inst EXCEPT ![a] =
                    <<SnapStartForward(Days(a), sp[1]),
                      FinishFromStart(Days(a), SnapStartForward(Days(a), sp[1]), Task(a).dur)>>]
    BY <1>0
  <2>2. PICK fitting :
          /\ fitting \subseteq SpansTried(a, earliest)
          /\ \E sp \in {Settled(a, earliest, fitting)} :
               /\ span' = [span EXCEPT ![a] = sp]
               /\ inst' = [inst EXCEPT ![a] =
                    <<SnapStartForward(Days(a), sp[1]),
                      FinishFromStart(Days(a), SnapStartForward(Days(a), sp[1]), Task(a).dur)>>]
    BY <2>1
  <2>3. PICK sp :
          /\ sp = Settled(a, earliest, fitting)
          /\ span' = [span EXCEPT ![a] = sp]
          /\ inst' = [inst EXCEPT ![a] =
               <<SnapStartForward(Days(a), sp[1]),
                 FinishFromStart(Days(a), SnapStartForward(Days(a), sp[1]), Task(a).dur)>>]
    BY <2>2
  <2> QED BY <2>1, <2>2, <2>3
<1>4. /\ a \in Candidates /\ ~IsPlaced(a)
      /\ \A k \in DOMAIN net.links :
           Link(k).succ = a /\ Link(k).pred \in Candidates => IsPlaced(Link(k).pred)
  BY <1>2 DEF Placeable
<1>5. Shown(a)[1] \in Int /\ IsLattice(Days(a)) /\ Task(a).dur \in Int
  BY <1>1, ShownIsADay, ActivityFacts DEF Activity
<1>6. /\ earliest \in Int /\ earliest >= Shown(a)[1]
      /\ \A k \in DOMAIN net.links :
           Link(k).succ = a /\ IsPlaced(Link(k).pred) => LevelledBound(k) <= earliest
  BY <1>1, <1>3, <1>5, EarliestIsAFloor DEF LogicInv
<1>7. sp[1] \in Int /\ sp[1] >= earliest
  BY <1>1, <1>3, <1>6, SettledIsNotEarly
<1>8. from \in Int /\ from >= sp[1] /\ finish \in Int
  BY <1>3, <1>5, <1>7, SnapForwardMovesForward, SpansAreInstants
<1>9. /\ DOMAIN span' = Node /\ DOMAIN inst' = Node
      /\ span'[a] = sp /\ inst'[a] = <<from, finish>>
      /\ \A b \in Node \ {a} : span'[b] = span[b] /\ inst'[b] = inst[b]
  BY <1>1, <1>3
<1>10. \A b : /\ Task(b)' = Task(b) /\ Days(b)' = Days(b) /\ Shown(b)' = Shown(b)
              /\ Pinned(b)' = Pinned(b) /\ Link(b)' = Link(b)
  BY DEF Task, Days, Shown, Pinned, IsStarted, IsComplete, Link, vars, cpmVars, earlyVars
<1>11. net' = net /\ phase' = phase
  BY DEF vars, cpmVars
<1>12. \A b \in Node \ {a} : IsPlaced(b)' <=> IsPlaced(b)
  BY <1>9 DEF IsPlaced
<1>13. PlacedAsInstants'
  <2>1. \A b \in Node : Pinned(b)' => IsPlaced(b)'
    <3>1. ~Pinned(a)
      BY <1>4 DEF Candidates
    <3> QED BY <1>1, <1>10, <1>12, <3>1
  <2>2. \A b \in Node : IsPlaced(b)' => inst'[b][1] \in Int /\ inst'[b][2] \in Int
    BY <1>8, <1>9, <1>12 DEF LogicInv, PlacedAsInstants
  <2> QED BY <1>1, <1>9, <1>11, <2>1, <2>2 DEF PlacedAsInstants
<1>14. ASSUME NEW k \in DOMAIN net.links, Link(k).pred # a
       PROVE  LevelledBound(k)' = LevelledBound(k)
  <2>1. Link(k).pred \in Node
    BY <1>1 DEF IsNetwork, Link
  <2>2. inst'[Link(k).pred] = inst[Link(k).pred]
    BY <1>9, <1>14, <2>1
  <2> QED BY <1>11, <2>2 DEF LevelledBound, ForwardBound, AdvanceLag, LagDays, Link, Task, Days
<1>15. ASSUME NEW b \in Node, b \in Candidates, IsPlaced(b)',
              NEW k \in DOMAIN net.links, Link(k).succ = b
       PROVE  /\ IsPlaced(Link(k).pred) /\ Link(k).pred \in Node \ {a}
              /\ LevelledBound(k) <= inst'[b][1]
  <2>1. Link(k).pred \in Node
    BY <1>1 DEF IsNetwork, Link
  <2>2. CASE b = a
    <3>1. IsPlaced(Link(k).pred)
      BY <1>1, <1>4, <1>15, <2>1, <2>2 DEF Candidates
    <3>2. LevelledBound(k) \in Int /\ LevelledBound(k) <= earliest
      BY <1>1, <1>6, <1>15, <2>2, <3>1, BindersBind DEF LogicInv
    <3> QED BY <1>4, <1>6, <1>7, <1>8, <1>9, <2>1, <2>2, <3>1, <3>2
  <2>3. CASE b # a
    <3>1. b \in Levelled /\ inst'[b] = inst[b]
      BY <1>9, <1>12, <1>15, <2>3 DEF Levelled
    <3>2. IsPlaced(Link(k).pred) /\ LevelledBound(k) <= inst[b][1]
      BY <1>15, <3>1 DEF LogicInv, LogicSurvives
    <3> QED BY <1>4, <2>1, <3>1, <3>2
  <2> QED BY <2>2, <2>3
<1>16. ASSUME NEW b \in Node, b \in Candidates, IsPlaced(b)'
       PROVE  span'[b][1] >= Shown(b)[1]
  <2>1. CASE b = a
    BY <1>5, <1>6, <1>7, <1>9, <2>1
  <2>2. CASE b # a
    <3>1. b \in Levelled /\ span'[b] = span[b]
      BY <1>9, <1>12, <1>16, <2>2 DEF Levelled
    <3> QED BY <3>1 DEF LogicInv, LogicSurvives
  <2> QED BY <2>1, <2>2
<1>17. \A b : b \in Levelled' => b \in Node /\ b \in Candidates /\ IsPlaced(b)'
  BY <1>10 DEF Levelled, Candidates
<1>18. LogicSurvives'
  <2> SUFFICES ASSUME NEW b \in Node, b \in Candidates, IsPlaced(b)'
               PROVE  /\ span'[b][1] >= Shown(b)[1]
                      /\ \A k \in DOMAIN net.links : Link(k).succ = b =>
                           \A p : p = Link(k).pred =>
                             IsPlaced(p)' /\ LevelledBound(k)' <= inst'[b][1]
    BY <1>10, <1>11, <1>17 DEF LogicSurvives
  <2>1. ASSUME NEW k \in DOMAIN net.links, Link(k).succ = b, NEW p, p = Link(k).pred
        PROVE  IsPlaced(p)' /\ LevelledBound(k)' <= inst'[b][1]
    BY <1>12, <1>14, <1>15, <2>1
  <2> QED BY <1>16, <2>1
<1> QED BY <1>13, <1>18

\* When levelling starts, what it may not move is placed, and nothing else.
LEMMA StartKeepsLogic ==
  ASSUME LogicInv, NEW request \in Requests, StartLevelling(request), UNCHANGED <<vars, kind>>
  PROVE  (PlacedAsInstants /\ LogicSurvives)'
<1>1. /\ phase = "done" /\ stage' = "placing" /\ Structure
      /\ span' = [a \in Node |-> IF Pinned(a) THEN Shown(a) ELSE None]
      /\ inst' = [a \in Node |-> IF Pinned(a) THEN <<es[a], ef[a]>> ELSE None]
  BY DEF StartLevelling, LogicInv
<1>2. \A b : Pinned(b)' = Pinned(b)
  BY DEF Pinned, IsStarted, IsComplete, Task, vars, cpmVars
<1>3. \A b \in Node : IsPlaced(b)' <=> Pinned(b)
  <2> SUFFICES ASSUME NEW b \in Node PROVE IsPlaced(b)' <=> Pinned(b)
    OBVIOUS
  <2>1. Shown(b) # None
    BY <1>1, ShownIsADay, SpanAssumption
  <2> QED BY <1>1, <2>1 DEF IsPlaced
<1>4. phase' = "done"
  BY <1>1 DEF vars, cpmVars
<1>5. \A b \in Node : es[b] \in Int /\ ef[b] \in Int
  BY <1>1, ShownIsADay
<1>6. PlacedAsInstants'
  BY <1>1, <1>2, <1>3, <1>4, <1>5 DEF PlacedAsInstants
<1>7. \A b \in Node : ~(b \in Levelled')
  BY <1>2, <1>3 DEF Levelled, Candidates
<1>8. \A b : b \in Levelled' => b \in Node
  BY DEF Levelled, Candidates
<1>9. LogicSurvives'
  BY <1>7, <1>8 DEF LogicSurvives
<1> QED BY <1>6, <1>9

\* Every step keeps what is placed typed and its logic honoured.
LEMMA LogicStep ==
  ASSUME LogicInv, [CPMNext]_vars, [LevellingNext]_<<vars, kind, levelVars>>
  PROVE  (PlacedAsInstants /\ LogicSurvives)'
<1>1. ASSUME NEW request \in Requests, StartLevelling(request), UNCHANGED <<vars, kind>>
      PROVE  (PlacedAsInstants /\ LogicSurvives)'
  BY <1>1, StartKeepsLogic
<1>2. CASE Place /\ UNCHANGED <<vars, kind>>
  BY <1>2, PlaceKeepsLogic
<1>3. CASE UNCHANGED <<span, inst>> /\ (stage' = stage \/ (stage # "waiting" /\ stage' # "waiting"))
  <2>1. \A b : IsPlaced(b)' <=> IsPlaced(b)
    BY <1>3 DEF IsPlaced
  <2>2. net' = net
    BY StepsKeepTheNetwork
  <2>3. \A b : Pinned(b)' = Pinned(b)
    BY <2>2 DEF Pinned, IsStarted, IsComplete, Task
  <2>4. CASE stage = "waiting"
    <3>1. \A b \in Node : ~IsPlaced(b)
      BY <2>4 DEF LogicInv, PlacedAsInstants
    <3>2. \A b : b \notin Levelled'
      BY <2>1, <3>1 DEF Levelled, Candidates
    <3> QED BY <1>3, <2>1, <2>4, <3>1, <3>2 DEF LogicInv, PlacedAsInstants, LogicSurvives
  <2>5. CASE stage # "waiting"
    <3>1. phase = "done"
      BY <2>5 DEF LogicInv, PlacedAsInstants
    <3>2. UNCHANGED vars
      BY <3>1, CalculationIsOver
    <3>3. PlacedAsInstants'
      BY <1>3, <2>1, <2>3, <2>5, <3>1, <3>2 DEF LogicInv, PlacedAsInstants, vars, cpmVars
    <3>4. CASE kind' = kind
      <4>1. /\ \A k : Link(k)' = Link(k) /\ LevelledBound(k)' = LevelledBound(k)
            /\ \A b : Shown(b)' = Shown(b)
        BY <1>3, <2>2, <3>2, <3>4 DEF Link, LevelledBound, ForwardBound, AdvanceLag, LagDays, Task,
           Days, Shown, vars, cpmVars, earlyVars
      <4>2. \A b : b \in Levelled' <=> b \in Levelled
        BY <2>1, <2>3 DEF Levelled, Candidates
      <4> QED BY <1>3, <2>1, <2>2, <3>3, <4>1, <4>2 DEF LogicInv, LogicSurvives
    <3>5. kind' = kind
      BY DEF LevellingNext, LevelNext
    <3> QED BY <3>4, <3>5
  <2> QED BY <2>4, <2>5
<1>4. CASE LevelNext
  BY <1>1, <1>2, <1>3, <1>4 DEF LevelNext, Report
<1>5. CASE UNCHANGED levelVars
  BY <1>3, <1>5 DEF levelVars
<1> QED BY <1>4, <1>5 DEF LevellingNext, levelVars

\* The calculation goes on under levelling as it does alone.
LEMMA LevellingCalculates == LevellingSpec => CPMSpec
<1>1. [LevellingNext]_<<vars, kind, levelVars>> => [CPMNext]_vars
  BY DEF LevellingNext, LevelNext
<1> QED BY <1>1, PTL DEF LevellingSpec, CPMSpec

\* What is placed stays typed, and its logic honoured.
LEMMA LogicHolds == LevellingSpec => [](PlacedAsInstants /\ LogicSurvives)
<1>1. LevelInit => PlacedAsInstants /\ LogicSurvives
  BY DEF LevelInit, PlacedAsInstants, LogicSurvives, Levelled, IsPlaced, Candidates
<1>2. /\ Structure /\ (PlacedAsInstants /\ LogicSurvives)
      /\ [CPMNext]_vars /\ [LevellingNext]_<<vars, kind, levelVars>>
      => (PlacedAsInstants /\ LogicSurvives)'
  BY LogicStep DEF LogicInv
<1> QED BY <1>1, <1>2, LevellingCalculates, StructureHolds, PTL DEF LevellingSpec, CPMSpec

\* Levelling never breaks the logic, whatever the network, its calendars, its
\* lags and the pool: at every moment, whatever is placed starts no earlier than
\* each of its predecessors, all placed, allows, nor than the calculation showed
\* (levelling.py:278-285).
THEOREM LevelledLogicSurvives == LevellingSpec => []LogicSurvives
BY LogicHolds, PTL

-----------------------------------------------------------------------------
\* Moves within bounds.

\* What the calculation hands over: its dates are those its links, its deadline and
\* its calendars ask for.
Calculated ==
  /\ Structure /\ DatedUnlessAlap /\ FloatsMeasured /\ LateDatesAsked /\ FinishUnlessAlap

\* A link between two activities the leveller may move.
Movable(k) == Link(k).pred \in Candidates /\ Link(k).succ \in Candidates

\* The schedules the next theorem is about: nothing is kept as late as possible; no
\* link between work to be placed runs from a start to a finish, nor has a lag that
\* is counted on a calendar which one of its ends does not keep; no resource has the
\* name of an activity; and the contract, if there is one, leaves no room after the
\* finish, which is reached by work.
LevelsFairly ==
  /\ NoAlap
  /\ \A k \in DOMAIN net.links :
       Movable(k) =>
         /\ Link(k).type # "SF"
         /\ Link(k).lag # 0 =>
              /\ Task(Link(k).pred).cal = Task(Link(k).succ).cal
              /\ net.lagCalendar \in {"predecessor", "successor"}
  /\ \A i \in DOMAIN pool.demands : pool.demands[i].res \notin Node
  /\ deadline <= projectFinish
  /\ \E a \in Node : ef[a] = projectFinish /\ es[a] # ef[a]

\* The early and late dates of the work to be placed, and the bounds its links put on
\* the late ones, both ways, are on the calendars.
LatesInWindow ==
  /\ \A a \in Candidates : SpanLands(Days(a), es[a], Task(a).dur) /\ LateInWindow(a)
  /\ \A k \in DOMAIN net.links :
       Movable(k) =>
         /\ BoundLandsBack(Link(k), ls[Link(k).succ], lf[Link(k).succ])
         /\ BoundLands(Link(k), ls[Link(k).pred], lf[Link(k).pred])

\* So are the dates it is given, and the bounds computed from them.
PlacedInWindow ==
  /\ \A a \in Levelled : SpanLands(Days(a), inst[a][1], Task(a).dur)
  /\ \A k \in DOMAIN net.links :
       Movable(k) /\ IsPlaced(Link(k).succ) =>
         BoundLands(Link(k), inst[Link(k).pred][1], inst[Link(k).pred][2])

\* Neither the calculation nor the levelling leaves the bound window.
LevellingInWindow == LatesInWindow /\ PlacedInWindow

\* The bounds of the links into an activity are instants, when all is dated.
LEMMA LinkBoundsAreInstants ==
  ASSUME Structure, phase = "done", NEW a \in Node
  PROVE  LinkBounds(a) \in SUBSET Int /\ IsFiniteSet(LinkBounds(a))
<1>1. PartOfTheLinks(edges)
  BY DEF PartOfTheLinks
<1>2. \A p \in Node : /\ es[p] \in Int /\ ef[p] \in Int
                       /\ EarlyDates[p].s = es[p] /\ EarlyDates[p].f = ef[p]
  BY ShownIsADay DEF EarlyDates
<1>3. \A k \in DOMAIN edges : edges[k][1] \in Node
  BY EdgeFacts DEF Structure
<1>4. PICK d : d = EarlyDates
  OBVIOUS
<1>5. \A k \in DOMAIN edges : d[edges[k][1]].s = es[edges[k][1]] /\ d[edges[k][1]].f = ef[edges[k][1]]
  BY <1>2, <1>3, <1>4
<1>6. BoundsInto(edges, a, d) = LinkBounds(a)
  BY <1>5 DEF BoundsInto, LinkBounds, LinkBound
<1>7. \A k \in DOMAIN edges : edges[k][2] = a => d[edges[k][1]].s \in Int /\ d[edges[k][1]].f \in Int
  BY <1>2, <1>3, <1>5
<1>8. BoundsInto(edges, a, d) \in SUBSET Int /\ IsFiniteSet(BoundsInto(edges, a, d))
  BY <1>1, <1>7, BoundsAreInstants
<1> QED BY <1>6, <1>8

\* What is known of an activity the leveller may move.
LEMMA CandidateFacts ==
  ASSUME Calculated, phase = "done", NoAlap, NothingLate, NEW a \in Candidates,
         SpanLands(Days(a), es[a], Task(a).dur), LateInWindow(a)
  PROVE  /\ a \in Node /\ IsLattice(Days(a)) /\ Days(a) \subseteq Int
         /\ Open(a) /\ Task(a).start = None /\ ~IsComplete(Task(a)) /\ Task(a).constraint = "none"
         /\ Task(a).dur \in Int /\ Task(a).dur > 0 /\ Duration(Task(a)) = Task(a).dur
         /\ IsSpan(a, es[a], ef[a]) /\ Shown(a) = <<es[a], ef[a] - 1>>
         /\ DrawnLate(a)
<1>1. /\ Structure /\ IsNetwork /\ a \in Node /\ phase \in Passes
  BY DEF Calculated, Structure, NetworkFixed, Candidates, Passes
<1>2. /\ Task(a).start = None /\ Task(a).constraint = "none" /\ Task(a).dur > 0
      /\ Open(a) /\ ~IsComplete(Task(a))
  BY DEF Candidates, Pinned, IsStarted, IsComplete, NothingLate, Open
<1>3. IsLattice(Days(a)) /\ Days(a) \subseteq Int /\ Task(a).dur \in Int
  BY <1>1, ActivityFacts DEF Activity, IsLattice
<1>4. Duration(Task(a)) = Task(a).dur
  BY <1>2 DEF Duration, IsStarted
<1>5. es[a] \in Int /\ ef[a] \in Int /\ ef[a] # None
  BY <1>1, ShownIsADay, NoneAssumption DEF Passes
<1>6. [s |-> es[a], f |-> ef[a]] = Granted(a, LinkBounds(a), net.dataDate)
  BY <1>1, <1>5 DEF Calculated, DatedUnlessAlap
<1>7. LinkBounds(a) \in SUBSET Int /\ IsFiniteSet(LinkBounds(a))
  BY <1>1, LinkBoundsAreInstants
<1>8. PICK g \in Int :
        /\ Granted(a, LinkBounds(a), net.dataDate).s = SnapStartForward(Days(a), g)
        /\ Granted(a, LinkBounds(a), net.dataDate).f
             = FinishFromStart(Days(a), Granted(a, LinkBounds(a), net.dataDate).s, Duration(Task(a)))
  <2>1. net.dataDate \in Int
    BY <1>1 DEF IsNetwork
  <2> QED BY <1>1, <1>2, <1>7, <2>1, GrantedIs
<1>9. es[a] = SnapStartForward(Days(a), g) /\ ef[a] = FinishFromStart(Days(a), es[a], Task(a).dur)
  BY <1>4, <1>6, <1>8
<1>10. es[a] \in Days(a)
  BY <1>2, <1>3, <1>9, SettledOnCalendar
<1>11. IsSpan(a, es[a], ef[a])
  BY <1>4, <1>9, <1>10 DEF IsSpan
<1>12. es[a] < ef[a]
  BY <1>1, <1>2, <1>4, <1>11, SpanFacts
<1>13. Shown(a) = <<es[a], ef[a] - 1>>
  BY <1>5, <1>12 DEF Shown, Present
<1>14. DrawnLate(a)
  BY <1>1, <1>2, <1>4, LateSpan DEF Calculated, LateDatesAsked
<1> QED BY <1>1, <1>2, <1>3, <1>4, <1>11, <1>13, <1>14

\* A link into such an activity is one the calculation honoured.
LEMMA LinkWasHonoured ==
  ASSUME Calculated, phase = "done", NoAlap, NothingLate, NEW a \in Candidates,
         SpanLands(Days(a), es[a], Task(a).dur), LateInWindow(a),
         NEW k \in DOMAIN net.links, NEW l, l = Link(k), l.succ = a
  PROVE  /\ k \in DOMAIN edges /\ l \in ALink /\ l.pred \in Node
         /\ es[l.pred] \in Int /\ ef[l.pred] \in Int
         /\ ForwardBound(l, es[l.pred], ef[l.pred]) \in Int
         /\ ForwardBound(l, es[l.pred], ef[l.pred]) <= es[a]
<1>1. /\ Structure /\ IsNetwork /\ a \in Node /\ phase \in Passes /\ edges = ActiveEdges(net)
  BY DEF Calculated, Structure, NetworkFixed, Candidates, Passes
<1>2. /\ Task(a).start = None /\ ~IsComplete(Task(a)) /\ Task(a).constraint = "none"
      /\ IsLattice(Days(a))
  BY CandidateFacts
<1>3. k \in DOMAIN edges
  <2>1. net.task[net.links[k].succ] = Task(a)
    BY DEF Task, Link
  <2>2. ~Suppressed(net, net.links[k])
    BY <1>2, <2>1 DEF Suppressed, IsStarted
  <2> QED BY <1>1, <2>2 DEF ActiveEdges
<1>4. /\ l \in ALink /\ l.pred \in Node /\ edges[k][1] = l.pred /\ edges[k][2] = a
  BY <1>1, <1>3, EdgeFacts DEF Structure
<1>5. /\ es[l.pred] \in Int /\ ef[l.pred] \in Int /\ es[a] \in Int /\ ef[a] \in Int
      /\ ef[a] # None
  BY <1>1, <1>4, ShownIsADay, NoneAssumption
<1>6. PICK b \in Int : b = ForwardBound(l, es[l.pred], ef[l.pred])
  BY <1>1, <1>4, <1>5, ForwardBoundIsInteger
<1>7. b \in LinkBounds(a)
  <2>1. LinkBound(k) = b
    BY <1>4, <1>6 DEF LinkBound
  <2> QED BY <1>3, <1>4, <2>1 DEF LinkBounds
<1>8. [s |-> es[a], f |-> ef[a]] = Granted(a, LinkBounds(a), net.dataDate)
  BY <1>1, <1>5 DEF Calculated, DatedUnlessAlap
<1>9. LinkBounds(a) \in SUBSET Int /\ IsFiniteSet(LinkBounds(a))
  BY <1>1, LinkBoundsAreInstants
<1>10. PICK g \in Int :
        /\ \A x \in LinkBounds(a) : x <= g
        /\ Granted(a, LinkBounds(a), net.dataDate).s = SnapStartForward(Days(a), g)
  <2>1. net.dataDate \in Int
    BY <1>1 DEF IsNetwork
  <2> QED BY <1>1, <1>2, <1>9, <2>1, GrantedIs
<1>11. es[a] = SnapStartForward(Days(a), g) /\ b <= g
  BY <1>7, <1>8, <1>10
<1>12. g <= es[a]
  BY <1>2, <1>11, SnapForwardMovesForward
<1>13. b <= es[a]
  BY <1>5, <1>6, <1>11, <1>12
<1> QED BY <1>3, <1>4, <1>5, <1>6, <1>13

\* Its late dates are no earlier than its early ones, and the float is the days between.
LEMMA CandidateHasFloat ==
  ASSUME Calculated, phase = "done", NoAlap, NothingLate, NEW a \in Candidates,
         SpanLands(Days(a), es[a], Task(a).dur), LateInWindow(a)
  PROVE  /\ es[a] \in Int /\ ef[a] \in Int /\ ls[a] \in Int /\ lf[a] \in Int
         /\ es[a] \in Days(a) /\ ls[a] \in Days(a) /\ es[a] <= ls[a] /\ ef[a] <= lf[a]
         /\ IsSpan(a, ls[a], lf[a]) /\ lf[a] <= deadline /\ deadline \in Int
         /\ totalFloat[a] \in Int
<1>1. /\ Structure /\ IsNetwork /\ a \in Node /\ phase \in Passes
  BY DEF Calculated, Structure, NetworkFixed, Candidates, Passes
<1>2. /\ IsLattice(Days(a)) /\ Open(a) /\ Duration(Task(a)) > 0
      /\ IsSpan(a, es[a], ef[a]) /\ DrawnLate(a)
  BY CandidateFacts
<1>3. IsSpan(a, ls[a], lf[a])
  BY <1>2 DEF DrawnLate
<1>4. /\ es[a] \in Int /\ ef[a] \in Int /\ ls[a] \in Int /\ lf[a] \in Int
      /\ es[a] \in Days(a) /\ ls[a] \in Days(a)
  BY <1>1, <1>2, <1>3, SpanFacts DEF IsSpan
<1>5. totalFloat[a] = BisectLeft(Days(a), ls[a]) - BisectLeft(Days(a), es[a])
  <2>1. \E i \in DOMAIN nodes : nodes[i] = a
    BY <1>1 DEF Structure, KahnInv, IsGraph, Elements
  <2> QED BY <1>2, <2>1 DEF Calculated, FloatsMeasured, CountWorkingDays
<1>6. BisectLeft(Days(a), ls[a]) \in Nat /\ BisectLeft(Days(a), es[a]) \in Nat
  BY <1>2, PositionsCount
<1>7. totalFloat[a] \in Int /\ totalFloat[a] >= 0
  <2>1. totalFloat[a] \in Int
    BY <1>5, <1>6
  <2> QED BY <1>1, <2>1, NoneAssumption DEF NothingLate
<1>8. es[a] <= ls[a]
  BY <1>2, <1>4, <1>5, <1>6, <1>7, PositionReached
<1>9. ef[a] <= lf[a]
  BY <1>1, <1>2, <1>3, <1>8, SpansAreOrdered
<1>10. lf[a] <= deadline /\ deadline \in Int
  <2>1. PICK latest \in Int : IsLatest(a, latest) /\ lf[a] <= latest
    BY <1>2 DEF DrawnLate
  <2>2. latest <= deadline /\ deadline \in Int
    BY <1>1, <2>1 DEF IsLatest, Structure, PhaseOrder, Passes
  <2> QED BY <1>4, <2>1, <2>2
<1> QED BY <1>3, <1>4, <1>7, <1>8, <1>9, <1>10

\* A fair schedule within its window, ready to be levelled.
Ready ==
  /\ Calculated /\ phase = "done" /\ NothingLate /\ LevelsFairly /\ LatesInWindow

\* What comes by its late dates asks for no start after the late start of what follows.
LEMMA BoundWithinLate ==
  ASSUME Ready, NEW k \in DOMAIN net.links, Movable(k), NEW l, l = Link(k),
         NEW s \in Int, NEW f \in Int, s <= ls[l.pred], f <= lf[l.pred], BoundLands(l, s, f)
  PROVE  ForwardBound(l, s, f) <= ls[l.succ]
<1>1. /\ l.pred \in Candidates /\ l.succ \in Candidates /\ Structure /\ IsNetwork
      /\ phase = "done" /\ NoAlap /\ NothingLate /\ Calculated
  BY DEF Ready, Movable, Calculated, Structure, NetworkFixed, LevelsFairly
<1>2. \A a \in Candidates : SpanLands(Days(a), es[a], Task(a).dur) /\ LateInWindow(a)
  BY DEF Ready, LatesInWindow
<1>3. k \in DOMAIN edges /\ l \in ALink
  BY <1>1, <1>2, LinkWasHonoured
<1>4. /\ Duration(Task(l.pred)) > 0 /\ Duration(Task(l.succ)) > 0
      /\ DrawnLate(l.pred) /\ DrawnLate(l.succ)
  BY <1>1, <1>2, CandidateFacts
<1>5. /\ l.type # "SF"
      /\ l.lag # 0 => /\ Task(l.pred).cal = Task(l.succ).cal
                      /\ net.lagCalendar \in {"predecessor", "successor"}
  BY DEF Ready, LevelsFairly
<1>6. /\ BoundLandsBack(l, ls[l.succ], lf[l.succ]) /\ BoundLands(l, ls[l.pred], lf[l.pred])
  BY DEF Ready, LatesInWindow
<1>7. ForwardBound(l, ls[l.pred], lf[l.pred]) <= ls[l.succ]
  BY <1>1, <1>3, <1>4, <1>5, <1>6, LateKeepsLink
<1>8. /\ ls[l.pred] \in Int /\ lf[l.pred] \in Int /\ ls[l.succ] \in Int
  BY <1>1, <1>2, CandidateHasFloat
<1>9. ForwardBound(l, s, f) <= ForwardBound(l, ls[l.pred], lf[l.pred])
  BY <1>1, <1>3, <1>6, <1>8, ForwardBoundGrows
<1>10. /\ ForwardBound(l, s, f) \in Int /\ ForwardBound(l, ls[l.pred], lf[l.pred]) \in Int
  BY <1>1, <1>3, <1>8, ForwardBoundIsInteger
<1> QED BY <1>7, <1>8, <1>9, <1>10

\* What holds of what is placed: work that was not moved has its early dates, and
\* other work a later span, which is not past its late dates if the finish is kept.
KeptOrMoved ==
  /\ \A a \in Node : IsPlaced(a) /\ moves[a] = None => inst[a] = <<es[a], ef[a]>>
  /\ \A a \in Node : moves[a] # None => a \in Levelled
  /\ \A a \in Levelled :
       /\ es[a] <= inst[a][1] /\ IsSpan(a, inst[a][1], inst[a][2])
       /\ span[a][2] = inst[a][2] - 1
       /\ pool.horizon = "within_float" => inst[a][1] <= ls[a] /\ inst[a][2] <= lf[a]

\* The bounds on the next activity: an unmoved predecessor does not move it, and where
\* the finish is kept, none asks for a start past its late start.
LEMMA NextIsBounded ==
  ASSUME Ready, PlacedAsInstants, KeptOrMoved, NEW a, Placeable(a),
         NEW k \in DOMAIN net.links, Link(k).succ = a, IsPlaced(Link(k).pred),
         Movable(k) => BoundLands(Link(k), inst[Link(k).pred][1], inst[Link(k).pred][2])
  PROVE  /\ LevelledBound(k) \in Int /\ Link(k).pred \in Node
         /\ moves[Link(k).pred] = None => LevelledBound(k) <= es[a]
         /\ pool.horizon = "within_float" => LevelledBound(k) <= ls[a]
<1>1. PICK l, p : l = Link(k) /\ p = l.pred
  OBVIOUS
<1>2. /\ Structure /\ IsNetwork /\ phase = "done" /\ NoAlap /\ NothingLate /\ Calculated
      /\ a \in Candidates /\ a \in Node
  BY DEF Ready, Calculated, Structure, NetworkFixed, LevelsFairly, Placeable, Candidates
<1>3. \A b \in Candidates : SpanLands(Days(b), es[b], Task(b).dur) /\ LateInWindow(b)
  BY DEF Ready, LatesInWindow
<1>4. /\ p \in Node /\ l \in ALink /\ es[p] \in Int /\ ef[p] \in Int
      /\ ForwardBound(l, es[p], ef[p]) \in Int /\ ForwardBound(l, es[p], ef[p]) <= es[a]
  BY <1>1, <1>2, <1>3, LinkWasHonoured
<1>5. es[a] \in Int /\ ls[a] \in Int /\ es[a] <= ls[a]
  BY <1>2, <1>3, CandidateHasFloat
<1>6. LevelledBound(k) \in Int
  BY <1>2, BindersBind
<1>7. LevelledBound(k) = ForwardBound(l, inst[p][1], inst[p][2])
  BY <1>1 DEF LevelledBound
<1>8. CASE moves[p] = None
  <2>1. inst[p] = <<es[p], ef[p]>>
    BY <1>1, <1>4, <1>8 DEF KeptOrMoved
  <2>2. inst[p][1] = es[p] /\ inst[p][2] = ef[p]
    BY <2>1
  <2>3. LevelledBound(k) <= es[a]
    BY <1>4, <1>7, <2>2
  <2> QED BY <1>1, <1>4, <1>5, <1>6, <2>3
<1>9. CASE moves[p] # None
  <2>1. p \in Levelled
    BY <1>4, <1>9 DEF KeptOrMoved
  <2>2. p \in Candidates /\ IsPlaced(p) /\ Movable(k)
    BY <1>1, <1>2, <2>1 DEF Levelled, Movable
  <2>3. inst[p][1] \in Int /\ inst[p][2] \in Int
    BY <1>4, <2>2 DEF PlacedAsInstants
  <2>4. pool.horizon = "within_float" => inst[p][1] <= ls[p] /\ inst[p][2] <= lf[p]
    BY <2>1 DEF KeptOrMoved
  <2>5. pool.horizon = "within_float" => LevelledBound(k) <= ls[a]
    BY <1>1, <1>7, <2>2, <2>3, <2>4, BoundWithinLate
  <2> QED BY <1>1, <1>4, <1>6, <1>9, <2>5
<1> QED BY <1>8, <1>9

\* The search starts from the day shown, or from where the one who binds lets it.
LEMMA EarliestIs ==
  ASSUME IsNetwork, PlacedAsInstants, NEW a \in Node, Shown(a)[1] \in Int,
         NEW earliest, earliest = Max(PrecedenceFloor(a) \cup {Shown(a)[1]})
  PROVE  \/ earliest = Shown(a)[1]
         \/ \E t \in Binding(a) :
              /\ Binding(a) = {t} /\ LevelledBound(t) \in Int
              /\ earliest = SnapStartForward(Days(a), LevelledBound(t))
<1>1. CASE Binding(a) = {}
  <2>1. PrecedenceFloor(a) \cup {Shown(a)[1]} = {Shown(a)[1]}
    BY <1>1 DEF PrecedenceFloor
  <2> QED BY <2>1 DEF Max
<1>2. CASE Binding(a) # {}
  <2>1. PICK t \in Binding(a) : TRUE
    BY <1>2
  <2>2. Binding(a) = {t} /\ LevelledBound(t) \in Int
    BY <2>1, OneBinder
  <2>3. IsLattice(Days(a))
    BY ActivityFacts
  <2>4. PICK floor \in Int : floor = SnapStartForward(Days(a), LevelledBound(t))
    BY <2>2, <2>3, SnapForwardMovesForward
  <2>5. PrecedenceFloor(a) \cup {Shown(a)[1]} = {floor, Shown(a)[1]}
    BY <2>2, <2>4 DEF PrecedenceFloor
  <2>6. earliest = floor \/ earliest = Shown(a)[1]
    <3>1. \E x \in {floor, Shown(a)[1]} : \A y \in {floor, Shown(a)[1]} : x >= y
      BY <2>4
    <3>2. earliest = CHOOSE x \in {floor, Shown(a)[1]} : \A y \in {floor, Shown(a)[1]} : x >= y
      BY <2>5 DEF Max
    <3> QED BY <3>1, <3>2
  <2> QED BY <2>2, <2>4, <2>6
<1> QED BY <1>1, <1>2

\* The bounds on an activity, where its predecessors now stand, are on the calendars.
BoundsLand(a) ==
  \A k \in DOMAIN net.links :
    Link(k).succ = a /\ Movable(k) =>
      BoundLands(Link(k), inst[Link(k).pred][1], inst[Link(k).pred][2])

\* The day the search for a place starts from.
IsEarliest(a, earliest) == earliest = Max(PrecedenceFloor(a) \cup {Shown(a)[1]})

\* It is no earlier than the early start, and later only if a predecessor was moved;
\* where the finish is kept, it is no later than the late start.
LEMMA SearchStarts ==
  ASSUME Ready, PlacedAsInstants, KeptOrMoved, NEW a, Placeable(a), BoundsLand(a),
         NEW earliest, IsEarliest(a, earliest)
  PROVE  /\ earliest \in Int /\ es[a] <= earliest
         /\ pool.horizon = "within_float" => earliest <= ls[a]
         /\ earliest # es[a] =>
              \E t \in Binding(a) : /\ Binding(a) = {t} /\ Link(t).pred \in Node
                                    /\ moves[Link(t).pred] # None
<1>1. /\ Structure /\ IsNetwork /\ phase = "done" /\ NoAlap /\ NothingLate /\ Calculated
      /\ a \in Candidates /\ a \in Node
  BY DEF Ready, Calculated, Structure, NetworkFixed, LevelsFairly, Placeable, Candidates
<1>2. SpanLands(Days(a), es[a], Task(a).dur) /\ LateInWindow(a)
  BY <1>1 DEF Ready, LatesInWindow
<1>3. Shown(a) = <<es[a], ef[a] - 1>> /\ IsLattice(Days(a))
  BY <1>1, <1>2, CandidateFacts
<1>4. /\ es[a] \in Int /\ ls[a] \in Int /\ es[a] \in Days(a) /\ ls[a] \in Days(a) /\ es[a] <= ls[a]
  BY <1>1, <1>2, CandidateHasFloat
<1>5. Shown(a)[1] = es[a]
  BY <1>3
<1>6. earliest \in Int /\ es[a] <= earliest
  BY <1>1, <1>4, <1>5, EarliestIsAFloor DEF IsEarliest
<1>7. \/ earliest = es[a]
      \/ \E t \in Binding(a) :
           /\ Binding(a) = {t} /\ LevelledBound(t) \in Int
           /\ earliest = SnapStartForward(Days(a), LevelledBound(t))
  BY <1>1, <1>4, <1>5, EarliestIs DEF IsEarliest
<1>8. CASE earliest = es[a]
  BY <1>4, <1>6, <1>8
<1>9. CASE earliest # es[a]
  <2>1. PICK t \in Binding(a) :
           /\ Binding(a) = {t} /\ LevelledBound(t) \in Int
           /\ earliest = SnapStartForward(Days(a), LevelledBound(t))
    BY <1>7, <1>9
  <2>2. t \in DOMAIN net.links /\ Link(t).succ = a /\ IsPlaced(Link(t).pred)
    BY DEF Binding
  <2>3. /\ Link(t).pred \in Node
        /\ moves[Link(t).pred] = None => LevelledBound(t) <= es[a]
        /\ pool.horizon = "within_float" => LevelledBound(t) <= ls[a]
    BY <2>2, NextIsBounded DEF BoundsLand
  <2>4. moves[Link(t).pred] # None
    <3>1. SUFFICES ASSUME LevelledBound(t) <= es[a] PROVE FALSE
      BY <2>3
    <3>2. earliest <= SnapStartForward(Days(a), es[a])
      BY <1>3, <1>4, <2>1, <3>1, SnapForwardGrows
    <3>3. SnapStartForward(Days(a), es[a]) = es[a]
      BY <1>3, <1>4, WorkingInstantsStay
    <3> QED BY <1>4, <1>6, <1>9, <3>2, <3>3
  <2>5. pool.horizon = "within_float" => earliest <= ls[a]
    <3>1. SUFFICES ASSUME LevelledBound(t) <= ls[a] PROVE earliest <= ls[a]
      BY <2>3
    <3>2. earliest <= SnapStartForward(Days(a), ls[a])
      BY <1>3, <1>4, <2>1, <3>1, SnapForwardGrows
    <3>3. SnapStartForward(Days(a), ls[a]) = ls[a]
      BY <1>3, <1>4, WorkingInstantsStay
    <3> QED BY <3>2, <3>3
  <2> QED BY <1>6, <2>1, <2>3, <2>4, <2>5
<1> QED BY <1>8, <1>9

\* The span tried that an activity gets.
LEMMA TriedIs ==
  ASSUME NEW a \in Node, IsLattice(Days(a)), NEW earliest \in Int,
         NEW t \in SpansTried(a, earliest)
  PROVE  /\ t[1] \in Days(a) /\ t[1] \in Int /\ t = SpanFrom(a, t[1])
         /\ SnapStartForward(Days(a), earliest) <= t[1] /\ t[1] <= LatestAllowed(a)
<1>1. PICK from \in Int : from = SnapStartForward(Days(a), earliest)
  BY SnapForwardMovesForward
<1>2. PICK d \in DaysTried(a, from, LatestAllowed(a)) : t = SpanFrom(a, d)
  BY <1>1 DEF SpansTried
<1>3. d \in Days(a) /\ d \in Int /\ d \in from..LatestAllowed(a)
  BY <1>2 DEF DaysTried, IsLattice
<1>4. t[1] = d
  BY <1>2 DEF SpanFrom
<1>5. from <= d /\ d <= LatestAllowed(a)
  BY <1>3
<1> QED BY <1>1, <1>2, <1>3, <1>4, <1>5

\* The span an activity gets starts on the day that was settled, or on the next its
\* calendar works, has the days of its duration, and keeps to the float when asked to.
LEMMA PlacedWithin ==
  ASSUME Ready, PlacedAsInstants, KeptOrMoved, NEW a, Placeable(a), BoundsLand(a),
         NEW earliest, IsEarliest(a, earliest),
         NEW fitting, fitting \subseteq SpansTried(a, earliest),
         NEW sp, sp = Settled(a, earliest, fitting),
         NEW from, from = SnapStartForward(Days(a), sp[1]),
         NEW finish, finish = FinishFromStart(Days(a), from, Task(a).dur),
         SpanLands(Days(a), from, Task(a).dur)
  PROVE  /\ sp[1] \in Int /\ es[a] <= sp[1] /\ sp[1] <= from
         /\ IsSpan(a, from, finish) /\ sp[2] = finish - 1 /\ from \in Int
         /\ pool.horizon = "within_float" => from <= ls[a] /\ finish <= lf[a]
         /\ sp[1] = es[a] => from = es[a] /\ finish = ef[a]
<1>1. /\ Structure /\ IsNetwork /\ phase = "done" /\ NoAlap /\ NothingLate /\ Calculated
      /\ a \in Candidates /\ a \in Node
  BY DEF Ready, Calculated, Structure, NetworkFixed, LevelsFairly, Placeable, Candidates
<1>2. SpanLands(Days(a), es[a], Task(a).dur) /\ LateInWindow(a)
  BY <1>1 DEF Ready, LatesInWindow
<1>3. /\ Shown(a) = <<es[a], ef[a] - 1>> /\ IsLattice(Days(a))
      /\ Task(a).dur \in Int /\ Task(a).dur > 0 /\ Duration(Task(a)) = Task(a).dur
      /\ IsSpan(a, es[a], ef[a])
  BY <1>1, <1>2, CandidateFacts
<1>4. /\ es[a] \in Int /\ ls[a] \in Int /\ es[a] \in Days(a) /\ ls[a] \in Days(a) /\ es[a] <= ls[a]
      /\ IsSpan(a, ls[a], lf[a])
  BY <1>1, <1>2, CandidateHasFloat
<1>5. /\ earliest \in Int /\ es[a] <= earliest
      /\ pool.horizon = "within_float" => earliest <= ls[a]
  BY SearchStarts
<1>6. sp[1] \in Int /\ earliest <= sp[1]
  BY <1>1, <1>5, SettledIsNotEarly
<1>7. from \in Int /\ sp[1] <= from /\ SnapStartForward(Days(a), from) = from
  BY <1>3, <1>6, SnapForwardMovesForward, SnapIsSettled
<1>8. from \in Days(a)
  BY <1>3, <1>6, SettledOnCalendar
<1>9. IsSpan(a, from, finish)
  BY <1>3, <1>8 DEF IsSpan
<1>10. SnapStartForward(Days(a), es[a]) = es[a] /\ SnapStartForward(Days(a), ls[a]) = ls[a]
       /\ SnapStartBack(Days(a), ls[a]) = ls[a]
  BY <1>3, <1>4, WorkingInstantsStay
<1>11. sp[1] = es[a] => from = es[a] /\ finish = ef[a]
  <2>1. ef[a] = FinishFromStart(Days(a), es[a], Task(a).dur)
    BY <1>3 DEF IsSpan
  <2> QED BY <1>10, <2>1
<1>12. sp = SpanFrom(a, sp[1]) \/ (sp = Shown(a) /\ sp[1] = es[a])
  <2>1. CASE GoesInFreely(a)
    BY <2>1 DEF Settled, SpanFrom
  <2>2. CASE ~GoesInFreely(a) /\ fitting # {}
    <3>1. sp \in SpansTried(a, earliest)
      BY <1>1, <2>2, SettledFits
    <3> QED BY <1>1, <1>3, <1>5, <3>1, TriedIs
  <2>3. CASE ~GoesInFreely(a) /\ fitting = {}
    BY <1>3, <2>3 DEF Settled, SpanFrom
  <2> QED BY <2>1, <2>2, <2>3
<1>13. sp[2] = finish - 1
  <2>1. CASE sp = Shown(a) /\ sp[1] = es[a]
    BY <1>3, <1>11, <2>1
  <2>2. CASE sp = SpanFrom(a, sp[1])
    <3>1. sp[2] = FinishFromStart(Days(a), sp[1], Task(a).dur) - 1
      BY <1>3, <2>2 DEF SpanFrom
    <3>2. FinishFromStart(Days(a), sp[1], Task(a).dur) = finish
      BY <1>3, <1>7 DEF FinishFromStart
    <3> QED BY <3>1, <3>2
  <2> QED BY <1>12, <2>1, <2>2
<1>14. ASSUME pool.horizon = "within_float"
       PROVE  from <= ls[a] /\ finish <= lf[a]
  <2>1. sp[1] <= ls[a]
    <3>1. CASE GoesInFreely(a)
      BY <1>5, <1>14, <3>1 DEF Settled, SpanFrom
    <3>2. CASE ~GoesInFreely(a) /\ fitting # {}
      <4>1. sp \in SpansTried(a, earliest)
        BY <1>1, <3>2, SettledFits
      <4>2. sp[1] <= LatestAllowed(a)
        BY <1>1, <1>3, <1>5, <4>1, TriedIs
      <4> QED BY <1>10, <1>14, <4>2 DEF LatestAllowed
    <3>3. CASE ~GoesInFreely(a) /\ fitting = {}
      BY <1>3, <1>4, <1>5, <1>14, <3>3 DEF Settled, SpanFrom
    <3> QED BY <3>1, <3>2, <3>3
  <2>2. from <= ls[a]
    <3>1. SnapStartForward(Days(a), sp[1]) <= SnapStartForward(Days(a), ls[a])
      BY <1>3, <1>4, <1>6, <2>1, SnapForwardGrows
    <3> QED BY <1>10, <3>1
  <2>3. finish <= lf[a]
    <3>1. Duration(Task(a)) > 0
      BY <1>3
    <3> QED BY <1>1, <1>4, <1>9, <2>2, <3>1, SpansAreOrdered
  <2> QED BY <2>2, <2>3
<1>15. es[a] <= sp[1]
  BY <1>4, <1>5, <1>6
<1> QED BY <1>6, <1>7, <1>9, <1>11, <1>13, <1>14, <1>15

\* What a pool asks for.
Resources == {pool.demands[i].res : i \in DOMAIN pool.demands}

\* A refusal has a resource to blame.
LEMMA RefusalIsBlamed ==
  ASSUME pool \in Requests, NEW a, IsLattice(Days(a)), NEW t
  PROVE  /\ Refused(a, t) # {} => Blocker(a, t) # {}
         /\ Blocker(a, t) \subseteq Resources
<1>1. PICK refused : refused = Refused(a, t)
  OBVIOUS
<1>2. Blocker(a, t) = {pool.demands[r[2]].res :
         r \in {r \in refused :
                  \A q \in refused : r[1] < q[1] \/ (r[1] = q[1] /\ r[2] <= q[2])}}
  BY <1>1 DEF Blocker
<1>3. /\ Rows(a) \subseteq DOMAIN pool.demands /\ IsFiniteSet(DOMAIN pool.demands)
      /\ DOMAIN pool.demands \subseteq Nat
  BY LevellingAssumption DEF LevellingAssumption, Rows
<1>4. \A r \in refused : /\ r = <<r[1], r[2]>> /\ r[1] \in Days(a) /\ r[1] \in Int
                         /\ r[2] \in Rows(a) /\ r[2] \in Int
  BY <1>1, <1>3 DEF Refused, DaysWorked, IsLattice
<1>5. Blocker(a, t) \subseteq Resources
  BY <1>2, <1>3, <1>4 DEF Resources
<1>6. ASSUME refused # {}
      PROVE  Blocker(a, t) # {}
  <2> DEFINE D == {d \in Days(a) : \E r \in refused : r[1] = d}
  <2>1. D # {} /\ D \in SUBSET Days(a)
    BY <1>4, <1>6
  <2>2. D \in SUBSET Int
    BY <2>1 DEF IsLattice
  <2>3. IsFiniteSet(D)
    BY <2>1, FS_Subset DEF IsLattice
  <2>4. PICK d \in D : \A e \in D : d <= e
    <3> HIDE DEF D
    <3> QED BY <2>1, <2>2, <2>3, HasLeast
  <2> DEFINE I == {i \in Rows(a) : \E r \in refused : r[1] = d /\ r[2] = i}
  <2>5. I # {} /\ I \in SUBSET DOMAIN pool.demands
    BY <1>3, <1>4, <2>4
  <2>6. I \in SUBSET Int
    BY <1>3, <2>5
  <2>7. IsFiniteSet(I)
    BY <1>3, <2>5, FS_Subset
  <2>8. PICK i \in I : \A j \in I : i <= j
    <3> HIDE DEF I
    <3> QED BY <2>5, <2>6, <2>7, HasLeast
  <2>9. PICK r \in refused : r[1] = d /\ r[2] = i
    BY <2>8
  <2>10. ASSUME NEW q \in refused
         PROVE  r[1] < q[1] \/ (r[1] = q[1] /\ r[2] <= q[2])
    <3>1. q[1] \in D /\ d <= q[1] /\ q[1] \in Int /\ d \in Int
      BY <1>4, <2>2, <2>4
    <3>2. CASE d < q[1]
      BY <2>9, <3>2
    <3>3. CASE d = q[1]
      <4>1. q[2] \in I
        BY <1>4, <3>3
      <4>2. i <= q[2]
        BY <2>8, <4>1
      <4> QED BY <2>9, <3>3, <4>2
    <3> QED BY <3>1, <3>2, <3>3
  <2>11. r \in {x \in refused :
                  \A q \in refused : x[1] < q[1] \/ (x[1] = q[1] /\ x[2] <= q[2])}
    BY <2>10
  <2>12. pool.demands[r[2]].res \in Blocker(a, t)
    BY <1>2, <2>11
  <2> QED BY <2>12
<1> QED BY <1>1, <1>5, <1>6

\* The first of the days the search looks at is looked at, if the calendar has it and
\* the horizon reaches it.
LEMMA FirstIsTried ==
  ASSUME NEW a, IsLattice(Days(a)), NEW earliest,
         NEW first, first = SnapStartForward(Days(a), earliest), first \in Days(a),
         NEW latest \in Int, latest = LatestAllowed(a), first <= latest
  PROVE  SpanFrom(a, first) \in SpansTried(a, earliest)
<1>1. first \in Int
  BY DEF IsLattice
<1>2. CountWorkingDays(Days(a), first, first) = 0
  BY PositionsCount DEF CountWorkingDays
<1>3. first \in first..latest
  BY <1>1
<1>4. first \in DaysTried(a, first, latest)
  BY <1>2, <1>3, AttemptsAssumption DEF DaysTried, AttemptsAssumption
<1> QED BY <1>4 DEF SpansTried

\* The day a search ends on.
LEMMA SearchEnds ==
  ASSUME NEW a, IsLattice(Days(a)), ls[a] \in Days(a)
  PROVE  /\ LatestAllowed(a) \in Int
         /\ pool.horizon = "within_float" => LatestAllowed(a) = ls[a]
         /\ pool.horizon # "within_float" => \A d \in Days(a) : d <= LatestAllowed(a)
<1>1. SnapStartBack(Days(a), ls[a]) = ls[a] /\ ls[a] \in Int
  BY WorkingInstantsStay DEF IsLattice
<1>2. \E x \in Days(a) : \A y \in Days(a) : y <= x
  BY HasGreatest DEF IsLattice
<1>3. /\ Max(Days(a)) \in Days(a) /\ Max(Days(a)) \in Int
      /\ \A y \in Days(a) : Max(Days(a)) >= y
  <2>1. PICK lat : lat = Days(a)
    OBVIOUS
  <2>2. \E x \in lat : \A y \in lat : x >= y
    BY <1>2, <2>1 DEF IsLattice
  <2>3. Max(lat) \in lat /\ \A y \in lat : Max(lat) >= y
    BY <2>2 DEF Max
  <2> QED BY <2>1, <2>3 DEF IsLattice
<1>4. \A y \in Days(a) : y <= Max(Days(a))
  BY <1>3 DEF IsLattice
<1> QED BY <1>1, <1>3, <1>4 DEF LatestAllowed

\* Nothing that fits starts before the span an activity gets.
LEMMA SettledIsFirst ==
  ASSUME IsNetwork, NEW a \in Node, NEW earliest, NEW fitting,
         fitting \subseteq SpansTried(a, earliest), fitting # {}, ~GoesInFreely(a),
         NEW sp, sp = Settled(a, earliest, fitting), NEW t \in fitting
  PROVE  sp[1] <= t[1]
<1> DEFINE K == {u[1] : u \in fitting}
<1>1. \A u \in fitting : u[1] \in Days(a)
  BY DEF SpansTried, SpanFrom, DaysTried
<1>2. K \in SUBSET Days(a) /\ K # {} /\ IsLattice(Days(a))
  BY <1>1, ActivityFacts
<1>3. K \in SUBSET Int /\ IsFiniteSet(K)
  BY <1>2, FS_Subset DEF IsLattice
<1>4. PICK x \in K : \A y \in K : x <= y
  <2> HIDE DEF K
  <2> QED BY <1>2, <1>3, HasLeast
<1>5. \E u \in fitting : \A other \in fitting : u[1] <= other[1]
  BY <1>4
<1>6. sp = CHOOSE u \in fitting : \A other \in fitting : u[1] <= other[1]
  BY DEF Settled
<1> QED BY <1>5, <1>6

\* How far a move goes, and what it leaves of the float.
LEMMA MoveShifts ==
  ASSUME Ready, NEW a \in Candidates, NEW sp, sp[1] \in Int, es[a] < sp[1],
         NEW earliest, NEW tried, NEW fits
  PROVE  LET m == MoveOf(a, earliest, tried, fits, sp)
         IN  /\ m.shifted \in Int /\ m.left \in Int /\ m.shifted > 0 /\ m.left < totalFloat[a]
<1>1. /\ Structure /\ IsNetwork /\ phase = "done" /\ NoAlap /\ NothingLate /\ Calculated
      /\ a \in Node
  BY DEF Ready, Calculated, Structure, NetworkFixed, LevelsFairly, Candidates
<1>2. SpanLands(Days(a), es[a], Task(a).dur) /\ LateInWindow(a)
  BY <1>1 DEF Ready, LatesInWindow
<1>3. Shown(a)[1] = es[a] /\ IsLattice(Days(a))
  BY <1>1, <1>2, CandidateFacts
<1>4. es[a] \in Int /\ es[a] \in Days(a) /\ totalFloat[a] \in Int
  BY <1>1, <1>2, CandidateHasFloat
<1>5. SnapStartForward(Days(a), es[a]) = es[a]
  BY <1>3, <1>4, WorkingInstantsStay
<1>6. PICK from \in Int : from = SnapStartForward(Days(a), sp[1]) /\ from >= sp[1]
  BY <1>3, SnapForwardMovesForward
<1>7. BisectLeft(Days(a), es[a]) < BisectLeft(Days(a), from)
  BY <1>3, <1>4, <1>6, PositionsGrow
<1>8. BisectLeft(Days(a), es[a]) \in Nat /\ BisectLeft(Days(a), from) \in Nat
  BY <1>3, PositionsCount
<1>9. PICK n \in Int : n = BisectLeft(Days(a), from) - BisectLeft(Days(a), es[a])
  BY <1>8
<1>10. n > 0
  BY <1>7, <1>8, <1>9
<1>11. /\ MoveOf(a, earliest, tried, fits, sp).shifted = n
       /\ MoveOf(a, earliest, tried, fits, sp).left = totalFloat[a] - n
  BY <1>3, <1>5, <1>6, <1>9 DEF MoveOf, CountWorkingDays
<1> QED BY <1>4, <1>9, <1>10, <1>11

\* What a move is blamed on.
Binders(a, earliest, fits) ==
  IF fits /\ earliest > Shown(a)[1] THEN {Link(k).pred : k \in Binding(a)} ELSE {}

Blockers(a, tried, fits, sp) ==
  IF GoesInFreely(a) THEN {}
  ELSE UNION {Blocker(a, t) : t \in {t \in tried : ~fits \/ t[1] < sp[1]}}

\* A move says what it is blamed on, links that bind and resources that refuse.
LEMMA MoveIs ==
  ASSUME NEW a, NEW earliest, NEW tried, NEW fits, NEW sp
  PROVE  LET m == MoveOf(a, earliest, tried, fits, sp)
         IN  /\ m = [shifted |-> m.shifted, by |-> m.by, left |-> m.left]
             /\ m.by = Binders(a, earliest, fits) \cup Blockers(a, tried, fits, sp)
BY DEF MoveOf, Binders, Blockers

\* A span that was refused before the one an activity got has a resource to blame.
LEMMA BlockersBlock ==
  ASSUME pool \in Requests, NEW a, IsLattice(Days(a)), ~GoesInFreely(a),
         NEW tried, NEW fits, NEW sp, NEW t \in tried, ~fits \/ t[1] < sp[1], Refused(a, t) # {}
  PROVE  Blockers(a, tried, fits, sp) # {}
<1>1. PICK r : r \in Blocker(a, t)
  BY RefusalIsBlamed
<1>2. t \in {u \in tried : ~fits \/ u[1] < sp[1]}
  OBVIOUS
<1>3. r \in Blockers(a, tried, fits, sp)
  BY <1>1, <1>2 DEF Blockers
<1> QED BY <1>3

\* Only what the pool asks for is blamed for a refusal.
LEMMA BlockersAre ==
  ASSUME pool \in Requests, NEW a, IsLattice(Days(a)), NEW tried, NEW fits, NEW sp
  PROVE  Blockers(a, tried, fits, sp) \subseteq Resources
<1>1. \A t : Blocker(a, t) \subseteq Resources
  BY RefusalIsBlamed
<1> QED BY <1>1 DEF Blockers

\* Which of the spans tried fit, and whether the activity goes in.
AreFitting(a, tried, fitting) == fitting = {t \in tried : Refused(a, t) = {}}

GoesIn(a, fitting) == GoesInFreely(a) \/ fitting # {}

\* A move has a reason: a predecessor that was moved itself, or a refusal.
LEMMA MoveHasReason ==
  ASSUME Ready, PlacedAsInstants, KeptOrMoved, pool \in Requests,
         NEW a, Placeable(a), BoundsLand(a),
         NEW earliest, IsEarliest(a, earliest),
         NEW tried, tried = SpansTried(a, earliest),
         NEW fitting, AreFitting(a, tried, fitting),
         NEW sp, sp = Settled(a, earliest, fitting),
         NEW fits, fits = GoesIn(a, fitting),
         SpanLands(Days(a), SnapStartForward(Days(a), sp[1]), Task(a).dur), sp[1] # es[a]
  PROVE  /\ Binders(a, earliest, fits) \cup Blockers(a, tried, fits, sp) # {}
         /\ \A p \in Binders(a, earliest, fits) : p \in Node /\ moves[p] # None
<1>1. /\ Structure /\ IsNetwork /\ phase = "done" /\ NoAlap /\ NothingLate /\ Calculated
      /\ a \in Candidates /\ a \in Node
  BY DEF Ready, Calculated, Structure, NetworkFixed, LevelsFairly, Placeable, Candidates
<1>2. SpanLands(Days(a), es[a], Task(a).dur) /\ LateInWindow(a)
  BY <1>1 DEF Ready, LatesInWindow
<1>3. /\ Shown(a)[1] = es[a] /\ IsLattice(Days(a))
      /\ Task(a).dur \in Int /\ Task(a).dur > 0
  BY <1>1, <1>2, CandidateFacts
<1>4. /\ es[a] \in Int /\ ls[a] \in Int /\ es[a] \in Days(a) /\ ls[a] \in Days(a) /\ es[a] <= ls[a]
  BY <1>1, <1>2, CandidateHasFloat
<1>5. /\ earliest \in Int /\ es[a] <= earliest
      /\ pool.horizon = "within_float" => earliest <= ls[a]
      /\ earliest # es[a] =>
              \E t \in Binding(a) : /\ Binding(a) = {t} /\ Link(t).pred \in Node
                                    /\ moves[Link(t).pred] # None
  BY SearchStarts
<1>6. /\ LatestAllowed(a) \in Int
      /\ pool.horizon = "within_float" => LatestAllowed(a) = ls[a]
      /\ pool.horizon # "within_float" => \A d \in Days(a) : d <= LatestAllowed(a)
  BY <1>3, <1>4, SearchEnds
<1>7. \A p \in Binders(a, earliest, fits) : p \in Node /\ moves[p] # None
  BY <1>3, <1>5 DEF Binders
<1>8. SnapStartForward(Days(a), es[a]) = es[a] /\ SnapStartForward(Days(a), ls[a]) = ls[a]
  BY <1>3, <1>4, WorkingInstantsStay
<1>9. fitting \subseteq SpansTried(a, earliest)
  BY DEF AreFitting
<1>10. PICK first : first = SnapStartForward(Days(a), earliest)
  OBVIOUS
<1>11. CASE fits /\ earliest # es[a]
  <2>1. PICK t \in Binding(a) : TRUE
    BY <1>5, <1>11
  <2>2. earliest > Shown(a)[1]
    BY <1>3, <1>4, <1>5, <1>11
  <2>3. Link(t).pred \in Binders(a, earliest, fits)
    BY <1>11, <2>1, <2>2 DEF Binders
  <2> QED BY <1>7, <2>3
<1>12. CASE fits /\ earliest = es[a]
  <2>1. ~GoesInFreely(a)
    BY <1>12 DEF Settled, SpanFrom
  <2>2. fitting # {}
    BY <1>12, <2>1 DEF GoesIn
  <2>3. sp \in fitting
    BY <1>1, <1>9, <2>1, <2>2, SettledFits
  <2>4. first = es[a]
    BY <1>8, <1>10, <1>12
  <2>5. sp[1] \in Int /\ es[a] <= sp[1] /\ sp[1] <= LatestAllowed(a)
    <3>1. sp \in SpansTried(a, earliest)
      BY <1>9, <2>3, Zenon
    <3>2. sp[1] \in Int /\ first <= sp[1] /\ sp[1] <= LatestAllowed(a)
      BY <1>1, <1>3, <1>5, <1>10, <3>1, TriedIs
    <3> QED BY <2>4, <3>2
  <2>6. PICK t : t = SpanFrom(a, es[a])
    OBVIOUS
  <2>7. t[1] = es[a]
    BY <2>6 DEF SpanFrom
  <2>8. t \in tried
    <3>1. es[a] <= LatestAllowed(a)
      BY <1>4, <1>6, <2>5
    <3> QED BY <1>3, <1>4, <1>6, <1>10, <2>4, <2>6, <3>1, FirstIsTried
  <2>9. t[1] < sp[1]
    BY <1>4, <2>5, <2>7
  <2>10. t \notin fitting
    <3>1. SUFFICES ASSUME t \in fitting PROVE FALSE
      OBVIOUS
    <3>2. sp[1] <= t[1]
      BY <1>1, <1>9, <2>1, <2>2, <3>1, SettledIsFirst
    <3> QED BY <1>4, <2>5, <2>7, <2>9, <3>2
  <2>11. Refused(a, t) # {}
    BY <2>8, <2>10 DEF AreFitting
  <2>12. Blockers(a, tried, fits, sp) # {}
    BY <1>3, <2>1, <2>8, <2>9, <2>11, BlockersBlock
  <2> QED BY <1>7, <2>12
<1>13. CASE ~fits
  <2>1. ~GoesInFreely(a) /\ fitting = {}
    BY <1>13 DEF GoesIn
  <2>2. sp[1] = earliest
    BY <1>3, <2>1 DEF Settled, SpanFrom
  <2>3. first \in Days(a)
    BY <1>3, <1>5, <1>10, <2>2, SettledOnCalendar
  <2>4. first <= LatestAllowed(a)
    <3>1. CASE pool.horizon = "within_float"
      <4>1. first <= ls[a]
        BY <1>3, <1>4, <1>5, <1>8, <1>10, <3>1, SnapForwardGrows
      <4> QED BY <1>6, <3>1, <4>1
    <3>2. CASE pool.horizon # "within_float"
      BY <1>6, <2>3, <3>2
    <3> QED BY <3>1, <3>2
  <2>5. PICK t : t = SpanFrom(a, first)
    OBVIOUS
  <2>6. t \in tried
    BY <1>3, <1>6, <1>10, <2>3, <2>4, <2>5, FirstIsTried
  <2>7. Refused(a, t) # {}
    BY <2>1, <2>6 DEF AreFitting
  <2>8. Blockers(a, tried, fits, sp) # {}
    BY <1>3, <1>13, <2>1, <2>6, <2>7, BlockersBlock
  <2> QED BY <1>7, <2>8
<1> QED BY <1>11, <1>12, <1>13

\* So what is reported of it is a move, and explained.
LEMMA MoveIsExplained ==
  ASSUME Ready, PlacedAsInstants, KeptOrMoved, pool \in Requests,
         NEW a, Placeable(a), BoundsLand(a),
         NEW earliest, IsEarliest(a, earliest),
         NEW tried, tried = SpansTried(a, earliest),
         NEW fitting, AreFitting(a, tried, fitting),
         NEW sp, sp = Settled(a, earliest, fitting),
         NEW fits, fits = GoesIn(a, fitting),
         SpanLands(Days(a), SnapStartForward(Days(a), sp[1]), Task(a).dur),
         sp[1] \in Int, es[a] < sp[1],
         NEW m, m = MoveOf(a, earliest, tried, fits, sp)
  PROVE  /\ m # None /\ m.by # {} /\ m.shifted > 0 /\ m.left < totalFloat[a]
         /\ \A p \in m.by \cap Node : moves[p] # None
<1>1. a \in Candidates /\ IsNetwork /\ IsLattice(Days(a)) /\ es[a] \in Int
  <2>1. a \in Candidates /\ IsNetwork /\ a \in Node /\ Structure /\ phase = "done"
    BY DEF Ready, Calculated, Structure, NetworkFixed, Placeable, Candidates
  <2> QED BY <2>1, ActivityFacts, ShownIsADay
<1>2. m.shifted \in Int /\ m.left \in Int /\ m.shifted > 0 /\ m.left < totalFloat[a]
  BY <1>1, MoveShifts
<1>3. /\ m = [shifted |-> m.shifted, by |-> m.by, left |-> m.left]
      /\ m.by = Binders(a, earliest, fits) \cup Blockers(a, tried, fits, sp)
  BY MoveIs
<1>10. PICK by : by = m.by
  OBVIOUS
<1>4. sp[1] # es[a]
  BY <1>1
<1>5. /\ m.by # {}
      /\ \A p \in Binders(a, earliest, fits) : p \in Node /\ moves[p] # None
  <2>1. /\ Binders(a, earliest, fits) \cup Blockers(a, tried, fits, sp) # {}
        /\ \A p \in Binders(a, earliest, fits) : p \in Node /\ moves[p] # None
    BY <1>4, MoveHasReason, Zenon
  <2>2. by = Binders(a, earliest, fits) \cup Blockers(a, tried, fits, sp)
    BY <1>3, <1>10
  <2>3. by # {}
    BY <2>1, <2>2
  <2> QED BY <1>10, <2>1, <2>3
<1>6. Blockers(a, tried, fits, sp) \subseteq Resources
  BY <1>1, BlockersAre
<1>7. \A r \in Resources : r \notin Node
  BY DEF Ready, LevelsFairly, Resources
<1>8. \A p \in m.by \cap Node : moves[p] # None
  BY <1>3, <1>5, <1>6, <1>7
<1>9. m # None
  <2>1. m.by \in SUBSET (Node \cup Resources)
    BY <1>3, <1>5, <1>6
  <2>2. m \in [shifted : Int, left : Int, by : SUBSET (Node \cup Resources)]
    BY <1>2, <1>3, <2>1
  <2> QED BY <2>2, MoveAssumption DEF MoveAssumption, Resources
<1> QED BY <1>2, <1>5, <1>8, <1>9

\* One placement, step by step.
LEMMA PlaceGives ==
  ASSUME Place
  PROVE  \E a \in Node : IsNextInLine(a) /\
         \E earliest, tried, fitting, sp, fits, from, finish :
           /\ IsEarliest(a, earliest) /\ tried = SpansTried(a, earliest)
           /\ AreFitting(a, tried, fitting) /\ sp = Settled(a, earliest, fitting)
           /\ fits = GoesIn(a, fitting)
           /\ from = SnapStartForward(Days(a), sp[1])
           /\ finish = FinishFromStart(Days(a), from, Task(a).dur)
           /\ span' = [span EXCEPT ![a] = sp]
           /\ inst' = [inst EXCEPT ![a] = <<from, finish>>]
           /\ moves' = IF sp[1] = Shown(a)[1] THEN moves
                       ELSE [moves EXCEPT ![a] = MoveOf(a, earliest, tried, fits, sp)]
<1> DEFINE Gives(a, earliest, tried, fitting, sp) ==
             LET fits == GoesInFreely(a) \/ fitting # {}
                 from == SnapStartForward(Days(a), sp[1])
             IN  /\ span' = [span EXCEPT ![a] = sp]
                 /\ inst' = [inst EXCEPT ![a] =
                               <<from, FinishFromStart(Days(a), from, Task(a).dur)>>]
                 /\ unfit' = IF fits THEN unfit ELSE unfit \cup {a}
                 /\ moves' = IF sp[1] = Shown(a)[1] THEN moves
                             ELSE [moves EXCEPT ![a] = MoveOf(a, earliest, tried, fits, sp)]
<1>1. PICK a \in Node :
        /\ IsNextInLine(a)
        /\ \E earliest \in {Max(PrecedenceFloor(a) \cup {Shown(a)[1]})} :
           \E tried \in {SpansTried(a, earliest)} :
           \E fitting \in {{sp \in tried : Refused(a, sp) = {}}} :
           \E sp \in {Settled(a, earliest, fitting)} : Gives(a, earliest, tried, fitting, sp)
  BY DEF Place
<1>2. PICK earliest \in {Max(PrecedenceFloor(a) \cup {Shown(a)[1]})} :
        \E tried \in {SpansTried(a, earliest)} :
        \E fitting \in {{sp \in tried : Refused(a, sp) = {}}} :
        \E sp \in {Settled(a, earliest, fitting)} : Gives(a, earliest, tried, fitting, sp)
  BY <1>1
<1>3. PICK tried \in {SpansTried(a, earliest)} :
        \E fitting \in {{sp \in tried : Refused(a, sp) = {}}} :
        \E sp \in {Settled(a, earliest, fitting)} : Gives(a, earliest, tried, fitting, sp)
  BY <1>2
<1>4. PICK fitting \in {{sp \in tried : Refused(a, sp) = {}}} :
        \E sp \in {Settled(a, earliest, fitting)} : Gives(a, earliest, tried, fitting, sp)
  BY <1>3
<1>5. PICK sp \in {Settled(a, earliest, fitting)} : Gives(a, earliest, tried, fitting, sp)
  BY <1>4
<1>6. PICK fits, from, finish :
        /\ fits = (GoesInFreely(a) \/ fitting # {})
        /\ from = SnapStartForward(Days(a), sp[1])
        /\ finish = FinishFromStart(Days(a), from, Task(a).dur)
  OBVIOUS
<1>7. moves' = IF sp[1] = Shown(a)[1] THEN moves
               ELSE [moves EXCEPT ![a] = MoveOf(a, earliest, tried, fits, sp)]
  BY <1>5, <1>6, Zenon
<1>8. inst' = [inst EXCEPT ![a] = <<from, finish>>]
  BY <1>5, <1>6, Zenon
<1>9. IsEarliest(a, earliest) /\ AreFitting(a, tried, fitting) /\ fits = GoesIn(a, fitting)
  BY <1>2, <1>3, <1>4, <1>5, <1>6 DEF IsEarliest, AreFitting, GoesIn
<1>10. sp = Settled(a, earliest, fitting) /\ tried = SpansTried(a, earliest)
  BY <1>3, <1>5
<1>11. span' = [span EXCEPT ![a] = sp]
  BY <1>5
<1> QED BY <1>1, <1>6, <1>7, <1>8, <1>9, <1>10, <1>11, Zenon

\* What the calculation settled is the same after a step of the leveller.
LEMMA SameCalculation ==
  ASSUME UNCHANGED <<vars, kind>>
  PROVE  /\ Candidates' = Candidates
         /\ \A b : /\ Days(b)' = Days(b) /\ Task(b)' = Task(b) /\ Shown(b)' = Shown(b)
                   /\ Link(b)' = Link(b) /\ Movable(b)' = Movable(b)
                   /\ Pinned(b)' = Pinned(b) /\ LateInWindow(b)' = LateInWindow(b)
         /\ \A b, s, f : /\ IsSpan(b, s, f)' = IsSpan(b, s, f)
                         /\ BoundLands(b, s, f)' = BoundLands(b, s, f)
                         /\ BoundLandsBack(b, s, f)' = BoundLandsBack(b, s, f)
         /\ NothingLate' = NothingLate
<1>1. /\ net' = net /\ ls' = ls /\ lf' = lf /\ es' = es /\ ef' = ef
      /\ totalFloat' = totalFloat /\ kind' = kind
  BY DEF vars, cpmVars, earlyVars, lateVars, floatVars
<1>2. \A b : Task(b)' = Task(b) /\ Days(b)' = Days(b) /\ Link(b)' = Link(b)
  BY <1>1 DEF Task, Days, Link
<1>3. \A b : Pinned(b)' = Pinned(b)
  BY <1>2 DEF Pinned, IsStarted, IsComplete
<1>4. Candidates' = Candidates
  BY <1>3 DEF Candidates
<1>5. \A b : Shown(b)' = Shown(b)
  BY <1>1, <1>2 DEF Shown
<1>6. \A b : Movable(b)' = Movable(b)
  BY <1>2, <1>4 DEF Movable
<1>7. \A b : LateInWindow(b)' = LateInWindow(b)
  BY <1>1, <1>2 DEF LateInWindow
<1>8. \A b, s, f : IsSpan(b, s, f)' = IsSpan(b, s, f)
  BY <1>2 DEF IsSpan
<1>9. \A p, s : LagDays(p, s)' = LagDays(p, s)
  BY <1>1, <1>2 DEF LagDays
<1>10. \A i, lag, space, lat : /\ AdvanceLag(i, lag, space, lat)' = AdvanceLag(i, lag, space, lat)
                               /\ LagLands(i, lag, space, lat)' = LagLands(i, lag, space, lat)
  BY <1>1 DEF AdvanceLag, LagLands
<1>11. \A b, s, f : BoundLands(b, s, f)' = BoundLands(b, s, f)
  BY <1>2, <1>9, <1>10 DEF BoundLands
<1>12. \A b, s, f : BoundLandsBack(b, s, f)' = BoundLandsBack(b, s, f)
  BY <1>1, <1>2, <1>9, <1>10 DEF BoundLandsBack
<1>13. NothingLate' = NothingLate
  BY <1>1, <1>2, <1>4 DEF NothingLate
<1> QED BY <1>2, <1>3, <1>4, <1>5, <1>6, <1>7, <1>8, <1>11, <1>12, <1>13

\* What an activity gets is a span of days.
LEMMA SettledIsASpan ==
  ASSUME Structure, phase = "done", NEW a \in Node, NEW earliest \in Int,
         NEW fitting, fitting \subseteq SpansTried(a, earliest),
         NEW sp, sp = Settled(a, earliest, fitting)
  PROVE  sp \in Int \X Int
<1>1. IsNetwork /\ IsLattice(Days(a)) /\ Shown(a) \in Int \X Int /\ Task(a).dur \in Int
  BY ShownIsADay, ActivityFacts DEF Structure, NetworkFixed, Activity
<1>2. ASSUME NEW d \in Int PROVE SpanFrom(a, d) \in Int \X Int
  <2>1. FinishFromStart(Days(a), d, Task(a).dur) \in Int
    BY <1>1, SpansAreInstants
  <2> QED BY <2>1 DEF SpanFrom
<1>3. CASE GoesInFreely(a)
  BY <1>2, <1>3 DEF Settled
<1>4. CASE ~GoesInFreely(a) /\ fitting # {}
  <2>1. sp \in SpansTried(a, earliest)
    BY <1>1, <1>4, SettledFits
  <2> QED BY <1>1, <1>2, <2>1, TriedIs
<1>5. CASE ~GoesInFreely(a) /\ fitting = {}
  BY <1>1, <1>2, <1>5 DEF Settled
<1> QED BY <1>3, <1>4, <1>5

\* While work is placed, everything that is known of where it stands, and why.
BoundsKept ==
  stage # "waiting" /\ NothingLate /\ LevelsFairly /\ LevellingInWindow =>
    KeptOrMoved /\ MovesAreExplained

BoundsInv ==
  /\ DOMAIN moves = Node
  /\ stage = "waiting" => \A a \in Node : moves[a] = None
  /\ stage # "waiting" => \A a \in Node : Pinned(a) => span[a] = Shown(a)
  /\ BoundsKept

\* Placing work keeps it within its bounds, and says why it moved.
LEMMA PlaceKeepsBounds ==
  ASSUME Calculated, pool \in Requests, PlacedAsInstants, LogicSurvives, BoundsInv,
         Place, UNCHANGED <<vars, kind>>
  PROVE  BoundsInv'
<1>1. /\ Structure /\ IsNetwork /\ stage = "placing" /\ stage' = stage /\ pool' = pool
      /\ phase = "done" /\ DOMAIN span = Node /\ DOMAIN inst = Node /\ DOMAIN moves = Node
  BY DEF Calculated, Structure, NetworkFixed, Place, PlacedAsInstants, BoundsInv
<1>0. PICK a \in Node : IsNextInLine(a) /\
         \E earliest, tried, fitting, sp, fits, from, finish :
           /\ IsEarliest(a, earliest) /\ tried = SpansTried(a, earliest)
           /\ AreFitting(a, tried, fitting) /\ sp = Settled(a, earliest, fitting)
           /\ fits = GoesIn(a, fitting)
           /\ from = SnapStartForward(Days(a), sp[1])
           /\ finish = FinishFromStart(Days(a), from, Task(a).dur)
           /\ span' = [span EXCEPT ![a] = sp]
           /\ inst' = [inst EXCEPT ![a] = <<from, finish>>]
           /\ moves' = IF sp[1] = Shown(a)[1] THEN moves
                       ELSE [moves EXCEPT ![a] = MoveOf(a, earliest, tried, fits, sp)]
  BY PlaceGives
<1>2. PICK earliest, tried, fitting, sp, fits, from, finish :
           /\ IsEarliest(a, earliest) /\ tried = SpansTried(a, earliest)
           /\ AreFitting(a, tried, fitting) /\ sp = Settled(a, earliest, fitting)
           /\ fits = GoesIn(a, fitting)
           /\ from = SnapStartForward(Days(a), sp[1])
           /\ finish = FinishFromStart(Days(a), from, Task(a).dur)
           /\ span' = [span EXCEPT ![a] = sp]
           /\ inst' = [inst EXCEPT ![a] = <<from, finish>>]
           /\ moves' = IF sp[1] = Shown(a)[1] THEN moves
                       ELSE [moves EXCEPT ![a] = MoveOf(a, earliest, tried, fits, sp)]
  BY <1>0
<1>3. /\ Placeable(a) /\ a \in Candidates /\ ~IsPlaced(a) /\ ~Pinned(a)
      /\ \A k \in DOMAIN net.links :
           Link(k).succ = a /\ Link(k).pred \in Candidates => IsPlaced(Link(k).pred)
  BY <1>0 DEF IsNextInLine, Placeable, Candidates
<1>4. fitting \subseteq SpansTried(a, earliest)
  BY <1>2 DEF AreFitting
<1>5. Shown(a)[1] \in Int /\ earliest \in Int
  <2>1. Shown(a)[1] \in Int
    BY <1>1, ShownIsADay
  <2> QED BY <1>1, <1>2, <2>1, EarliestIsAFloor DEF IsEarliest
<1>6. sp \in Int \X Int /\ sp # None
  <2>1. sp \in Int \X Int
    BY <1>1, <1>2, <1>4, <1>5, SettledIsASpan
  <2> QED BY <2>1, SpanAssumption
<1>7. /\ DOMAIN span' = Node /\ DOMAIN inst' = Node
      /\ span'[a] = sp /\ inst'[a] = <<from, finish>>
      /\ \A b \in Node \ {a} : span'[b] = span[b] /\ inst'[b] = inst[b]
  BY <1>1, <1>2
<1>8. /\ DOMAIN moves' = Node /\ \A b \in Node \ {a} : moves'[b] = moves[b]
      /\ sp[1] = Shown(a)[1] => moves'[a] = moves[a]
      /\ sp[1] # Shown(a)[1] => moves'[a] = MoveOf(a, earliest, tried, fits, sp)
  BY <1>1, <1>2
<1>9. IsPlaced(a)' /\ \A b \in Node \ {a} : IsPlaced(b)' <=> IsPlaced(b)
  BY <1>6, <1>7 DEF IsPlaced
<1>10. /\ Candidates' = Candidates
       /\ \A b : /\ Days(b)' = Days(b) /\ Task(b)' = Task(b) /\ Shown(b)' = Shown(b)
                 /\ Link(b)' = Link(b) /\ Movable(b)' = Movable(b)
                 /\ Pinned(b)' = Pinned(b) /\ LateInWindow(b)' = LateInWindow(b)
       /\ \A b, s, f : /\ IsSpan(b, s, f)' = IsSpan(b, s, f)
                       /\ BoundLands(b, s, f)' = BoundLands(b, s, f)
                       /\ BoundLandsBack(b, s, f)' = BoundLandsBack(b, s, f)
       /\ NothingLate' = NothingLate
  BY SameCalculation
<1>11. \A b \in Node : Pinned(b)' => span'[b] = Shown(b)'
  BY <1>1, <1>3, <1>7, <1>10 DEF BoundsInv
<1>12. Levelled' = Levelled \cup {a} /\ a \notin Levelled
  BY <1>3, <1>9, <1>10 DEF Levelled, Candidates
<1> SUFFICES ASSUME (NothingLate /\ LevelsFairly /\ LevellingInWindow)'
             PROVE  (KeptOrMoved /\ MovesAreExplained)'
  BY <1>1, <1>8, <1>11 DEF BoundsInv, BoundsKept
<1>13. /\ net' = net /\ es' = es /\ ef' = ef /\ ls' = ls /\ lf' = lf /\ totalFloat' = totalFloat
       /\ deadline' = deadline /\ projectFinish' = projectFinish
  BY DEF vars, cpmVars, earlyVars, lateVars, floatVars, spanVars
<1>14. LevelsFairly
  BY <1>1, <1>10, <1>13 DEF LevelsFairly, NoAlap, IsAlap
<1>15. LatesInWindow
  BY <1>10, <1>13 DEF LevellingInWindow, LatesInWindow
<1>16. NothingLate /\ Ready
  BY <1>1, <1>10, <1>14, <1>15 DEF Ready
<1>17. /\ \A b \in Levelled \cup {a} : SpanLands(Days(b), inst'[b][1], Task(b).dur)
       /\ \A k \in DOMAIN net.links :
            Movable(k) /\ span'[Link(k).succ] # None =>
              BoundLands(Link(k), inst'[Link(k).pred][1], inst'[Link(k).pred][2])
  BY <1>10, <1>12, <1>13 DEF LevellingInWindow, PlacedInWindow, IsPlaced
<1>18. PlacedInWindow
  <2>1. ASSUME NEW b \in Levelled PROVE SpanLands(Days(b), inst[b][1], Task(b).dur)
    <3>1. inst'[b] = inst[b]
      BY <1>7, <1>12 DEF Levelled, Candidates
    <3> QED BY <1>17, <3>1
  <2>2. ASSUME NEW k \in DOMAIN net.links, Movable(k), IsPlaced(Link(k).succ)
        PROVE  BoundLands(Link(k), inst[Link(k).pred][1], inst[Link(k).pred][2])
    <3>1. Link(k).succ \in Levelled /\ Link(k).succ \in Node \ {a} /\ Link(k).pred \in Node
      BY <1>3, <2>2 DEF Movable, Levelled, Candidates
    <3>2. IsPlaced(Link(k).pred)
      BY <3>1 DEF LogicSurvives
    <3>3. inst'[Link(k).pred] = inst[Link(k).pred]
      BY <1>3, <1>7, <3>1, <3>2
    <3>4. span'[Link(k).succ] # None
      BY <1>7, <2>2, <3>1 DEF IsPlaced
    <3> QED BY <1>17, <2>2, <3>3, <3>4
  <2> QED BY <2>1, <2>2 DEF PlacedInWindow
<1>19. KeptOrMoved /\ MovesAreExplained
  BY <1>1, <1>14, <1>15, <1>16, <1>18 DEF BoundsInv, BoundsKept, LevellingInWindow
<1>20. BoundsLand(a)
  <2> SUFFICES ASSUME NEW k \in DOMAIN net.links, Link(k).succ = a, Movable(k)
               PROVE  BoundLands(Link(k), inst[Link(k).pred][1], inst[Link(k).pred][2])
    BY DEF BoundsLand
  <2>1. Link(k).pred \in Candidates /\ Link(k).pred \in Node /\ IsPlaced(Link(k).pred)
    BY <1>3 DEF Movable, Candidates
  <2>2. inst'[Link(k).pred] = inst[Link(k).pred]
    BY <1>3, <1>7, <2>1
  <2>3. span'[Link(k).succ] # None
    BY <1>6, <1>7
  <2> QED BY <1>17, <2>2, <2>3
<1>21. SpanLands(Days(a), from, Task(a).dur)
  <2>1. inst'[a][1] = from
    BY <1>7
  <2> QED BY <1>17, <2>1
<1>22. /\ sp[1] \in Int /\ es[a] <= sp[1] /\ sp[1] <= from
       /\ IsSpan(a, from, finish) /\ sp[2] = finish - 1 /\ from \in Int
       /\ pool.horizon = "within_float" => from <= ls[a] /\ finish <= lf[a]
       /\ sp[1] = es[a] => from = es[a] /\ finish = ef[a]
  BY <1>2, <1>3, <1>4, <1>16, <1>19, <1>20, <1>21, PlacedWithin
<1>23. Shown(a)[1] = es[a] /\ es[a] \in Int
  <2>1. SpanLands(Days(a), es[a], Task(a).dur) /\ LateInWindow(a)
    BY <1>3, <1>15 DEF LatesInWindow
  <2>2. Shown(a) = <<es[a], ef[a] - 1>>
    BY <1>1, <1>3, <1>14, <1>16, <2>1, CandidateFacts DEF LevelsFairly
  <2> QED BY <1>1, <2>2, ShownIsADay
<1>24. ASSUME sp[1] # es[a]
       PROVE  LET m == moves'[a]
              IN  /\ m # None /\ m.by # {} /\ m.shifted > 0 /\ m.left < totalFloat[a]
                  /\ \A p \in m.by \cap Node : moves[p] # None
  <2>1. PICK m : m = MoveOf(a, earliest, tried, fits, sp) /\ moves'[a] = m
    BY <1>8, <1>23, <1>24
  <2>2. es[a] < sp[1]
    BY <1>22, <1>23, <1>24
  <2>3. SpanLands(Days(a), SnapStartForward(Days(a), sp[1]), Task(a).dur)
    BY <1>2, <1>21
  <2>4. /\ m # None /\ m.by # {} /\ m.shifted > 0 /\ m.left < totalFloat[a]
        /\ \A p \in m.by \cap Node : moves[p] # None
    BY <1>2, <1>3, <1>16, <1>19, <1>20, <1>22, <2>1, <2>2, <2>3, MoveIsExplained
  <2> QED BY <2>1, <2>4
<1>25. KeptOrMoved'
  <2>1. ASSUME NEW b \in Node, IsPlaced(b)', moves'[b] = None
        PROVE  inst'[b] = <<es[b], ef[b]>>
    <3>1. CASE b = a
      BY <1>7, <1>22, <1>24, <2>1, <3>1
    <3>2. CASE b # a
      BY <1>7, <1>8, <1>9, <1>19, <2>1, <3>2 DEF KeptOrMoved
    <3> QED BY <3>1, <3>2
  <2>2. ASSUME NEW b \in Node, moves'[b] # None PROVE b \in Levelled'
    BY <1>8, <1>12, <1>19, <2>2 DEF KeptOrMoved
  <2>3. ASSUME NEW b \in Levelled \cup {a}
        PROVE  /\ es[b] <= inst'[b][1] /\ IsSpan(b, inst'[b][1], inst'[b][2])
               /\ span'[b][2] = inst'[b][2] - 1
               /\ pool.horizon = "within_float" => inst'[b][1] <= ls[b] /\ inst'[b][2] <= lf[b]
    <3>1. CASE b = a
      <4>1. inst'[b][1] = from /\ inst'[b][2] = finish /\ span'[b][2] = sp[2]
        BY <1>7, <3>1
      <4>2. es[a] <= from
        BY <1>22, <1>23
      <4> QED BY <1>22, <3>1, <4>1, <4>2
    <3>2. CASE b # a
      <4>1. b \in Levelled /\ inst'[b] = inst[b] /\ span'[b] = span[b]
        BY <1>7, <2>3, <3>2 DEF Levelled, Candidates
      <4> QED BY <1>19, <4>1 DEF KeptOrMoved
    <3> QED BY <3>1, <3>2
  <2> QED BY <1>1, <1>10, <1>12, <1>13, <2>1, <2>2, <2>3 DEF KeptOrMoved
<1>26. MovesAreExplained'
  <2> SUFFICES ASSUME NEW b \in Node, moves'[b] # None
               PROVE  /\ moves'[b].by # {} /\ moves'[b].shifted > 0
                      /\ moves'[b].left < totalFloat[b]
                      /\ \A p \in moves'[b].by \cap Node : moves'[p] # None
    BY <1>13 DEF MovesAreExplained
  <2>1. \A p \in Node : moves[p] # None => moves'[p] # None
    BY <1>8, <1>12, <1>19 DEF KeptOrMoved
  <2>2. CASE b = a
    <3>1. sp[1] # es[a]
      BY <1>8, <1>12, <1>19, <1>23, <2>2 DEF KeptOrMoved
    <3> QED BY <1>24, <2>1, <2>2, <3>1
  <2>3. CASE b # a
    <3>1. moves'[b] = moves[b]
      BY <1>8, <2>3
    <3> QED BY <1>16, <1>19, <2>1, <3>1 DEF MovesAreExplained
  <2> QED BY <2>2, <2>3
<1> QED BY <1>25, <1>26

\* When levelling starts, nothing has moved.
LEMMA StartKeepsBounds ==
  ASSUME BoundsInv, NEW request \in Requests, StartLevelling(request), UNCHANGED <<vars, kind>>
  PROVE  BoundsInv'
<1>1. /\ stage = "waiting" /\ stage' = "placing" /\ moves' = moves
      /\ span' = [a \in Node |-> IF Pinned(a) THEN Shown(a) ELSE None]
      /\ inst' = [a \in Node |-> IF Pinned(a) THEN <<es[a], ef[a]>> ELSE None]
  BY DEF StartLevelling
<1>2. /\ Candidates' = Candidates
      /\ \A b : Pinned(b)' = Pinned(b) /\ Shown(b)' = Shown(b)
  BY SameCalculation
<1>3. /\ DOMAIN moves' = Node /\ \A a \in Node : moves'[a] = None
  BY <1>1 DEF BoundsInv
<1>4. es' = es /\ ef' = ef
  BY DEF vars, cpmVars, earlyVars
<1>5. \A b \in Node : IsPlaced(b)' => Pinned(b) /\ inst'[b] = <<es[b], ef[b]>>
  BY <1>1 DEF IsPlaced
<1>6. \A b : b \notin Levelled'
  BY <1>2, <1>5 DEF Levelled, Candidates
<1>7. KeptOrMoved'
  BY <1>3, <1>4, <1>5, <1>6 DEF KeptOrMoved
<1>8. MovesAreExplained'
  BY <1>3 DEF MovesAreExplained
<1>9. \A a \in Node : Pinned(a)' => span'[a] = Shown(a)'
  BY <1>1, <1>2
<1> QED BY <1>1, <1>3, <1>7, <1>8, <1>9 DEF BoundsInv, BoundsKept

\* A step that places nothing keeps what is known of the moves.
LEMMA RestKeepsBounds ==
  ASSUME BoundsInv, PlacedAsInstants, [CPMNext]_vars, kind' = kind,
         UNCHANGED <<pool, span, inst, moves>>, stage = "waiting" <=> stage' = "waiting"
  PROVE  BoundsInv'
<1>1. CASE stage = "waiting"
  BY <1>1 DEF BoundsInv, BoundsKept
<1>2. CASE stage # "waiting"
  <2>1. UNCHANGED <<vars, kind>>
    BY <1>2, CalculationIsOver DEF PlacedAsInstants
  <2>2. /\ Candidates' = Candidates
        /\ \A b : /\ Days(b)' = Days(b) /\ Task(b)' = Task(b) /\ Shown(b)' = Shown(b)
                  /\ Link(b)' = Link(b) /\ Movable(b)' = Movable(b)
                  /\ Pinned(b)' = Pinned(b) /\ LateInWindow(b)' = LateInWindow(b)
        /\ \A b, s, f : /\ IsSpan(b, s, f)' = IsSpan(b, s, f)
                        /\ BoundLands(b, s, f)' = BoundLands(b, s, f)
                        /\ BoundLandsBack(b, s, f)' = BoundLandsBack(b, s, f)
        /\ NothingLate' = NothingLate
    BY <2>1, SameCalculation
  <2>3. /\ net' = net /\ es' = es /\ ef' = ef /\ ls' = ls /\ lf' = lf /\ totalFloat' = totalFloat
        /\ deadline' = deadline /\ projectFinish' = projectFinish
    BY <2>1 DEF vars, cpmVars, earlyVars, lateVars, floatVars, spanVars
  <2>4. Levelled' = Levelled /\ \A b : IsPlaced(b)' <=> IsPlaced(b)
    BY <2>2 DEF Levelled, IsPlaced
  <2>5. LevelsFairly' => LevelsFairly
    BY <2>2, <2>3 DEF LevelsFairly, NoAlap, IsAlap
  <2>6. LatesInWindow' => LatesInWindow
    BY <2>2, <2>3 DEF LatesInWindow
  <2>7. PlacedInWindow' => PlacedInWindow
    BY <2>2, <2>3, <2>4 DEF PlacedInWindow, IsPlaced
  <2>8. KeptOrMoved => KeptOrMoved'
    BY <2>2, <2>3, <2>4 DEF KeptOrMoved
  <2>9. MovesAreExplained => MovesAreExplained'
    BY <2>2, <2>3 DEF MovesAreExplained
  <2>10. BoundsKept'
    BY <1>2, <2>2, <2>5, <2>6, <2>7, <2>8, <2>9 DEF BoundsInv, BoundsKept, LevellingInWindow
  <2> QED BY <1>2, <2>2, <2>10 DEF BoundsInv
<1> QED BY <1>1, <1>2

\* Every step keeps it.
LEMMA BoundsStep ==
  ASSUME Calculated, PoolAccepted, PlacedAsInstants, LogicSurvives, BoundsInv,
         [CPMNext]_vars, [LevellingNext]_<<vars, kind, levelVars>>
  PROVE  BoundsInv'
<1>1. ASSUME NEW request \in Requests, StartLevelling(request), UNCHANGED <<vars, kind>>
      PROVE  BoundsInv'
  BY <1>1, StartKeepsBounds
<1>2. CASE Place /\ UNCHANGED <<vars, kind>>
  <2>1. pool \in Requests
    BY <1>2 DEF Place, PoolAccepted
  <2> QED BY <1>2, <2>1, PlaceKeepsBounds
<1>3. CASE Report /\ UNCHANGED <<vars, kind>>
  BY <1>3, RestKeepsBounds DEF Report
<1>4. CASE UNCHANGED <<kind, levelVars>>
  BY <1>4, RestKeepsBounds DEF levelVars
<1> QED BY <1>1, <1>2, <1>3, <1>4 DEF LevellingNext, LevelNext, levelVars

\* Sets of instants neither of which goes past the other have the same greatest.
LEMMA GreatestAgree ==
  ASSUME NEW S \in SUBSET Int, IsFiniteSet(S), S # {},
         NEW T \in SUBSET Int, IsFiniteSet(T), T # {},
         \A x \in S : \E y \in T : x <= y, \A y \in T : \E x \in S : y <= x
  PROVE  Max(S) = Max(T)
<1>1. PICK x \in S : \A y \in S : y <= x
  BY HasGreatest
<1>2. PICK y \in T : \A z \in T : z <= y
  BY HasGreatest
<1>3. x = y
  BY <1>1, <1>2
<1>4. Max(S) = x
  <2>1. \A z \in S : (\A u \in S : z >= u) => z = x
    BY <1>1
  <2>2. \A u \in S : x >= u
    BY <1>1
  <2> QED BY <2>1, <2>2 DEF Max
<1>5. Max(T) = y
  <2>1. \A z \in T : (\A u \in T : z >= u) => z = y
    BY <1>2
  <2>2. \A u \in T : y >= u
    BY <1>2
  <2> QED BY <2>1, <2>2 DEF Max
<1> QED BY <1>3, <1>4, <1>5

\* Once everything is placed within its float, the project finishes on the day it did.
LEMMA FinishIsKept ==
  ASSUME Ready, BoundsInv, PlacedAsInstants, KeptOrMoved,
         stage # "waiting", \A a \in Node : IsPlaced(a), pool.horizon = "within_float"
  PROVE  FinishAfter = ShownProjectFinish
<1>1. /\ Structure /\ IsNetwork /\ phase = "done" /\ NoAlap /\ NothingLate /\ Calculated
      /\ IsGraph /\ deadline <= projectFinish
  BY DEF Ready, Calculated, Structure, NetworkFixed, LevelsFairly, KahnInv
<1>2. projectFinish \in Int
  BY <1>1 DEF Calculated, FinishUnlessAlap, FinishSet
<1>3. PICK w \in Node : ef[w] = projectFinish /\ es[w] # ef[w]
  BY DEF Ready, LevelsFairly
<1>4. PICK before, after : /\ before = [a \in Node |-> Shown(a)[2]]
                           /\ after = [a \in Node |-> span[a][2]]
  OBVIOUS
<1>5. \A a \in Node : before[a] \in Int
  BY <1>1, <1>4, ShownIsADay
<1>6. before[w] = projectFinish - 1
  BY <1>3, <1>4 DEF Shown, Present
<1>7. ASSUME NEW a \in Node, Pinned(a)
      PROVE  after[a] = before[a]
  BY <1>4, <1>7 DEF BoundsInv
<1>8. ASSUME NEW a \in Node, ~Pinned(a)
      PROVE  after[a] \in Int /\ before[a] <= after[a] /\ after[a] <= before[w]
  <2>1. a \in Candidates /\ a \in Levelled
    BY <1>8 DEF Levelled, Candidates
  <2>2. SpanLands(Days(a), es[a], Task(a).dur) /\ LateInWindow(a)
    BY <2>1 DEF Ready, LatesInWindow
  <2>3. /\ Shown(a) = <<es[a], ef[a] - 1>> /\ IsSpan(a, es[a], ef[a]) /\ Duration(Task(a)) > 0
    BY <1>1, <2>1, <2>2, CandidateFacts
  <2>4. /\ lf[a] \in Int /\ ef[a] \in Int /\ lf[a] <= deadline /\ deadline \in Int
    BY <1>1, <2>1, <2>2, CandidateHasFloat
  <2>5. PICK s, f : s = inst[a][1] /\ f = inst[a][2]
    OBVIOUS
  <2>6. /\ es[a] <= s /\ IsSpan(a, s, f) /\ span[a][2] = f - 1 /\ f <= lf[a] /\ f \in Int
    BY <2>1, <2>5 DEF KeptOrMoved, PlacedAsInstants
  <2>7. ef[a] <= f
    BY <1>1, <2>3, <2>6, SpansAreOrdered
  <2>8. before[a] = ef[a] - 1 /\ after[a] = f - 1
    BY <1>4, <2>3, <2>6
  <2> QED BY <1>1, <1>2, <1>6, <2>4, <2>6, <2>7, <2>8
<1>9. PICK S, T : S = {before[a] : a \in Node} /\ T = {after[a] : a \in Node}
  OBVIOUS
<1>10. \A a \in Node : after[a] \in Int
  BY <1>5, <1>7, <1>8
<1>11. IsFiniteSet(S) /\ IsFiniteSet(T)
  <2>1. IsFiniteSet(Node)
    <3>1. nodes \in Seq(Node) /\ Elements(nodes) = Node /\ Injective(nodes)
      BY <1>1 DEF IsGraph, Injective
    <3> QED BY <3>1, InjectiveLength
  <2>2. DOMAIN before = Node /\ DOMAIN after = Node
    BY <1>4
  <2> QED BY <1>9, <2>1, <2>2, FinitelyMany
<1>12. S \in SUBSET Int /\ T \in SUBSET Int /\ S # {} /\ T # {}
  BY <1>3, <1>5, <1>9, <1>10
<1>13. \A x \in S : \E y \in T : x <= y
  BY <1>5, <1>7, <1>8, <1>9
<1>14. \A y \in T : \E x \in S : y <= x
  BY <1>3, <1>5, <1>7, <1>8, <1>9
<1>15. Max(S) = Max(T)
  BY <1>11, <1>12, <1>13, <1>14, GreatestAgree
<1>16. S = {[a \in Node |-> Shown(a)][b][2] : b \in Node} /\ T = {span[a][2] : a \in Node}
  BY <1>4, <1>9
<1>17. ShownProjectFinish = Max(S)
  BY <1>16 DEF ShownProjectFinish, ShownFinish
<1>18. FinishAfter = Max(T)
  BY <1>16 DEF FinishAfter, ShownFinish
<1> QED BY <1>15, <1>17, <1>18

\* What is known of the moves says what is promised of them.
LEMMA BoundsAreEnough ==
  ASSUME Calculated, PoolAccepted, PlacedAsInstants, LogicSurvives, BoundsInv,
         LevelsFairly, LevellingInWindow
  PROVE  MovedWithinBounds
<1> SUFFICES ASSUME stage # "waiting" PROVE FinishSurvives /\ MovesAreExplained
  BY DEF MovedWithinBounds
<1>1. CASE ~NothingLate
  BY <1>1 DEF FinishSurvives, MovesAreExplained
<1>2. CASE NothingLate
  <2>1. Ready /\ KeptOrMoved /\ MovesAreExplained
    BY <1>2 DEF Ready, BoundsInv, BoundsKept, LevellingInWindow, PlacedAsInstants
  <2>2. ASSUME stage = "levelled", pool.horizon = "within_float"
        PROVE  FinishAfter = ShownProjectFinish
    BY <2>1, <2>2, FinishIsKept DEF PoolAccepted
  <2> QED BY <2>1, <2>2 DEF FinishSurvives, KeptOrMoved
<1> QED BY <1>1, <1>2

\* Work is moved only between its logic and its float, and for a reason, whatever the
\* network, its calendars, lags and progress, the pool and the order of placement:
\* "every predecessor is placed at or before its own late start, so the bound it
\* imposes is at or before this activity's late start" (levelling.py:353-355), by
\* induction on the placements.  The schedules meant are those LevelsFairly names,
\* levelled within the bound window.
THEOREM MovesStayWithinBounds ==
  LevellingSpec => [](LevelsFairly /\ LevellingInWindow => MovedWithinBounds)
<1>1. LevelInit => BoundsInv
  BY DEF LevelInit, BoundsInv, BoundsKept
<1>2. /\ Calculated /\ PoolAccepted /\ (PlacedAsInstants /\ LogicSurvives) /\ BoundsInv
      /\ [CPMNext]_vars /\ [LevellingNext]_<<vars, kind, levelVars>>
      => BoundsInv'
  BY BoundsStep
<1>3. /\ Calculated /\ PoolAccepted /\ (PlacedAsInstants /\ LogicSurvives) /\ BoundsInv
      => (LevelsFairly /\ LevellingInWindow => MovedWithinBounds)
  BY BoundsAreEnough
<1>4. CapacityInv => PoolAccepted
  BY DEF CapacityInv
<1>5. /\ Structure /\ DatedUnlessAlap /\ (CapsKept /\ LateDated /\ FloatsMeasured)
      /\ (SuccessorsConsidered /\ LateDatesAsked) /\ FinishUnlessAlap
      => Calculated
  BY DEF Calculated
<1> QED BY <1>1, <1>2, <1>3, <1>4, <1>5, LevellingCalculates, LogicHolds, CapacityHolds,
           StructureHolds, DatedUnlessAlapHolds, CapsAndFloats, LateDatesAskedHolds,
           FinishHolds, PTL DEF LevellingSpec, CPMSpec

-----------------------------------------------------------------------------
\* Milestones.

\* All the links into m are plain, and the work credited with driving it keeps
\* its calendar.
DrivenPlainly(m) ==
  /\ driving[m] # None /\ ~IsAlap(m)
  /\ Task(m).cal = Task(driving[m]).cal
  /\ \A k \in DOMAIN edges : edges[k][2] = m => Link(k).type = "FS" /\ Link(k).lag = 0

\* Only what the links date has a driver, and from the end of the backward pass
\* on it stays at the boundary of that driver: the post-pass finds no room to
\* move the driver away.
DriversHold ==
  \A m \in Node :
    driving[m] # None =>
      /\ ~IsComplete(Task(m)) /\ es[m] # None
      /\ phase \in {"alap", "float", "done"} /\ DrivenPlainly(m) =>
           /\ es[m] = SnapStartForward(Days(m), ef[driving[m]])
           /\ \E k \in DOMAIN edges : edges[k] = <<driving[m], m>>

\* The end of the backward pass hands the post-pass the starts the links asked for.
LEMMA DriversHoldAtFirst ==
  ASSUME Structure, StartIsExplained, phase = "backward",
         NEW m \in Node, ~IsComplete(Task(m)), es[m] # None, DrivenPlainly(m)
  PROVE  /\ es[m] = SnapStartForward(Days(m), ef[driving[m]])
         /\ \E k \in DOMAIN edges : edges[k] = <<driving[m], m>>
<1>1. PICK k \in DOMAIN edges :
        edges[k] = <<driving[m], m>> /\ es[m] = SnapStartForward(Days(m), LinkBound(k))
  BY DEF StartIsExplained, DrivenPlainly
<1>2. edges[k][1] = driving[m] /\ edges[k][2] = m
  BY <1>1
<1>3. Link(k).type = "FS" /\ Link(k).lag = 0
  BY <1>2 DEF DrivenPlainly
<1>4. LinkBound(k) = ef[driving[m]]
  BY <1>2, <1>3 DEF LinkBound, ForwardBound, AdvanceLag, DrivesSuccessorFinish,
     FromPredecessorStart
<1> QED BY <1>1, <1>4

\* The post-pass leaves a driver and what it drives plainly where they are.
LEMMA SlideKeepsDrivers ==
  ASSUME Structure, SlideLate, NEW m \in Node, DrivenPlainly(m),
         es[m] = SnapStartForward(Days(m), ef[driving[m]]),
         \E k \in DOMAIN edges : edges[k] = <<driving[m], m>>
  PROVE  es'[m] = es[m] /\ ef'[driving[m]] = ef[driving[m]]
<1>1. PICK k \in DOMAIN edges : edges[k] = <<driving[m], m>>
  OBVIOUS
<1>2. PICK p : p = driving[m]
  OBVIOUS
<1>3. phase = "alap" /\ edges[k][1] = p /\ edges[k][2] = m
  BY <1>1, <1>2 DEF SlideLate
<1>4. /\ p \in Node /\ IsLattice(Days(p)) /\ ef[p] \in Int
      /\ CountWorkingDays(Days(p), ef[p], es[m]) \in AlapRooms(p)
  BY <1>3, RoomBeforeSuccessor
<1>5. Days(m) = Days(p)
  BY <1>2 DEF DrivenPlainly, Days
<1>6. CountWorkingDays(Days(p), ef[p], es[m]) = 0
  <2>1. es[m] = SnapStartForward(Days(p), ef[p])
    BY <1>2, <1>5
  <2>2. BisectLeft(Days(p), es[m]) = BisectLeft(Days(p), ef[p])
    BY <1>4, <2>1, SnapSkipsNothing
  <2> QED BY <1>4, <2>2, PositionsCount DEF CountWorkingDays
<1>7. CASE UNCHANGED <<es, ef>>
  BY <1>7
<1>8. CASE ~UNCHANGED <<es, ef>>
  <2>1. PICK a : a = order[at]
    OBVIOUS
  <2>2. /\ MaySlide(a)
        /\ \E room \in AlapRooms(a) :
             /\ room > 0 /\ \A r \in AlapRooms(a) : room <= r
             /\ \E start, finish :
                  /\ es' = [es EXCEPT ![a] = start] /\ ef' = [ef EXCEPT ![a] = finish]
    BY <1>8, <2>1, SlideRoom
  <2>3. a # m
    BY <2>2 DEF MaySlide, DrivenPlainly
  <2>4. a # p
    <3>1. PICK room \in AlapRooms(a) : room \in Int /\ room > 0 /\ \A r \in AlapRooms(a) : room <= r
      BY <1>8, <2>1, SlideRoom
    <3> QED BY <1>4, <1>6, <3>1
  <2>5. PICK start, finish : es' = [es EXCEPT ![a] = start] /\ ef' = [ef EXCEPT ![a] = finish]
    BY <2>2
  <2>6. DOMAIN es = Node /\ DOMAIN ef = Node
    BY DEF Structure, DatesTyped
  <2> QED BY <1>2, <1>4, <2>3, <2>4, <2>5, <2>6
<1> QED BY <1>7, <1>8

\* Only dating an activity says what drives it.
LEMMA WhoDrives ==
  ASSUME [CPMNext]_vars
  PROVE  /\ PlaceEarly \/ UNCHANGED driving
         /\ phase' \in {"alap", "float", "done"} =>
              phase \in {"alap", "float", "done"} \/ StartPostPass
BY DEF CPMNext, Validate, Sort, StartForward, Forward, KeepActuals, ConsiderPredecessor,
   SetDeadline, Backward, KeepActualsLate, ConsiderSuccessor, PlaceLate, PlaceEarly,
   StartPostPass, PostPass, SlideLate, StartFloat, MeasureFloat, Return, vars, cpmVars,
   earlyVars

\* No step takes an activity away from the boundary of what drives it.
LEMMA DriversHoldStep ==
  ASSUME Structure, StartIsExplained, DriversHold, [CPMNext]_vars
  PROVE  DriversHold'
<1>1. net' = net /\ edges' = edges
  BY StepsKeepTheNetwork
<1>2. /\ \A b : Days(b)' = Days(b) /\ Task(b)' = Task(b) /\ IsAlap(b)' = IsAlap(b)
      /\ \A b : IsComplete(Task(b))' = IsComplete(Task(b)) /\ Link(b)' = Link(b)
  BY <1>1 DEF Days, Task, IsAlap, IsComplete, Link
<1>3. driving' = driving => \A b \in Node : DrivenPlainly(b)' <=> DrivenPlainly(b)
  BY <1>1 DEF DrivenPlainly, Link, IsAlap, Task
<1>4. /\ DOMAIN es = Node /\ DOMAIN ef = Node /\ DOMAIN driving = Node
      /\ \A b \in Node : IsComplete(Task(b)) => driving[b] = None
  BY DEF Structure, DatesTyped, DriversHold
<1>5. CASE PlaceEarly
  <2>1. phase' \notin {"alap", "float", "done"}
    BY <1>5 DEF PlaceEarly
  <2>2. PICK a : a = order[at]
    OBVIOUS
  <2>3. PICK start, drives :
          /\ a \in Node /\ start \in Int /\ ~IsComplete(Task(a))
          /\ es' = [es EXCEPT ![a] = start] /\ driving' = [driving EXCEPT ![a] = drives]
    BY <1>5, <2>2, PlaceEarlyStep
  <2>4. ASSUME NEW m \in Node, driving'[m] # None
        PROVE  ~IsComplete(Task(m)) /\ es'[m] # None
    BY <1>4, <2>3, <2>4, NoneAssumption DEF DriversHold
  <2> QED BY <1>2, <2>1, <2>4 DEF DriversHold
<1>6. CASE SlideLate
  <2>1. phase = "alap" /\ driving' = driving
    BY <1>6 DEF SlideLate
  <2>2. ASSUME NEW m \in Node, driving[m] # None
        PROVE  ~IsComplete(Task(m)) /\ es'[m] # None
    <3>1. ~IsComplete(Task(m)) /\ es[m] # None
      BY <2>2 DEF DriversHold
    <3>2. UNCHANGED es \/ \E start \in Int : es' = [es EXCEPT ![order[at]] = start]
      BY <1>6, SlideLateStep
    <3> QED BY <1>4, <3>1, <3>2, NoneAssumption
  <2>3. ASSUME NEW m \in Node, DrivenPlainly(m)
        PROVE  /\ es'[m] = SnapStartForward(Days(m), ef'[driving[m]])
               /\ \E k \in DOMAIN edges : edges[k] = <<driving[m], m>>
    <3>1. /\ es[m] = SnapStartForward(Days(m), ef[driving[m]])
          /\ \E k \in DOMAIN edges : edges[k] = <<driving[m], m>>
      BY <2>1, <2>3 DEF DriversHold, DrivenPlainly
    <3>2. es'[m] = es[m] /\ ef'[driving[m]] = ef[driving[m]]
      BY <1>6, <2>3, <3>1, SlideKeepsDrivers
    <3> QED BY <3>1, <3>2
  <2> QED BY <1>1, <1>2, <1>3, <2>1, <2>2, <2>3 DEF DriversHold
<1>7. CASE KeepActuals
  <2>1. phase' \notin {"alap", "float", "done"} /\ driving' = driving
    BY <1>7 DEF KeepActuals
  <2>2. PICK a : a = order[at]
    OBVIOUS
  <2>3. PICK start : a \in Node /\ IsComplete(Task(a)) /\ es' = [es EXCEPT ![a] = start]
    BY <1>7, <2>2, KeepActualsStep
  <2>4. ASSUME NEW m \in Node, driving[m] # None
        PROVE  ~IsComplete(Task(m)) /\ es'[m] # None
    BY <1>4, <2>3, <2>4 DEF DriversHold
  <2> QED BY <1>2, <2>1, <2>4 DEF DriversHold
<1>8. CASE UNCHANGED <<es, ef, driving>>
  <2>1. ASSUME NEW m \in Node, driving[m] # None
        PROVE  ~IsComplete(Task(m)) /\ es[m] # None
    BY <2>1 DEF DriversHold
  <2>2. ASSUME NEW m \in Node, DrivenPlainly(m), phase' \in {"alap", "float", "done"}
        PROVE  /\ es[m] = SnapStartForward(Days(m), ef[driving[m]])
               /\ \E k \in DOMAIN edges : edges[k] = <<driving[m], m>>
    <3>1. driving[m] # None
      BY <2>2 DEF DrivenPlainly
    <3>2. CASE phase \in {"alap", "float", "done"}
      BY <2>2, <3>1, <3>2 DEF DriversHold
    <3>3. CASE StartPostPass
      <4>1. phase = "backward"
        BY <3>3 DEF StartPostPass
      <4> QED BY <2>1, <2>2, <3>1, <4>1, DriversHoldAtFirst
    <3> QED BY <2>2, <3>2, <3>3, WhoDrives
  <2> QED BY <1>1, <1>2, <1>3, <1>8, <2>1, <2>2 DEF DriversHold
<1> QED BY <1>5, <1>6, <1>7, <1>8, WhoWrites, WhoDrives

\* The last day a piece of work shows lies at or before the working day w, if
\* it ends by the boundary that w's calendar snaps the end of w to.
LEMMA ShownByThen ==
  ASSUME Structure, phase = "done", NEW m \in Node, NEW b \in Node, EndsWith(b, m),
         NEW w \in Days(m), ef[m] = SnapStartForward(Days(m), w + 1)
  PROVE  Shown(b)[2] \in Int /\ Shown(b)[2] <= w
<1>1. /\ IsLattice(Days(m)) /\ es[b] \in Int /\ ef[b] \in Int /\ ef[m] \in Int
      /\ w \in Int /\ w + 1 \in Int /\ ef[b] <= ef[m]
  BY ShownIsADay, ActivityFacts DEF Structure, NetworkFixed, IsLattice, EndsWith
<1>2. CASE es[b] # ef[b]
  <2>1. ef[b] - 1 \in Days(m) /\ Shown(b)[2] = ef[b] - 1
    BY <1>2 DEF EndsWith, Shown, Present
  <2>2. ef[b] - 1 < w + 1
    BY <1>1, <2>1, SnapSkipsNothing
  <2> QED BY <1>1, <2>1, <2>2
<1>3. CASE es[b] = ef[b]
  <2>1. kind[b] = "finish_milestone" /\ Days(b) = Days(m)
    BY <1>3 DEF EndsWith, Days
  <2>2. Shown(b)[2] = SnapStartBack(Days(m), es[b] - 1)
    BY <1>3, <2>1 DEF Shown, Present
  <2>3. es[b] - 1 \in Int /\ es[b] - 1 <= SnapStartForward(Days(m), w + 1) - 1
    BY <1>1, <1>3
  <2> QED BY <1>1, <2>2, <2>3, SnapClosesItsDay
<1> QED BY <1>2, <1>3

\* A driver that stays at its milestone's boundary is what the milestone closes.
LEMMA MilestoneClosesDriver ==
  ASSUME Structure, DriversHold, phase = "done",
         NEW m \in Node, NEW p, p = driving[m],
         kind[m] = "finish_milestone", es[m] = ef[m], p # None, ~IsAlap(m),
         Task(m).cal = Task(p).cal, es[p] # ef[p], ef[p] - 1 \in Days(p),
         \A k \in DOMAIN edges : edges[k][2] = m => Link(k).type = "FS" /\ Link(k).lag = 0
  PROVE  /\ Shown(m) = <<Shown(p)[2], Shown(p)[2]>>
         /\ (\A b \in Node : EndsWith(b, m)) => ShownProjectFinish = Shown(p)[2]
<1>1. p \in Node /\ Days(m) = Days(p) /\ IsLattice(Days(m))
  BY ActivityFacts DEF Structure, NetworkFixed, DatesTyped, Days
<1>2. PICK w : w = ef[p] - 1
  OBVIOUS
<1>3. /\ es[m] \in Int /\ ef[p] \in Int /\ w \in Days(m) /\ w \in Int /\ w + 1 = ef[p]
  BY <1>1, <1>2, ShownIsADay
<1>4. es[m] = SnapStartForward(Days(m), w + 1)
  BY <1>3 DEF DriversHold, DrivenPlainly
<1>5. Shown(p)[2] = w
  BY <1>2 DEF Shown, Present
<1>6. Shown(m) = <<w, w>>
  <2>1. SnapStartBack(Days(m), es[m] - 1) = w
    BY <1>1, <1>3, <1>4, SnapClosesItsDay
  <2> QED BY <2>1 DEF Shown, Present
<1>7. ASSUME \A b \in Node : EndsWith(b, m)
      PROVE  ShownProjectFinish = w
  <2> DEFINE shown == {[a \in Node |-> Shown(a)][b][2] : b \in Node}
  <2>1. \A a \in Node : Shown(a)[2] \in Int /\ Shown(a)[2] <= w
    BY <1>3, <1>4, <1>7, ShownByThen
  <2>2. w \in shown
    BY <1>1, <1>5
  <2>3. \A day \in shown : day \in Int /\ day <= w
    BY <2>1
  <2>4. ShownProjectFinish = Max(shown)
    BY DEF ShownProjectFinish, ShownFinish
  <2> HIDE DEF shown
  <2>5. /\ \A y \in shown : w >= y
        /\ \A x \in shown : (\A y \in shown : x >= y) => x = w
    BY <1>3, <2>2, <2>3
  <2>6. Max(shown) = w
    BY <2>2, <2>5 DEF Max
  <2> QED BY <2>4, <2>6
<1> QED BY <1>5, <1>6, <1>7

\* Whatever the network and its calendars, a finish milestone that plain links
\* hold to work of its own calendar shows the last day of that work, and closes
\* the project on it when nothing ends later (schedule.py:149-171).
THEOREM MilestonesCloseWork == CPMSpec => []MilestoneClosesWork
<1>1. CPMInit => DriversHold
  BY DEF CPMInit, DriversHold
<1>2. Structure /\ (LinksHonoured /\ StartIsExplained) /\ DriversHold /\ [CPMNext]_vars
      => DriversHold'
  BY DriversHoldStep
<1>3. Structure /\ DriversHold => MilestoneClosesWork
  BY MilestoneClosesDriver DEF MilestoneClosesWork
<1> QED BY <1>1, <1>2, <1>3, StructureHolds, LinkProperties, PTL DEF CPMSpec

-----------------------------------------------------------------------------
\* Health.  The assessment calculates the plan, checks it, and calculates it again
\* with a delay in it; one run of the calculation is followed by another, and every
\* run keeps what the engine's runs keep.

\* The late start of work still to do, a span back from its late finish.
LateStartsDrawn ==
  \A a \in Node : Open(a) /\ ls[a] # None =>
    ls[a] = StartFromFinish(Days(a), lf[a], Duration(Task(a)))

\* From its early start, the work of the activity that ends the project reaches
\* the project finish; the post-pass only moves it later.
FinishReached ==
  /\ terminal \in Node /\ projectFinish \in Int
  /\ Open(terminal) =>
       /\ es[terminal] \in Int
       /\ BisectLeft(Days(terminal), projectFinish)
            <= BisectLeft(Days(terminal), es[terminal]) + Duration(Task(terminal))

FinishReachedOnceSet == phase \in {"backward", "alap", "float", "done"} => FinishReached

\* What one run of the calculation keeps true, whichever network it was started on.
RunInv ==
  /\ CPMInv /\ LinksHonoured /\ StartIsExplained /\ DatedAsAsked
  /\ SpansDrawn /\ LateFinishCapped /\ LateDated /\ LateStartsDrawn
  /\ FloatsMeasured /\ FinishReachedOnceSet

\* Every run starts so.
LEMMA RunInvInit ==
  ASSUME IsGraph, IsNetwork, CPMInit
  PROVE  RunInv
<1>1. CPMInv
  BY StructureInit DEF CPMInit, CPMInv, LinksConsidered
<1>2. LinksHonoured /\ StartIsExplained /\ DatedAsAsked /\ FinishReachedOnceSet
  BY DEF CPMInit, LinksHonoured, StartIsExplained, DatedAsAsked, FinishReachedOnceSet
<1>3. SpansDrawn /\ LateFinishCapped /\ LateDated /\ LateStartsDrawn /\ FloatsMeasured
  BY DEF CPMInit, SpansDrawn, LateFinishCapped, LateDated, LateStartsDrawn, FloatsMeasured
<1> QED BY <1>1, <1>2, <1>3 DEF RunInv

\* A duration is never less than nothing.
LEMMA DurationIsNatural ==
  ASSUME IsNetwork, NEW a \in Node
  PROVE  Duration(Task(a)) \in Nat
<1>1. /\ Task(a).dur \in Nat /\ Task(a).remaining \in MaybeInt /\ Task(a).percent \in MaybeInt
  BY ActivityFacts DEF Activity
<1>2. ASSUME NEW n \in Nat, NEW p \in Int
      PROVE  RoundHalfEven(n * (10 - Earlier(Later(p, 0), 10)), 10) \in Nat
  <2>1. PICK q : q = 10 - Earlier(Later(p, 0), 10) /\ q \in 0..10
    BY DEF Earlier, Later
  <2>2. n * q \in Nat
    BY <2>1
  <2>3. \A m \in Nat : RoundHalfEven(m, 10) \in Nat
    BY DEF RoundHalfEven
  <2> QED BY <2>1, <2>2, <2>3
<1>3. CASE IsComplete(Task(a)) \/ Task(a).remaining # None
  BY <1>1, <1>3 DEF Duration, RemainingDays, Later, MaybeInt
<1>4. CASE ~IsComplete(Task(a)) /\ Task(a).remaining = None
  <2>1. CASE ~IsStarted(Task(a)) \/ Task(a).percent = None
    BY <1>1, <1>4, <2>1 DEF Duration, RemainingDays
  <2>2. CASE IsStarted(Task(a)) /\ Task(a).percent # None
    <3>1. Task(a).percent \in Int
      BY <1>1, <2>2 DEF MaybeInt
    <3>2. RoundHalfEven(Task(a).dur * (10 - Earlier(Later(Task(a).percent, 0), 10)), 10) \in Nat
      BY <1>1, <1>2, <3>1
    <3> QED BY <1>1, <1>4, <2>2, <3>2 DEF Duration, RemainingDays
  <2> QED BY <2>1, <2>2
<1> QED BY <1>3, <1>4

\* A step of the calculation leaves the activities' list alone.
LEMMA NodesStay ==
  ASSUME [CPMNext]_vars
  PROVE  UNCHANGED nodes
<1>1. [KahnNext]_kahnVars => UNCHANGED nodes
  BY DEF KahnNext, Seed, StartLoop, Dequeue, Release, Finish, Walk, WalkEnds, kahnVars
<1> QED BY <1>1, StepsKeepTheNetwork

\* Which steps write the late starts.
LEMMA WhoWritesLate ==
  ASSUME [CPMNext]_vars
  PROVE  KeepActualsLate \/ PlaceLate \/ UNCHANGED <<ls, lf>>
<1> USE DEF passVars, earlyVars, lateVars, spanVars, floatVars, cpmVars, vars
<1>1. CASE Validate \/ Sort \/ StartForward
  BY <1>1 DEF Validate, Sort, StartForward
<1>2. CASE Forward
  BY <1>2 DEF Forward, ConsiderPredecessor, KeepActuals, PlaceEarly
<1>3. CASE SetDeadline
  BY <1>3 DEF SetDeadline
<1>4. CASE Backward
  BY <1>4 DEF Backward, ConsiderSuccessor
<1>5. CASE StartPostPass
  BY <1>5 DEF StartPostPass
<1>6. CASE PostPass
  BY <1>6 DEF PostPass, SlideLate, StartFloat, MeasureFloat, Return
<1>7. CASE UNCHANGED vars
  BY <1>7
<1> QED BY <1>1, <1>2, <1>3, <1>4, <1>5, <1>6, <1>7 DEF CPMNext

\* Late starts stay a span back from late finishes.
LEMMA LateStartsDrawnStep ==
  ASSUME Structure, LateStartsDrawn, [CPMNext]_vars
  PROVE  LateStartsDrawn'
<1>1. net' = net
  BY StepsKeepTheNetwork
<1> USE DEF LateStartsDrawn, Open, Task, Days
<1>2. CASE UNCHANGED <<ls, lf>>
  BY <1>1, <1>2
<1>3. CASE KeepActualsLate
  <2>1. /\ order[at] \in Node /\ Task(order[at]).finish # None
        /\ \E x : lf' = [lf EXCEPT ![order[at]] = x]
        /\ \E x : ls' = [ls EXCEPT ![order[at]] = x]
    BY <1>3, ActivityAtPosition DEF KeepActualsLate, IsComplete
  <2> QED BY <1>1, <2>1 DEF Structure, DatesTyped
<1>4. CASE PlaceLate
  <2>1. PICK a : a = order[at]
    OBVIOUS
  <2>2. PICK x \in Int, y \in Int :
          /\ a \in Node
          /\ lf' = [lf EXCEPT ![a] = x] /\ ls' = [ls EXCEPT ![a] = y]
          /\ y = StartFromFinish(Days(a), x, Duration(Task(a)))
    BY <1>4, <2>1, LatePlaced
  <2>3. /\ ls'[a] = y /\ lf'[a] = x
        /\ \A b \in Node : b # a => ls'[b] = ls[b] /\ lf'[b] = lf[b]
    BY <2>2 DEF Structure, DatesTyped
  <2> QED BY <1>1, <2>2, <2>3
<1> QED BY <1>2, <1>3, <1>4, WhoWritesLate

\* The finish is reached when it is set, and stays so.
LEMMA FinishReachedStep ==
  ASSUME Structure, SpansDrawn, FinishReachedOnceSet, [CPMNext]_vars
  PROVE  FinishReachedOnceSet'
<1>1. net' = net /\ \A b : Days(b)' = Days(b) /\ Task(b)' = Task(b)
  BY StepsKeepTheNetwork DEF Days, Task
<1>2. CASE SetDeadline
  <2>1. /\ phase = "forward" /\ at = Len(order) + 1 /\ UNCHANGED <<es, ef>>
        /\ KahnInv /\ sort = "ordered"
    BY <1>2 DEF SetDeadline, earlyVars, Structure, PhaseOrder, Passes
  <2>2. PICK b \in Node : projectFinish' = ef[b] /\ terminal' = TerminalActivity(ef[b])
    BY <1>2 DEF SetDeadline
  <2>3. PICK t \in Node : terminal' = t /\ ef[t] = ef[b]
    BY <2>1, <2>2, TerminalEnds
  <2>4. ef[t] \in Int /\ es[t] \in Int
    <3>1. \A j \in DOMAIN order : j < at
      BY <2>1, OrderFacts
    <3>2. \E j \in DOMAIN order : order[j] = t
      BY <2>1, OrderFacts
    <3>3. ef[t] # None
      BY <2>1, <3>1, <3>2 DEF Structure, DatedPrefix
    <3> QED BY <3>3 DEF Structure, DatesTyped, MaybeInt
  <2>5. ASSUME Open(t)
        PROVE  BisectLeft(Days(t), ef[t]) <= BisectLeft(Days(t), es[t]) + Duration(Task(t))
    <3>1. SpanDrawn(t)
      BY <2>1, <2>4, <2>5, NoneAssumption DEF SpansDrawn, Slid, Open, IsComplete
    <3>2. PICK lat : lat = Days(t) /\ IsLattice(lat)
      BY ActivityFacts DEF Structure, NetworkFixed
    <3>3. PICK d \in Nat : d = Duration(Task(t))
      BY DurationIsNatural DEF Structure, NetworkFixed
    <3>4. BisectLeft(lat, es[t]) \in Nat /\ BisectLeft(lat, ef[t]) \in Nat
      BY <3>2, PositionsCount
    <3>5. CASE d = 0
      BY <3>1, <3>2, <3>3, <3>4, <3>5 DEF SpanDrawn, FinishFromStart
    <3>6. CASE d > 0 /\ es[t] \in lat
      <4>1. PICK v \in lat : /\ ef[t] = v + 1
                             /\ \/ BisectLeft(lat, v) = BisectLeft(lat, es[t]) + (d - 1)
                                \/ v = es[t]
        BY <3>1, <3>2, <3>3, <3>6, FinishOfSpan DEF SpanDrawn
      <4>2. BisectLeft(lat, v + 1) = BisectLeft(lat, v) + 1 /\ BisectLeft(lat, v) \in Nat
        BY <3>2, PastAWorkingDay, PositionsCount
      <4> QED BY <3>2, <3>3, <3>4, <3>6, <4>1, <4>2
    <3>7. CASE d > 0 /\ \A w \in lat : w < es[t]
      <4>1. ~\E w \in lat : IsDaysFrom(lat, es[t], d - 1, w)
        <5> SUFFICES ASSUME NEW w \in lat, IsDaysFrom(lat, es[t], d - 1, w)
                     PROVE  FALSE
          OBVIOUS
        <5>1. w \in Int /\ w < es[t]
          BY <3>2, <3>7 DEF IsLattice
        <5>2. BisectLeft(lat, w) < BisectLeft(lat, es[t])
          BY <2>4, <3>2, <5>1, PositionsGrow
        <5>3. BisectLeft(lat, w) \in Nat
          BY <3>2, PositionsCount
        <5> QED BY <3>3, <3>4, <3>7, <5>2, <5>3 DEF IsDaysFrom
      <4>2. ef[t] = es[t] + 1
        BY <3>1, <3>2, <3>3, <3>7, <4>1 DEF SpanDrawn, FinishFromStart, AddWorkingDays
      <4>3. DaysBefore(lat, es[t] + 1) = DaysBefore(lat, es[t])
        <5>1. \A w \in lat : w \in Int /\ w < es[t]
          BY <3>2, <3>7 DEF IsLattice
        <5> QED BY <2>4, <5>1 DEF DaysBefore
      <4> QED BY <3>2, <3>3, <3>4, <4>2, <4>3 DEF BisectLeft
    <3> QED BY <3>1, <3>2, <3>3, <3>5, <3>6, <3>7 DEF SpanDrawn
  <2>6. Open(terminal)' <=> Open(t)
    BY <1>1, <2>3 DEF Open
  <2>7. /\ terminal' \in Node /\ projectFinish' \in Int
        /\ Open(t) =>
             /\ es'[t] \in Int
             /\ BisectLeft(Days(t), projectFinish') <= BisectLeft(Days(t), es'[t]) + Duration(Task(t))
    BY <2>1, <2>2, <2>3, <2>4, <2>5
  <2>8. FinishReached'
    BY <1>1, <2>3, <2>6, <2>7 DEF FinishReached, Open, Task, Days
  <2> QED BY <2>8 DEF FinishReachedOnceSet
<1>3. CASE ~SetDeadline
  <2>1. /\ phase' \in {"backward", "alap", "float", "done"}
             => /\ phase \in {"backward", "alap", "float", "done"}
                /\ UNCHANGED <<terminal, projectFinish>>
                /\ SlideLate \/ UNCHANGED es
    <3> USE DEF passVars, earlyVars, lateVars, spanVars, floatVars, cpmVars, vars
    <3>1. CASE Validate \/ Sort \/ StartForward
      BY <3>1 DEF Validate, Sort, StartForward
    <3>2. CASE Forward
      BY <3>2 DEF Forward, ConsiderPredecessor, KeepActuals, PlaceEarly
    <3>3. CASE Backward
      BY <3>3 DEF Backward, ConsiderSuccessor, KeepActualsLate, PlaceLate
    <3>4. CASE StartPostPass
      BY <3>4 DEF StartPostPass
    <3>5. CASE PostPass
      BY <3>5 DEF PostPass, SlideLate, StartFloat, MeasureFloat, Return
    <3>6. CASE UNCHANGED vars
      BY <3>6
    <3> QED BY <1>3, <3>1, <3>2, <3>3, <3>4, <3>5, <3>6 DEF CPMNext
  <2> SUFFICES ASSUME phase' \in {"backward", "alap", "float", "done"}
               PROVE  FinishReached'
    BY DEF FinishReachedOnceSet
  <2>2. FinishReached /\ UNCHANGED <<terminal, projectFinish>>
    BY <2>1 DEF FinishReachedOnceSet
  <2>3. CASE UNCHANGED es
    BY <1>1, <2>2, <2>3 DEF FinishReached, Open, Days, Task
  <2>4. CASE SlideLate
    <3>1. PICK t \in Node : t = terminal
      BY <2>2 DEF FinishReached
    <3>2. ASSUME Open(t)
          PROVE  es'[t] \in Int /\ es'[t] >= es[t]
      <4>1. es[t] \in Int
        BY <2>2, <3>1, <3>2 DEF FinishReached
      <4>2. \/ es' = es
            \/ \E start \in Int : start >= es[order[at]] /\ es' = [es EXCEPT ![order[at]] = start]
        BY <2>4, SlideLateStep
      <4> QED BY <4>1, <4>2 DEF Structure, DatesTyped
    <3>3. ASSUME Open(t)
          PROVE  BisectLeft(Days(t), projectFinish) <= BisectLeft(Days(t), es'[t]) + Duration(Task(t))
      <4>1. IsLattice(Days(t)) /\ Duration(Task(t)) \in Int
        BY ActivityFacts DEF Structure, NetworkFixed
      <4>2. /\ BisectLeft(Days(t), es[t]) <= BisectLeft(Days(t), es'[t])
            /\ BisectLeft(Days(t), es[t]) \in Nat /\ BisectLeft(Days(t), es'[t]) \in Nat
            /\ BisectLeft(Days(t), projectFinish) \in Nat
        BY <2>2, <3>1, <3>2, <3>3, <4>1, PositionsGrow, PositionsCount DEF FinishReached
      <4> QED BY <2>2, <3>1, <3>3, <4>1, <4>2 DEF FinishReached
    <3> QED BY <1>1, <2>2, <3>1, <3>2, <3>3 DEF FinishReached, Open, Days, Task
  <2> QED BY <2>1, <2>3, <2>4
<1> QED BY <1>2, <1>3

\* Every step of a run keeps it.
LEMMA RunInvStep ==
  ASSUME RunInv, [CPMNext]_vars
  PROVE  RunInv'
<1> USE DEF RunInv, CPMInv
<1>1. Structure'
  <2>1. KahnInv'
    BY StepsKeepTheNetwork, KahnSteps DEF Structure
  <2>2. NetworkFixed'
    BY StepsKeepTheNetwork DEF Structure, NetworkFixed, IsNetwork, Task, ActiveEdges, Suppressed
  <2> QED BY <2>1, <2>2, StructureSteps DEF Structure
<1>2. LinksConsidered'
  BY LinksConsideredStep
<1>3. LinksHonoured' /\ StartIsExplained'
  BY LinkPropertiesStep
<1>4. DatedAsAsked'
  BY DatedAsAskedKept
<1>5. SpansDrawn' /\ LateFinishCapped' /\ LateDated' /\ LateStartsDrawn'
  BY SpansDrawnStep, LateCapStep, LateDatedStep, LateStartsDrawnStep
<1>6. FloatsMeasured' /\ FinishReachedOnceSet'
  BY NodesStay, FloatsMeasuredStep, FinishReachedStep
<1> QED BY <1>1, <1>2, <1>3, <1>4, <1>5, <1>6

-----------------------------------------------------------------------------
\* What holds of 0 and of the next number after each holds up to N.
LEMMA CountUp ==
  ASSUME NEW N \in Nat, NEW S, 0 \in S, \A n \in 0..N : n \in S /\ n # N => n + 1 \in S
  PROVE  \A n \in 0..N : n \in S
<1> DEFINE B == {n \in 0..N : n \notin S}
<1>1. ASSUME B # {} PROVE FALSE
  <2>1. B \in SUBSET (0..N) /\ B \in SUBSET Int
    OBVIOUS
  <2>2. IsFiniteSet(0..N)
    <3>1. 0 \in Int /\ N \in Int
      OBVIOUS
    <3> QED BY <3>1, FS_Interval
  <2> HIDE DEF B
  <2>3. IsFiniteSet(B)
    BY <2>1, <2>2, FS_Subset
  <2>4. PICK n \in B : \A j \in B : n <= j
    BY <1>1, <2>1, <2>3, HasLeast
  <2>5. n \in 0..N /\ n \notin S
    BY <2>4 DEF B
  <2>6. n # 0 /\ n - 1 \in 0..N /\ n - 1 # N /\ ~(n <= n - 1) /\ (n - 1) + 1 = n
    BY <2>5
  <2>7. n - 1 \in S
    BY <2>4, <2>6 DEF B
  <2> QED BY <2>5, <2>6, <2>7
<1> QED BY <1>1

\* What holds of each number when it holds of those before it holds up to N.
LEMMA CountOn ==
  ASSUME NEW N \in Nat, NEW S,
         \A n \in 1..N : (\A m \in 1..N : m < n => m \in S) => n \in S
  PROVE  \A n \in 1..N : n \in S
<1> DEFINE B == {n \in 1..N : n \notin S}
<1>1. ASSUME B # {} PROVE FALSE
  <2>1. B \in SUBSET (1..N) /\ B \in SUBSET Int
    OBVIOUS
  <2>2. IsFiniteSet(1..N)
    <3>1. 1 \in Int /\ N \in Int
      OBVIOUS
    <3> QED BY <3>1, FS_Interval
  <2> HIDE DEF B
  <2>3. IsFiniteSet(B)
    BY <2>1, <2>2, FS_Subset
  <2>4. PICK n \in B : \A j \in B : n <= j
    BY <1>1, <2>1, <2>3, HasLeast
  <2>5. n \in 1..N /\ n \notin S
    BY <2>4 DEF B
  <2>6. ASSUME NEW m \in 1..N, m < n
        PROVE  m \in S
    <3>1. m \notin B
      BY <2>4, <2>5, <2>6
    <3> QED BY <3>1 DEF B
  <2> QED BY <2>5, <2>6
<1> QED BY <1>1

\* f applies g again and again, from b on.
Iterates(N, b, g, f) == f = [n \in 0..N |-> IF n = 0 THEN b ELSE g[f[n - 1]]]

\* It can be applied any number of times.
LEMMA IterationExists ==
  ASSUME NEW N \in Nat, NEW b, NEW g
  PROVE  \E f : Iterates(N, b, g, f)
<1> DEFINE S == {n \in 0..N : \E f : Iterates(n, b, g, f)}
<1>1. 0 \in S
  <2> DEFINE f == [i \in 0..0 |-> b]
  <2>1. \A i \in 0..0 : i = 0
    OBVIOUS
  <2>2. Iterates(0, b, g, f)
    BY <2>1 DEF Iterates
  <2> QED BY <2>2
<1>2. ASSUME NEW n \in 0..N, n \in S, n # N
      PROVE  n + 1 \in S
  <2>1. PICK m \in 0..N : m = n + 1
    BY <1>2
  <2>2. PICK f : Iterates(n, b, g, f)
    BY <1>2
  <2> DEFINE h == [i \in 0..m |-> IF i < m THEN f[i] ELSE g[f[n]]]
  <2>3. \A i \in 0..n : f[i] = IF i = 0 THEN b ELSE g[f[i - 1]]
    BY <2>2 DEF Iterates
  <2>4. ASSUME NEW i \in 0..m
        PROVE  h[i] = IF i = 0 THEN b ELSE g[h[i - 1]]
    <3>1. CASE i < m
      <4>1. i \in 0..n /\ (i # 0 => i - 1 \in 0..m /\ i - 1 < m)
        BY <2>1, <3>1
      <4>2. h[i] = f[i] /\ (i # 0 => h[i - 1] = f[i - 1])
        BY <3>1, <4>1
      <4> HIDE DEF h
      <4> QED BY <2>3, <4>1, <4>2
    <3>2. CASE ~(i < m)
      <4>1. i = m /\ i # 0 /\ i - 1 = n /\ n \in 0..m /\ n < m
        BY <2>1, <3>2
      <4>2. h[i] = g[f[n]] /\ h[n] = f[n]
        BY <4>1
      <4> HIDE DEF h
      <4> QED BY <4>1, <4>2
    <3> QED BY <3>1, <3>2
  <2>5. h = [i \in 0..m |-> h[i]]
    OBVIOUS
  <2> HIDE DEF h
  <2>6. h = [i \in 0..m |-> IF i = 0 THEN b ELSE g[h[i - 1]]]
    BY <2>4, <2>5
  <2>7. Iterates(m, b, g, h)
    BY <2>6 DEF Iterates
  <2> QED BY <2>1, <2>7
<1> HIDE DEF S
<1>3. \A n \in 0..N : n \in S
  BY <1>1, <1>2, CountUp
<1>4. N \in S
  BY <1>3
<1> QED BY <1>4 DEF S

-----------------------------------------------------------------------------
\* The probe starts a run of its own, on a legal network.
LEMMA ProbeRestarts ==
  ASSUME Structure, phase = "done", NEW r \in Reviews, Assess(r)
  PROVE  \/ UNCHANGED vars
         \/ (IsGraph /\ IsNetwork /\ CPMInit)'
<1>1. CASE ProbePoint = None
  BY <1>1 DEF Assess
<1>2. CASE ProbePoint # None
  <2>1. PICK a : Recalculate([net EXCEPT !.task[a].dur = @ + ProbeDays])
    BY <1>2 DEF Assess
  <2>2. /\ DOMAIN net = {"task", "links", "mode", "lagCalendar", "mustFinishBy", "dataDate"}
        /\ net.task \in [Node -> Activity]
        /\ edges = ActiveEdges(net) /\ IsGraph /\ IsNetwork
    BY DEF Structure, KahnInv, NetworkFixed, IsNetwork
  <2>3. PICK task : task = [net.task EXCEPT ![a].dur = @ + ProbeDays]
    OBVIOUS
  <2>4. net' = [net EXCEPT !.task = task]
    BY <2>1, <2>3 DEF Recalculate
  <2>5. /\ net'.task = task /\ net'.links = net.links /\ net'.mode = net.mode
        /\ net'.lagCalendar = net.lagCalendar /\ net'.mustFinishBy = net.mustFinishBy
        /\ net'.dataDate = net.dataDate /\ DOMAIN net' = DOMAIN net
    BY <2>2, <2>4
  <2>6. /\ task \in [Node -> Activity]
        /\ \A b \in Node : /\ task[b].dur >= 0 /\ task[b].cal = net.task[b].cal
                           /\ task[b].constraint = net.task[b].constraint
                           /\ task[b].cdate = net.task[b].cdate
                           /\ task[b].start = net.task[b].start
                           /\ task[b].finish = net.task[b].finish
    <3>1. ProbeDays \in Nat
      BY ProbeAssumption
    <3>2. CASE a \in Node
      <4>1. net.task[a] \in Activity /\ net.task[a].dur \in Nat
        BY <2>2, <3>2 DEF Activity
      <4>2. PICK x : x = [net.task[a] EXCEPT !.dur = @ + ProbeDays]
        OBVIOUS
      <4>3. /\ x \in Activity /\ x.dur >= 0 /\ x.cal = net.task[a].cal
            /\ x.constraint = net.task[a].constraint /\ x.cdate = net.task[a].cdate
            /\ x.start = net.task[a].start /\ x.finish = net.task[a].finish
        BY <3>1, <4>1, <4>2 DEF Activity
      <4>4. task = [net.task EXCEPT ![a] = x]
        BY <2>3, <4>2
      <4>5. \A b \in Node : task[b] = IF b = a THEN x ELSE net.task[b]
        BY <2>2, <4>4
      <4>6. \A b \in Node : net.task[b].dur >= 0
        BY <2>2 DEF Activity
      <4>7. task \in [Node -> Activity]
        BY <2>2, <4>3, <4>4
      <4> QED BY <4>3, <4>5, <4>6, <4>7
    <3>3. CASE a \notin Node
      <4>1. task = net.task
        BY <2>2, <2>3, <3>3
      <4> QED BY <2>2, <4>1 DEF Activity
    <3> QED BY <3>2, <3>3
  <2>7. IsNetwork'
    BY <2>2, <2>5, <2>6 DEF IsNetwork, Task, IsTask
  <2>8. nodes' = nodes /\ edges' = edges
    BY <2>1 DEF Recalculate
  <2>9. IsGraph'
    BY <2>2, <2>8 DEF IsGraph, Elements
  <2>10. edges' = ActiveEdges(net')
    <3>1. \A k \in DOMAIN net.links : Suppressed(net', net'.links[k]) <=> Suppressed(net, net.links[k])
      <4> SUFFICES ASSUME NEW k \in DOMAIN net.links
                   PROVE  Suppressed(net', net.links[k]) <=> Suppressed(net, net.links[k])
        BY <2>5
      <4>1. net.links[k].pred \in Node /\ net.links[k].succ \in Node
        BY <2>2 DEF IsNetwork
      <4> QED BY <2>5, <2>6, <4>1 DEF Suppressed, IsStarted, IsComplete
    <3>2. PICK n : n = net'
      OBVIOUS
    <3>3. ActiveEdges(n) = ActiveEdges(net)
      BY <2>5, <3>1, <3>2 DEF ActiveEdges
    <3> QED BY <2>2, <2>8, <3>2, <3>3
  <2>11. CPMInit'
    <3>1. KahnInit'
      BY <2>1, <2>8 DEF Recalculate, KahnInit, EdgesInto
    <3> QED BY <2>1, <2>10, <3>1 DEF Recalculate, CPMInit
  <2> QED BY <2>7, <2>9, <2>11
<1> QED BY <1>1, <1>2

\* A step of the assessment, as it touches the calculation: one of its own, none, or
\* the start of another run.
LEMMA AssessingRuns ==
  ASSUME Structure, [AssessingNext]_<<vars, kind, healthVars>>
  PROVE  \/ [CPMNext]_vars
         \/ (IsGraph /\ IsNetwork /\ CPMInit)'
<1>1. CASE CPMNext
  BY <1>1
<1>2. CASE HealthNext
  <2>1. CASE \E r \in Reviews : Assess(r)
    <3>1. PICK r \in Reviews : Assess(r)
      BY <2>1
    <3>2. phase = "done"
      BY <3>1 DEF Assess
    <3> QED BY <3>1, <3>2, ProbeRestarts
  <2>2. CASE AnswerProbe
    BY <2>2 DEF AnswerProbe
  <2> QED BY <1>2, <2>1, <2>2 DEF HealthNext
<1>3. CASE UNCHANGED <<vars, kind, healthVars>>
  BY <1>3
<1> QED BY <1>1, <1>2, <1>3 DEF AssessingNext

\* Through the assessment, with the run it starts for the probe.
LEMMA RunsHold == HealthSpec => []RunInv
<1>1. IsGraph /\ IsNetwork /\ CPMInit => RunInv
  BY RunInvInit
<1>2. RunInv /\ [AssessingNext]_<<vars, kind, healthVars>>
      => RunInv' \/ (IsGraph /\ IsNetwork /\ CPMInit)'
  BY AssessingRuns, RunInvStep DEF RunInv, CPMInv
<1> QED BY <1>1, <1>2, PTL DEF HealthSpec

\* Once done, every activity is dated and the order lists them all.
LEMMA DoneFacts ==
  ASSUME RunInv, phase = "done"
  PROVE  /\ sort = "ordered" /\ KahnInv /\ IsNetwork /\ FinishReached
         /\ deadline \in Int /\ projectFinish \in Int
         /\ \A a \in Node : es[a] \in Int /\ ef[a] \in Int /\ ls[a] \in Int /\ lf[a] \in Int
         /\ \A a \in Node : Open(a) => totalFloat[a] = CountWorkingDays(Days(a), es[a], ls[a])
<1>1. Structure /\ LateDated /\ FloatsMeasured /\ FinishReachedOnceSet
  BY DEF RunInv, CPMInv
<1>2. /\ sort = "ordered" /\ KahnInv /\ IsNetwork /\ FinishReached
      /\ deadline \in Int /\ projectFinish \in Int
  BY <1>1 DEF Structure, PhaseOrder, Passes, NetworkFixed, FinishReachedOnceSet
<1>3. \A a \in Node : es[a] \in Int /\ ef[a] \in Int /\ ls[a] \in Int /\ lf[a] \in Int
  <2> TAKE a \in Node
  <2>1. ef[a] # None /\ lf[a] # None
    BY <1>1 DEF Structure, PhaseOrder, Passes, LateDated
  <2> QED BY <1>1, <2>1 DEF Structure, DatesTyped, MaybeInt
<1>4. \A a \in Node : Open(a) => totalFloat[a] = CountWorkingDays(Days(a), es[a], ls[a])
  <2> TAKE a \in Node
  <2>1. \E i \in DOMAIN nodes : nodes[i] = a
    BY <1>2 DEF KahnInv, IsGraph, Elements
  <2> QED BY <1>1, <2>1 DEF FloatsMeasured
<1> QED BY <1>2, <1>3, <1>4

\* The late dates of the activity that ends the project lie in the window.
TerminalInWindow ==
  phase = "done" /\ Open(terminal) /\ Duration(Task(terminal)) > 0 => LateInWindow(terminal)

\* A span back from a finish begins as many working days before it.
LEMMA SpanBackFits ==
  ASSUME NEW lat, IsLattice(lat), NEW f \in Int, NEW d \in Nat,
         d > 0 => (\E w \in lat : w < f) /\ SpanLandsBack(lat, f, d)
  PROVE  BisectLeft(lat, StartFromFinish(lat, f, d)) + d <= BisectLeft(lat, f)
<1>1. BisectLeft(lat, f) \in Nat
  BY PositionsCount
<1>2. CASE d = 0
  BY <1>1, <1>2 DEF StartFromFinish
<1>3. CASE d # 0
  <2>1. PICK u \in Int : u = SnapStartBack(lat, f - 1) /\ u <= f - 1
    BY SnapBackMovesBack
  <2>2. 1 - d \in Int /\ -(d - 1) = 1 - d /\ Lands(lat, u, 1 - d)
    BY <1>3, <2>1 DEF SpanLandsBack
  <2>3. PICK z \in lat : z = AddWorkingDays(lat, u, 1 - d)
                         /\ BisectLeft(lat, z) = BisectLeft(lat, u) + (1 - d)
    BY <2>2, AddLands
  <2>4. StartFromFinish(lat, f, d) = z
    BY <1>3, <2>1, <2>2, <2>3 DEF StartFromFinish, SubWorkingDays
  <2>5. BisectLeft(lat, u) \in Nat /\ BisectLeft(lat, z) \in Nat
    BY PositionsCount
  <2>6. u \in lat
    <3>1. PICK w \in lat : w < f
      BY <1>3
    <3>2. w \in Int
      BY DEF IsLattice
    <3>3. w <= f - 1
      BY <3>1, <3>2
    <3> QED BY <2>1, <3>3, SnapBackLands
  <2>7. BisectLeft(lat, u) < BisectLeft(lat, f)
    BY <2>1, <2>6, PositionsGrow
  <2> QED BY <1>1, <1>3, <2>3, <2>4, <2>5, <2>7
<1> QED BY <1>2, <1>3

\* A schedule fit to optimise ends by its deadline, unless what ends it is finished
\* or pinned by a mandatory constraint.
LEMMA DateKept ==
  ASSUME RunInv, phase = "done", TerminalInWindow
  PROVE  DateIsKept
<1> DEFINE results == Checked([baseline |-> [a \in {} |-> 0], resourced |-> None], Skipped)
<1> SUFFICES ASSUME IsOptimisable(results), ~IsComplete(Task(terminal)),
                    Task(terminal).constraint \notin Mandatory
             PROVE  CountWorkingDays(Days(terminal), deadline, projectFinish) <= 0
  BY DEF DateIsKept
<1>1. PICK t \in Node : /\ t = terminal /\ Open(t)
                        /\ BisectLeft(Days(t), projectFinish)
                             <= BisectLeft(Days(t), es[t]) + Duration(Task(t))
  BY DoneFacts DEF FinishReached, Open, IsComplete
<1>2. PICK lat : lat = Days(t) /\ IsLattice(lat)
  BY DoneFacts, ActivityFacts
<1>3. PICK d \in Nat : d = Duration(Task(t))
  BY DoneFacts, DurationIsNatural
<1>4. PICK p \in Int : p = projectFinish
  BY DoneFacts
<1>5. PICK l \in Int : l = deadline
  BY DoneFacts
<1>6. es[t] \in Int /\ ls[t] \in Int /\ lf[t] \in Int
  BY DoneFacts
<1>7. NegativeCheck.status # "fail"
  <2>1. results[7] = NegativeCheck
    BY DEF Checked
  <2> HIDE DEF results
  <2> QED BY <2>1 DEF IsOptimisable
<1>8. FloatBelow(0) = {}
  BY <1>7 DEF NegativeCheck, NoActivity, Passed
<1>9. totalFloat[t] = CountWorkingDays(lat, es[t], ls[t])
  BY <1>1, <1>2, DoneFacts
<1>10. totalFloat[t] \in Int /\ totalFloat[t] # None
  BY <1>2, <1>9, CountIsInteger, NoneAssumption
<1>11. totalFloat[t] >= 0
  BY <1>8, <1>10 DEF FloatBelow
<1>12. /\ BisectLeft(lat, es[t]) \in Nat /\ BisectLeft(lat, ls[t]) \in Nat
       /\ BisectLeft(lat, lf[t]) \in Nat /\ BisectLeft(lat, p) \in Nat /\ BisectLeft(lat, l) \in Nat
  BY <1>2, PositionsCount
<1>13. BisectLeft(lat, es[t]) <= BisectLeft(lat, ls[t])
  BY <1>9, <1>11, <1>12 DEF CountWorkingDays
<1>14. BisectLeft(lat, ls[t]) + d <= BisectLeft(lat, lf[t])
  <2>1. ls[t] = StartFromFinish(lat, lf[t], d)
    BY <1>1, <1>2, <1>3, <1>6, NoneAssumption DEF RunInv, LateStartsDrawn
  <2>2. d > 0 => (\E w \in lat : w < lf[t]) /\ SpanLandsBack(lat, lf[t], d)
    BY <1>1, <1>2, <1>3 DEF TerminalInWindow, LateInWindow
  <2> QED BY <1>2, <1>6, <2>1, <2>2, SpanBackFits
<1>15. lf[t] <= l
  BY <1>1, <1>5, <1>6, NoneAssumption DEF RunInv, LateFinishCapped
<1>16. BisectLeft(lat, lf[t]) <= BisectLeft(lat, l)
  BY <1>2, <1>6, <1>15, PositionsGrow
<1>17. BisectLeft(lat, p) <= BisectLeft(lat, l)
  BY <1>1, <1>2, <1>3, <1>4, <1>12, <1>13, <1>14, <1>16
<1> QED BY <1>1, <1>2, <1>4, <1>5, <1>12, <1>17 DEF CountWorkingDays

-----------------------------------------------------------------------------
\* The checks against a baseline are those of the dates as they stand, probed or not.
BaselineChecked ==
  checks # None =>
    /\ review \in Reviews
    /\ {11, 12, 14} \subseteq DOMAIN checks
    /\ checks[11] = MissedCheck(review) /\ checks[14] = ExecutionCheck(review)

\* A probe leaves what was recorded and the data date alone.
RecordsStay ==
  /\ net'.dataDate = net.dataDate
  /\ \A a \in Node : net'.task[a].finish = net.task[a].finish

\* Every step does.
LEMMA RecordsStayAlways ==
  ASSUME Structure, [AssessingNext]_<<vars, kind, healthVars>>
  PROVE  RecordsStay
<1>1. CASE [CPMNext]_vars
  BY <1>1, StepsKeepTheNetwork DEF RecordsStay
<1>2. CASE \E r \in Reviews : Assess(r)
  <2>1. PICK r \in Reviews : Assess(r)
    BY <1>2
  <2>2. CASE ProbePoint = None
    BY <2>1, <2>2 DEF Assess, RecordsStay, vars, cpmVars
  <2>3. CASE ProbePoint # None
    <3>1. PICK a : net' = [net EXCEPT !.task[a].dur = @ + ProbeDays]
      BY <2>1, <2>3 DEF Assess, Recalculate
    <3>2. /\ DOMAIN net = {"task", "links", "mode", "lagCalendar", "mustFinishBy", "dataDate"}
          /\ net.task \in [Node -> Activity]
      BY DEF Structure, NetworkFixed, IsNetwork
    <3>3. PICK task : task = [net.task EXCEPT ![a].dur = @ + ProbeDays]
      OBVIOUS
    <3>4. net' = [net EXCEPT !.task = task]
      BY <3>1, <3>3
    <3>5. net'.task = task /\ net'.dataDate = net.dataDate
      BY <3>2, <3>4
    <3>6. \A b \in Node : task[b].finish = net.task[b].finish
      <4> TAKE b \in Node
      <4>1. CASE b # a
        BY <3>2, <3>3, <4>1
      <4>2. CASE b = a
        <5>1. net.task[b] \in Activity
          BY <3>2
        <5>2. task[b] = [net.task[b] EXCEPT !.dur = @ + ProbeDays]
          BY <3>2, <3>3, <4>2
        <5> QED BY <5>1, <5>2 DEF Activity
      <4> QED BY <4>1, <4>2
    <3> QED BY <3>5, <3>6 DEF RecordsStay
  <2> QED BY <2>2, <2>3
<1>3. CASE AnswerProbe \/ UNCHANGED <<vars, kind, healthVars>>
  BY <1>3 DEF AnswerProbe, RecordsStay, vars, cpmVars
<1> QED BY <1>1, <1>2, <1>3 DEF AssessingNext, HealthNext

\* The checks against a baseline read nothing else.
LEMMA SameRecordsSameChecks ==
  ASSUME RecordsStay, NEW r, review' = r
  PROVE  MissedCheck(review)' = MissedCheck(r) /\ ExecutionCheck(review)' = ExecutionCheck(r)
<1>1. Complete' = Complete
  BY DEF RecordsStay, Complete, IsComplete, Task
<1>2. \A a \in Node : net'.task[a].finish = Task(a).finish
  BY DEF RecordsStay, Task
<1>3. Complete \subseteq Node
  BY DEF Complete
<1>4. {a \in Complete \cap DOMAIN r.baseline : net'.task[a].finish > r.baseline[a]}
      = {a \in Complete \cap DOMAIN r.baseline : Task(a).finish > r.baseline[a]}
  BY <1>2, <1>3
<1>5. MissedCheck(review)' = MissedCheck(r)
  BY <1>1, <1>4 DEF MissedCheck, Task, Skipped, Passed, AtMostFive
<1>6. ExecutionCheck(review)' = ExecutionCheck(r)
  BY <1>1 DEF RecordsStay, ExecutionCheck, Skipped, Passed, AtLeast
<1> QED BY <1>5, <1>6

\* The fourteen, and where two of them stand.
LEMMA FourteenChecks ==
  ASSUME NEW r, NEW c
  PROVE  /\ {11, 12, 14} \subseteq DOMAIN Checked(r, c)
         /\ Checked(r, c)[11] = MissedCheck(r) /\ Checked(r, c)[12] = c
         /\ Checked(r, c)[14] = ExecutionCheck(r)
BY DEF Checked

\* So they stand after every step.
LEMMA BaselineCheckedStep ==
  ASSUME Structure, BaselineChecked, [AssessingNext]_<<vars, kind, healthVars>>
  PROVE  BaselineChecked'
<1>1. RecordsStay
  BY RecordsStayAlways
<1>2. CASE UNCHANGED healthVars
  <2>1. PICK r : r = review
    OBVIOUS
  <2>2. MissedCheck(review)' = MissedCheck(r) /\ ExecutionCheck(review)' = ExecutionCheck(r)
    BY <1>1, <1>2, <2>1, SameRecordsSameChecks DEF healthVars
  <2>3. review' = review /\ checks' = checks
    BY <1>2 DEF healthVars
  <2> QED BY <2>1, <2>2, <2>3 DEF BaselineChecked
<1>3. CASE \E r \in Reviews : Assess(r)
  <2>1. PICK r \in Reviews : review' = r /\ checks' = Checked(r, Skipped)
    BY <1>3 DEF Assess
  <2>2. MissedCheck(review)' = MissedCheck(r) /\ ExecutionCheck(review)' = ExecutionCheck(r)
    BY <1>1, <2>1, SameRecordsSameChecks
  <2> QED BY <2>1, <2>2, FourteenChecks DEF BaselineChecked
<1>4. CASE AnswerProbe
  <2>1. PICK x : checks' = [checks EXCEPT ![12] = x]
    BY <1>4 DEF AnswerProbe
  <2>2. checks # None /\ review' = review
    BY <1>4 DEF AnswerProbe
  <2>3. /\ {11, 12, 14} \subseteq DOMAIN checks'
        /\ checks'[11] = checks[11] /\ checks'[14] = checks[14]
    BY <2>1, <2>2 DEF BaselineChecked
  <2>4. PICK r : r = review
    OBVIOUS
  <2>5. MissedCheck(review)' = MissedCheck(r) /\ ExecutionCheck(review)' = ExecutionCheck(r)
    BY <1>1, <2>2, <2>4, SameRecordsSameChecks
  <2> QED BY <2>2, <2>3, <2>4, <2>5 DEF BaselineChecked
<1> QED BY <1>2, <1>3, <1>4 DEF AssessingNext, HealthNext

\* One row of the progress report, where it meets the checks.
LEMMA RowsAgainst ==
  ASSUME IsNetwork, NEW r \in Reviews
  PROVE  /\ DOMAIN Against(r) = Node
         /\ \A a \in Node :
              /\ Against(r)[a].finish = Task(a).finish
              /\ Against(r)[a].planned[2] = IF a \in DOMAIN r.baseline THEN r.baseline[a] ELSE None
<1>1. DOMAIN net.task = Node
  BY DEF IsNetwork
<1> DEFINE plan(a) == IF a \in DOMAIN r.baseline THEN <<None, r.baseline[a]>> ELSE NoPlan
<1>2. Against(r) = [a \in Node |-> Standing(Lattice[net.task[a].cal], net.task[a], plan(a), None)]
  BY <1>1 DEF Against, Standings
<1>3. ASSUME NEW a \in Node
      PROVE  Against(r)[a] = Standing(Lattice[net.task[a].cal], net.task[a], plan(a), None)
  BY <1>2
<1>4. ASSUME NEW a \in Node
      PROVE  plan(a)[2] = IF a \in DOMAIN r.baseline THEN r.baseline[a] ELSE None
  BY DEF NoPlan
<1>5. \A lat, t, p, f : Standing(lat, t, p, f).finish = t.finish
                        /\ Standing(lat, t, p, f).planned = p
  BY DEF Standing
<1>6. DOMAIN Against(r) = Node
  BY <1>2
<1> HIDE DEF plan
<1>7. ASSUME NEW a \in Node
      PROVE  Against(r)[a].finish = Task(a).finish /\ Against(r)[a].planned = plan(a)
  BY <1>3, <1>5 DEF Task
<1> QED BY <1>4, <1>6, <1>7

\* The two checks say no more than the progress report does.
LEMMA BaselinesDoAgree ==
  ASSUME RunInv, BaselineChecked
  PROVE  BaselinesAgree
<1> SUFFICES ASSUME checks # None, DOMAIN review.baseline \subseteq Node
             PROVE  LET index == ExecutionIndex(Against(review), net.dataDate)
                    IN  /\ \A a \in checks[11].of : IsBehind(Against(review)[a], net.dataDate)
                        /\ checks[14].status = "skipped" <=> index = None
                        /\ index # None =>
                             (checks[14].status = "pass" <=> AtLeast(95, index[1], index[2]))
  BY DEF BaselinesAgree
<1>1. PICK r \in Reviews : r = review
  BY DEF BaselineChecked
<1>2. checks[11] = MissedCheck(r) /\ checks[14] = ExecutionCheck(r)
  BY <1>1 DEF BaselineChecked
<1>3. PICK B : B = r.baseline /\ B \in [DOMAIN B -> Int] /\ DOMAIN B \subseteq Node
  BY <1>1, ReviewAssumption
<1>4. IsNetwork /\ net.dataDate \in Int /\ IsFiniteSet(Node)
  <2>1. IsNetwork /\ IsGraph
    BY DEF RunInv, CPMInv, Structure, NetworkFixed, KahnInv
  <2>2. nodes \in Seq(Node) /\ Elements(nodes) = Node /\ Injective(nodes)
    BY <2>1 DEF IsGraph, Injective
  <2> QED BY <2>1, <2>2, InjectiveLength DEF IsNetwork
<1>5. PICK rows : rows = Against(r)
  OBVIOUS
<1>6. /\ DOMAIN rows = Node
      /\ \A a \in Node : rows[a].finish = Task(a).finish
      /\ \A a \in Node : rows[a].planned[2] = IF a \in DOMAIN B THEN B[a] ELSE None
  BY <1>3, <1>4, <1>5, RowsAgainst
<1>7. \A a \in checks[11].of : IsBehind(rows[a], net.dataDate)
  <2> SUFFICES ASSUME NEW a \in checks[11].of
               PROVE  IsBehind(rows[a], net.dataDate)
    OBVIOUS
  <2>1. a \in Complete \cap DOMAIN B /\ Task(a).finish > B[a]
    <3>1. PICK missed : missed = {q \in Complete \cap DOMAIN B : Task(q).finish > B[q]}
      OBVIOUS
    <3>2. a \in missed
      BY <1>2, <1>3, <3>1 DEF MissedCheck, Skipped, Passed
    <3> QED BY <3>1, <3>2
  <2>2. a \in Node /\ Task(a).finish # None /\ B[a] # None
    BY <1>3, <2>1, NoneAssumption DEF Complete, IsComplete
  <2> QED BY <1>6, <2>1, <2>2 DEF IsBehind
<1>8. PICK due : due = {a \in DOMAIN B : B[a] <= net.dataDate}
  OBVIOUS
<1>9. due = {a \in DOMAIN rows : rows[a].planned[2] # None /\ rows[a].planned[2] <= net.dataDate}
  <2>1. \A a \in Node : (a \in due <=> rows[a].planned[2] # None /\ rows[a].planned[2] <= net.dataDate)
    BY <1>3, <1>6, <1>8, NoneAssumption
  <2>2. due \subseteq Node
    BY <1>3, <1>8
  <2> QED BY <1>6, <2>1, <2>2
<1>10. PICK done : done = due \cap Complete
  OBVIOUS
<1>11. done = {a \in due : rows[a].finish # None}
  BY <1>3, <1>6, <1>8, <1>10 DEF Complete, IsComplete
<1>12. ExecutionIndex(rows, net.dataDate)
         = IF due = {} THEN None ELSE <<Cardinality(done), Cardinality(due)>>
  BY <1>9, <1>11 DEF ExecutionIndex
<1>13. ExecutionCheck(r) =
         IF due = {} THEN Skipped
         ELSE Passed(AtLeast(95, Cardinality(done), Cardinality(due)), due \ Complete)
  BY <1>3, <1>8, <1>10 DEF ExecutionCheck
<1>14. <<Cardinality(done), Cardinality(due)>> # None
  <2>1. IsFiniteSet(due) /\ IsFiniteSet(done)
    <3>1. due \in SUBSET Node /\ done \in SUBSET Node
      BY <1>3, <1>8, <1>10
    <3> QED BY <1>4, <3>1, FS_Subset
  <2>2. Cardinality(done) \in Nat /\ Cardinality(due) \in Nat
    BY <2>1, FS_CardinalityType
  <2> QED BY <2>2, IndexAssumption
<1>15. PICK index : index = ExecutionIndex(rows, net.dataDate)
  OBVIOUS
<1>16. CASE due = {}
  BY <1>1, <1>2, <1>5, <1>7, <1>12, <1>13, <1>15, <1>16 DEF Skipped
<1>17. CASE due # {}
  <2>1. index = <<Cardinality(done), Cardinality(due)>> /\ index # None
    BY <1>12, <1>14, <1>15, <1>17
  <2>2. index[1] = Cardinality(done) /\ index[2] = Cardinality(due)
    BY <2>1
  <2>3. checks[14].status = IF AtLeast(95, index[1], index[2]) THEN "pass" ELSE "fail"
    BY <1>2, <1>13, <1>17, <2>2 DEF Passed
  <2> QED BY <1>1, <1>5, <1>7, <1>15, <2>1, <2>3
<1> QED BY <1>16, <1>17

\* One step onward from a set of activities.
StepOnward(X) == X \cup {Link(k).succ : k \in UNION {LinksOutOf(b) : b \in X}}

\* f holds what is reached from a after each of its first N steps.
ReachedFrom(a, N, f) == f = [n \in 0..N |-> IF n = 0 THEN {a} ELSE StepOnward(f[n - 1])]

\* Onward is what such steps end with, one for each activity.
LEMMA OnwardIs ==
  ASSUME NEW a
  PROVE  Onward(a) = (CHOOSE f : ReachedFrom(a, Cardinality(Node), f))[Cardinality(Node)]
BY DEF Onward, ReachedFrom, StepOnward

\* f grows from a to all that is onward of it, and follows every link on its way.
Grows(a, N, f) ==
  /\ Onward(a) = f[N] /\ f[0] = {a}
  /\ \A n \in 0..N : f[n] \in SUBSET Node
  /\ \A n \in 0..N : n # N => f[n] \subseteq f[n + 1]
  /\ \A n \in 0..N : \A k \in DOMAIN net.links :
       n # N /\ Link(k).pred \in f[n] => Link(k).succ \in f[n + 1]

\* There is such a growth for each activity.
LEMMA OnwardSteps ==
  ASSUME IsNetwork, NEW a \in Node, NEW N \in Nat, N = Cardinality(Node)
  PROVE  \E f : Grows(a, N, f)
<1>1. ASSUME NEW X \in SUBSET Node
      PROVE  StepOnward(X) \in SUBSET Node
  <2>1. \A k \in DOMAIN net.links : Link(k).succ \in Node
    BY DEF IsNetwork, Link
  <2> QED BY <2>1 DEF StepOnward, LinksOutOf
<1>2. PICK g : g = [X \in SUBSET Node |-> StepOnward(X)]
  OBVIOUS
<1>3. PICK h : Iterates(N, {a}, g, h)
  BY IterationExists
<1>4. \A n \in 0..N : h[n] = IF n = 0 THEN {a} ELSE g[h[n - 1]]
  BY <1>3 DEF Iterates
<1> DEFINE S == {n \in 0..N : h[n] \in SUBSET Node}
<1>5. \A n \in 0..N : n \in S
  <2>1. 0 \in S
    BY <1>4
  <2>2. ASSUME NEW n \in 0..N, n \in S, n # N
        PROVE  n + 1 \in S
    <3>1. PICK m \in 0..N : m = n + 1
      BY <2>2
    <3>2. h[n] \in SUBSET Node
      BY <2>2
    <3>3. m # 0 /\ m - 1 = n
      BY <3>1
    <3>4. h[m] = g[h[n]]
      BY <1>4, <3>3
    <3>5. h[m] = StepOnward(h[n])
      BY <1>2, <3>2, <3>4
    <3> QED BY <1>1, <3>1, <3>2, <3>5
  <2> HIDE DEF S
  <2> QED BY <2>1, <2>2, CountUp
<1>6. \A n \in 0..N : h[n] \in SUBSET Node
  BY <1>5
<1> HIDE DEF S
<1>7. \A n \in 0..N : h[n] = IF n = 0 THEN {a} ELSE StepOnward(h[n - 1])
  <2> TAKE n \in 0..N
  <2>1. CASE n = 0
    BY <1>4, <2>1
  <2>2. CASE n # 0
    <3>1. n - 1 \in 0..N
      BY <2>2
    <3> QED BY <1>2, <1>4, <1>6, <2>2, <3>1
  <2> QED BY <2>1, <2>2
<1>8. ReachedFrom(a, N, h)
  <2>1. h = [n \in 0..N |-> h[n]]
    BY <1>3 DEF Iterates
  <2>2. h = [n \in 0..N |-> IF n = 0 THEN {a} ELSE StepOnward(h[n - 1])]
    BY <1>7, <2>1
  <2> QED BY <2>2 DEF ReachedFrom
<1>9. PICK f : f = CHOOSE p : ReachedFrom(a, N, p)
  OBVIOUS
<1>10. ReachedFrom(a, N, f)
  BY <1>8, <1>9
<1>11. \A n \in 0..N : f[n] = IF n = 0 THEN {a} ELSE StepOnward(f[n - 1])
  BY <1>10 DEF ReachedFrom
<1>12. \A n \in 0..N : n # N => f[n + 1] = StepOnward(f[n])
  <2> TAKE n \in 0..N
  <2> HAVE n # N
  <2>1. n + 1 \in 0..N /\ n + 1 # 0 /\ (n + 1) - 1 = n
    OBVIOUS
  <2> QED BY <1>11, <2>1
<1>13. Onward(a) = f[N]
  BY <1>9, OnwardIs
<1> DEFINE R == {n \in 0..N : f[n] \in SUBSET Node}
<1>14. \A n \in 0..N : n \in R
  <2>1. 0 \in R
    BY <1>11
  <2>2. ASSUME NEW n \in 0..N, n \in R, n # N
        PROVE  n + 1 \in R
    BY <1>1, <1>12, <2>2
  <2> HIDE DEF R
  <2> QED BY <2>1, <2>2, CountUp
<1>15. \A n \in 0..N : f[n] \in SUBSET Node
  BY <1>14
<1> HIDE DEF R
<1>16. \A X : X \subseteq StepOnward(X)
  BY DEF StepOnward
<1>17. \A X : \A k \in DOMAIN net.links : Link(k).pred \in X => Link(k).succ \in StepOnward(X)
  BY DEF StepOnward, LinksOutOf
<1>18. \A n \in 0..N : n # N => f[n] \subseteq f[n + 1]
  BY <1>12, <1>16
<1>19. \A n \in 0..N : \A k \in DOMAIN net.links :
         n # N /\ Link(k).pred \in f[n] => Link(k).succ \in f[n + 1]
  BY <1>12, <1>17
<1>20. f[0] = {a}
  BY <1>11
<1>21. Grows(a, N, f)
  BY <1>13, <1>15, <1>18, <1>19, <1>20 DEF Grows
<1> QED BY <1>21

\* An activity is known by its position among the ids.
LEMMA PositionsDiffer ==
  ASSUME NEW a \in Node, NEW b \in Node, Position(a) = Position(b)
  PROVE  a = b
<1>1. \A c \in Node : Position(c) \in DOMAIN IdOrder /\ IdOrder[Position(c)] = c
  BY IdAssumption DEF Position
<1> QED BY <1>1

\* Positions are numbers.
LEMMA PositionIsNumber ==
  ASSUME NEW a \in Node
  PROVE  Position(a) \in Int
<1>1. Position(a) \in DOMAIN IdOrder
  BY IdAssumption DEF Position
<1>2. IdOrder \in Seq(Node)
  BY IdAssumption
<1>3. DOMAIN IdOrder = 1..Len(IdOrder) /\ Len(IdOrder) \in Nat
  BY <1>2, LenProperties
<1> QED BY <1>1, <1>3

\* Two that come before each other are one.
LEMMA OneComesFirst ==
  ASSUME NEW when, NEW a \in Node, NEW b \in Node, when[a] \in Int, when[b] \in Int,
         ComesBefore(when, a, b), ComesBefore(when, b, a)
  PROVE  a = b
<1>1. Position(a) \in Int /\ Position(b) \in Int
  BY PositionIsNumber
<1>2. Position(a) = Position(b)
  BY <1>1 DEF ComesBefore
<1> QED BY <1>2, PositionsDiffer

\* Where nothing dangles, one activity opens the plan and one closes it.
LEMMA OneEndEach ==
  ASSUME \A a \in Node : es[a] \in Int /\ ef[a] \in Int, Dangling = {}
  PROVE  /\ \A a, b \in OpenStarts : a = b
         /\ \A a, b \in OpenFinishes : a = b
<1>1. OpenStarts \subseteq Node /\ OpenFinishes \subseteq Node
  BY DEF OpenStarts, OpenFinishes
<1>2. OpenStarts \cap OpenFinishes = {} /\ OpenStarts \cup OpenFinishes \subseteq Excused
  BY DEF Dangling
<1>3. ASSUME NEW a \in OpenStarts, NEW b \in OpenStarts
      PROVE  a = b
  <2>1. ComesBefore(es, a, b) /\ ComesBefore(es, b, a)
    BY <1>2, <1>3 DEF Excused
  <2> QED BY <1>1, <1>3, <2>1, OneComesFirst
<1>4. ASSUME NEW a \in OpenFinishes, NEW b \in OpenFinishes
      PROVE  a = b
  <2>1. ComesBefore(ef, a, b) /\ ComesBefore(ef, b, a)
    BY <1>2, <1>4 DEF Excused
  <2> QED BY <1>1, <1>4, <2>1, OneComesFirst
<1> QED BY <1>3, <1>4

\* A small plan whose logic passes has nothing dangling.
LEMMA NothingDangles ==
  ASSUME IsFiniteSet(Node), Small, LogicCheck.status = "pass"
  PROVE  Dangling = {}
<1>1. Dangling \in SUBSET Node
  BY DEF Dangling, OpenStarts, OpenFinishes
<1>2. IsFiniteSet(Dangling) /\ Cardinality(Dangling) \in Nat /\ Cardinality(Node) \in Nat
  BY <1>1, FS_Subset, FS_CardinalityType
<1>3. AtMostFive(Cardinality(Dangling), Cardinality(Node))
  BY DEF LogicCheck, FewActivities, Passed
<1>4. Cardinality(Dangling) = 0
  BY <1>2, <1>3 DEF Small, AtMostFive
<1> QED BY <1>2, <1>4, FS_EmptySet

\* Where the logic of a small plan passes, and all of it was sorted, every activity is
\* on the way from one start to one finish.
LEMMA LogicWhole ==
  ASSUME RunInv, phase = "done"
  PROVE  LogicIsWhole
<1> SUFFICES ASSUME Small, LogicCheck.status = "pass", DOMAIN edges = DOMAIN net.links
             PROVE  \E first, last \in Node :
                      Onward(first) = Node /\ \A a \in Node : last \in Onward(a)
  BY DEF LogicIsWhole
<1>1. /\ KahnInv /\ sort = "ordered" /\ NetworkFixed /\ IsNetwork /\ IsGraph
      /\ \A a \in Node : es[a] \in Int /\ ef[a] \in Int
  BY DoneFacts DEF RunInv, CPMInv, Structure, KahnInv
<1>2. PICK N \in Nat : N = Len(order) /\ DOMAIN order = 1..N
  BY <1>1, OrderFacts
<1>3. /\ \A j \in 1..N : order[j] \in Node
      /\ \A i, j \in 1..N : order[i] = order[j] => i = j
      /\ \A a \in Node : \E j \in 1..N : order[j] = a
  BY <1>1, <1>2, OrderFacts
<1>4. IsFiniteSet(Node) /\ N = Cardinality(Node)
  <2>1. nodes \in Seq(Node) /\ Elements(nodes) = Node /\ Injective(nodes)
    BY <1>1 DEF IsGraph, Injective
  <2> QED BY <1>1, <1>2, <2>1, InjectiveLength, OrderHasAll
<1>5. N >= 1
  <2>1. terminal \in Node
    BY DoneFacts DEF FinishReached
  <2> QED BY <1>3, <2>1
<1>6. \A k \in DOMAIN net.links : \E i, j \in 1..N :
        i < j /\ order[i] = Link(k).pred /\ order[j] = Link(k).succ
  <2> TAKE k \in DOMAIN net.links
  <2>1. /\ k \in DOMAIN edges /\ edges[k][2] \in Node
        /\ Link(k).pred = edges[k][1] /\ Link(k).succ = edges[k][2]
    BY <1>1, EdgeFacts
  <2>2. PICK j \in 1..N : order[j] = edges[k][2]
    BY <1>3, <2>1
  <2>3. \E i \in 1..N : i < j /\ order[i] = edges[k][1]
    BY <1>1, <1>2, <2>1, <2>2, OrderFacts
  <2> QED BY <2>1, <2>2, <2>3
<1>7. Dangling = {}
  BY <1>4, NothingDangles
<1>8. /\ \A a, b \in OpenStarts : a = b
      /\ \A a, b \in OpenFinishes : a = b
  BY <1>1, <1>7, OneEndEach
<1>9. 1 \in 1..N /\ N \in 1..N
  BY <1>5
<1>10. order[1] \in OpenStarts
  <2>1. ASSUME NEW k \in DOMAIN net.links, Link(k).succ = order[1]
        PROVE  FALSE
    <3>1. PICK i \in 1..N, j \in 1..N : i < j /\ order[j] = Link(k).succ
      BY <1>6
    <3>2. j = 1
      BY <1>3, <1>9, <2>1, <3>1
    <3> QED BY <3>1, <3>2
  <2> QED BY <1>3, <1>9, <2>1 DEF OpenStarts, LinksInto
<1>11. order[N] \in OpenFinishes
  <2>1. ASSUME NEW k \in DOMAIN net.links, Link(k).pred = order[N]
        PROVE  FALSE
    <3>1. PICK i \in 1..N, j \in 1..N : i < j /\ order[i] = Link(k).pred
      BY <1>6
    <3>2. i = N
      BY <1>3, <1>9, <2>1, <3>1
    <3> QED BY <3>1, <3>2
  <2> QED BY <1>3, <1>9, <2>1 DEF OpenFinishes, LinksOutOf
<1>12. \A j \in 1..N : j # 1 => \E k \in DOMAIN net.links : Link(k).succ = order[j]
  <2> TAKE j \in 1..N
  <2> HAVE j # 1
  <2>1. order[j] \notin OpenStarts
    BY <1>3, <1>8, <1>9, <1>10
  <2> QED BY <1>3, <2>1 DEF OpenStarts, LinksInto
<1>13. \A j \in 1..N : j # N => \E k \in DOMAIN net.links : Link(k).pred = order[j]
  <2> TAKE j \in 1..N
  <2> HAVE j # N
  <2>1. order[j] \notin OpenFinishes
    BY <1>3, <1>8, <1>9, <1>11
  <2> QED BY <1>3, <2>1 DEF OpenFinishes, LinksOutOf
<1>14. Onward(order[1]) = Node
  <2>1. order[1] \in Node
    BY <1>3, <1>9
  <2>2. PICK f : Grows(order[1], N, f)
    BY <1>1, <1>4, <2>1, OnwardSteps
  <2> USE <2>2 DEF Grows
  <2> DEFINE S == {j \in 1..N : order[j] \in f[N]}
             T == {n \in 0..N : \A j \in 1..N : j <= n + 1 => order[j] \in f[n]}
  <2>3. 0 \in T
    <3>1. \A j \in 1..N : j <= 0 + 1 => j = 1
      OBVIOUS
    <3> QED BY <2>2, <3>1
  <2>4. ASSUME NEW n \in 0..N, n \in T, n # N
        PROVE  n + 1 \in T
    <3>1. n + 1 \in 0..N
      BY <2>4
    <3>2. ASSUME NEW j \in 1..N, j <= (n + 1) + 1
          PROVE  order[j] \in f[n + 1]
      <4>1. CASE j <= n + 1
        <5>1. order[j] \in f[n]
          BY <2>4, <4>1
        <5> QED BY <2>2, <2>4, <5>1
      <4>2. CASE ~(j <= n + 1)
        <5>1. j # 1
          BY <2>4, <4>2
        <5>2. PICK k \in DOMAIN net.links : Link(k).succ = order[j]
          BY <1>12, <5>1
        <5>3. PICK p \in 1..N, q \in 1..N :
                p < q /\ order[p] = Link(k).pred /\ order[q] = Link(k).succ
          BY <1>6
        <5>4. q = j
          BY <1>3, <5>2, <5>3
        <5>5. p <= n + 1
          BY <3>2, <5>3, <5>4
        <5>6. order[p] \in f[n]
          BY <2>4, <5>5
        <5> QED BY <2>2, <2>4, <5>2, <5>3, <5>6
      <4> QED BY <4>1, <4>2
    <3> QED BY <3>1, <3>2
  <2>5. \A n \in 0..N : n \in T
    <3> HIDE DEF T
    <3> QED BY <2>3, <2>4, CountUp
  <2>6. N \in T
    BY <2>5
  <2>7. \A j \in 1..N : order[j] \in f[N]
    BY <2>6
  <2> QED BY <1>3, <2>2, <2>7
<1>15. ASSUME NEW a \in Node
       PROVE  order[N] \in Onward(a)
  <2>1. PICK f : Grows(a, N, f)
    BY <1>1, <1>4, OnwardSteps
  <2> USE <2>1 DEF Grows
  <2>2. PICK i \in 1..N : order[i] = a
    BY <1>3
  <2> DEFINE T == {n \in 0..N : \E j \in 1..N : order[j] \in f[n] /\ (j = N \/ j >= i + n)}
  <2>3. 0 \in T
    BY <2>1, <2>2
  <2>4. ASSUME NEW n \in 0..N, n \in T, n # N
        PROVE  n + 1 \in T
    <3>1. n + 1 \in 0..N
      BY <2>4
    <3>2. PICK j \in 1..N : order[j] \in f[n] /\ (j = N \/ j >= i + n)
      BY <2>4
    <3>3. CASE j = N
      <4>1. order[j] \in f[n + 1]
        BY <2>1, <2>4, <3>2
      <4> QED BY <3>1, <3>3, <4>1
    <3>4. CASE j # N
      <4>1. PICK k \in DOMAIN net.links : Link(k).pred = order[j]
        BY <1>13, <3>4
      <4>2. PICK p \in 1..N, q \in 1..N :
              p < q /\ order[p] = Link(k).pred /\ order[q] = Link(k).succ
        BY <1>6
      <4>3. p = j
        BY <1>3, <4>1, <4>2
      <4>4. q >= i + (n + 1)
        BY <3>2, <3>4, <4>2, <4>3
      <4>5. order[q] \in f[n + 1]
        BY <2>1, <2>4, <3>2, <4>1, <4>2
      <4> QED BY <3>1, <4>4, <4>5
    <3> QED BY <3>3, <3>4
  <2>5. \A n \in 0..N : n \in T
    <3> HIDE DEF T
    <3> QED BY <2>3, <2>4, CountUp
  <2>6. N \in T
    BY <2>5
  <2>7. PICK j \in 1..N : order[j] \in f[N] /\ (j = N \/ j >= i + N)
    BY <2>6
  <2>8. j = N
    BY <2>2, <2>7
  <2> QED BY <2>1, <2>7, <2>8
<1>16. order[1] \in Node /\ order[N] \in Node
  BY <1>3, <1>9
<1> QED BY <1>14, <1>15, <1>16

-----------------------------------------------------------------------------
\* The critical path test.  On one calendar, over links whose lags are counted in
\* working days, dates are positions on the calendar and the calculation is one of
\* the longest path: every bound on a start is a number added to a finish.

\* Nothing but links from a finish to a start, their lags counted in working days.
PlainlyLinked ==
  \A k \in DOMAIN net.links : Link(k).type = "FS" /\ (Link(k).lag # 0 => IsCountedInWork(k))

\* Whether logic bounds the start: a mandatory constraint replaces it.
Takes(a) ==
  ~(/\ Task(a).constraint \in Mandatory
    /\ ~(IsStarted(Task(a)) /\ Task(a).constraint \in FloorsEarlyStart)
    /\ EarlyFloor(Days(a), Task(a)) # None)

\* What else asks for it.
AskedAnyway(a) ==
  AskedFor(a, IF \E k \in DOMAIN edges : edges[k][2] = a THEN {net.dataDate} ELSE {})

\* Starts and finishes by their positions; the work of each activity falls short
\* of its duration by so much.
Timed(S, F, short) ==
  \A a \in Node :
    /\ IsComplete(Task(a)) => F[a] = BisectLeft(Days(a), Task(a).finish + 1)
    /\ ~IsComplete(Task(a)) =>
         /\ \A x \in AskedAnyway(a) : BisectLeft(Days(a), x) <= S[a]
         /\ Takes(a) => \A k \in DOMAIN edges : edges[k][2] = a =>
                          F[edges[k][1]] + Link(k).lag <= S[a]
         /\ \/ \E x \in AskedAnyway(a) : S[a] = BisectLeft(Days(a), x)
            \/ Takes(a) /\ \E k \in DOMAIN edges :
                             edges[k][2] = a /\ S[a] = F[edges[k][1]] + Link(k).lag
         /\ F[a] = S[a] + Duration(Task(a)) - short[a]

\* The calculation as it stands is short of nothing, the one before the probe was
\* short of the delay.
NotShort    == [a \in Node |-> 0]
ShortBy(of) == [a \in Node |-> IF a = of THEN ProbeDays ELSE 0]

\* The links' bounds are asked for when the logic is taken, and the rest anyway.
LEMMA AskedSplits ==
  ASSUME Structure, NEW a \in Node, NEW B, B = {} <=> ~\E k \in DOMAIN edges : edges[k][2] = a
  PROVE  AskedFor(a, B) = AskedAnyway(a) \cup (IF Takes(a) THEN B ELSE {})
<1> DEFINE t == Task(a)
<1>1. PICK floor : floor = IF IsStarted(t) /\ t.constraint \in FloorsEarlyStart
                           THEN None ELSE EarlyFloor(Days(a), t)
  OBVIOUS
<1>2. PICK start : start = t.start
  OBVIOUS
<1>3. \A C : AskedFor(a, C) =
               IF t.constraint \in Mandatory /\ floor # None
               THEN {floor, net.dataDate}
               ELSE C \cup {net.dataDate} \cup ({floor} \ {None})
                      \cup (IF C = {} THEN {start} \ {None} ELSE {})
  BY <1>1, <1>2 DEF AskedFor
<1>4. Takes(a) <=> ~(t.constraint \in Mandatory /\ floor # None)
  BY <1>1 DEF Takes
<1> HIDE DEF t
<1>5. CASE B = {}
  BY <1>3, <1>5 DEF AskedAnyway
<1>6. CASE B # {}
  <2>1. AskedAnyway(a) = AskedFor(a, {net.dataDate})
    BY <1>6 DEF AskedAnyway
  <2>2. {net.dataDate} # {}
    OBVIOUS
  <2> QED BY <1>3, <1>4, <1>6, <2>1, <2>2
<1> QED BY <1>5, <1>6

\* A lag counted in working days is added to the position of the finish.
LEMMA LagIsAdded ==
  ASSUME NEW lat, IsLattice(lat), NEW f \in Int, NEW lag \in Int,
         lag # 0 => /\ net.lagCalendar # "twenty_four_hour"
                    /\ LagLands(f, lag, "finish", lat) /\ \E w \in lat : w < f
  PROVE  BisectLeft(lat, AdvanceLag(f, lag, "finish", lat)) = BisectLeft(lat, f) + lag
<1>1. BisectLeft(lat, f) \in Nat
  BY PositionsCount
<1>2. CASE lag = 0
  BY <1>1, <1>2 DEF AdvanceLag
<1>3. CASE lag # 0
  <2>1. PICK w \in lat : w < f
    BY <1>3
  <2>2. f - 1 \in Int /\ w \in Int /\ w <= f - 1
    BY <2>1 DEF IsLattice
  <2>3. PICK u \in lat : u = SnapStartBack(lat, f - 1)
    BY <2>2, SnapBackLands
  <2>4. BisectLeft(lat, u) + 1 = BisectLeft(lat, f) /\ BisectLeft(lat, u) \in Nat
    BY <2>3, PositionOfTheDayBefore, PositionsCount
  <2>5. Lands(lat, u, lag)
    BY <1>3, <2>3 DEF LagLands
  <2>6. PICK z \in lat : /\ z = AddWorkingDays(lat, u, lag)
                         /\ BisectLeft(lat, z) = BisectLeft(lat, u) + lag
    BY <2>5, AddLands
  <2>7. BisectLeft(lat, z + 1) = BisectLeft(lat, z) + 1
    BY PastAWorkingDay
  <2>8. AdvanceLag(f, lag, "finish", lat) = z + 1
    BY <1>3, <2>3, <2>6 DEF AdvanceLag
  <2> QED BY <1>1, <2>4, <2>6, <2>7, <2>8
<1> QED BY <1>2, <1>3

\* A span takes its duration.
LEMMA SpanIsAdded ==
  ASSUME NEW lat, IsLattice(lat), NEW g \in Int, NEW s, s = SnapStartForward(lat, g),
         NEW d \in Nat, SpanLands(lat, s, d)
  PROVE  BisectLeft(lat, FinishFromStart(lat, s, d)) = BisectLeft(lat, s) + d
<1>1. s \in Int /\ BisectLeft(lat, s) \in Nat
  BY SnapForwardMovesForward, PositionsCount
<1>2. CASE d = 0
  BY <1>1, <1>2 DEF FinishFromStart
<1>3. CASE d > 0
  <2>1. s \in lat
    BY <1>3, SettledOnCalendar
  <2>2. PICK u \in lat : /\ FinishFromStart(lat, s, d) = u + 1
                         /\ BisectLeft(lat, u) = BisectLeft(lat, s) + (d - 1)
    BY <1>3, <2>1, SpanEnds
  <2>3. BisectLeft(lat, u + 1) = BisectLeft(lat, u) + 1
    BY PastAWorkingDay
  <2> QED BY <1>1, <2>2, <2>3
<1> QED BY <1>2, <1>3

\* The greatest thing asked for and the span from it, by their positions.
LEMMA GrantedIsTimed ==
  ASSUME Structure, NEW a \in Node, ~IsComplete(Task(a)), Duration(Task(a)) \in Nat,
         NEW B \in SUBSET Int, IsFiniteSet(B), NEW d, d = Granted(a, B, net.dataDate),
         SpanLands(Days(a), d.s, Duration(Task(a)))
  PROVE  /\ d.s \in Int /\ d.f \in Int
         /\ \A x \in AskedFor(a, B) : BisectLeft(Days(a), x) <= BisectLeft(Days(a), d.s)
         /\ \E x \in AskedFor(a, B) : BisectLeft(Days(a), x) = BisectLeft(Days(a), d.s)
         /\ BisectLeft(Days(a), d.f) = BisectLeft(Days(a), d.s) + Duration(Task(a))
<1>1. IsNetwork /\ net.dataDate \in Int
  BY DEF Structure, NetworkFixed, IsNetwork
<1>2. PICK lat : lat = Days(a) /\ IsLattice(lat)
  BY <1>1, ActivityFacts
<1>3. PICK A : A = AskedFor(a, B) \cup {net.dataDate}
  OBVIOUS
<1>4. A \in SUBSET Int /\ IsGreatest(A, Greatest(A))
  BY <1>1, <1>3, AskedHasLatest
<1>5. A = AskedFor(a, B)
  BY <1>3 DEF AskedFor
<1>6. PICK g \in Int : g = Greatest(A) /\ g \in A /\ \A x \in A : x <= g
  BY <1>4 DEF IsGreatest
<1>7. PICK n \in Nat : n = Duration(Task(a))
  OBVIOUS
<1>8. PICK s \in Int : /\ s = SnapStartForward(lat, g) /\ BisectLeft(lat, s) = BisectLeft(lat, g)
  BY <1>2, SnapForwardMovesForward, SnapSkipsNothing
<1>9. d = [s |-> s, f |-> FinishFromStart(lat, s, n)]
  BY <1>2, <1>3, <1>6, <1>7, <1>8 DEF Granted
<1>10. d.s = s /\ d.f = FinishFromStart(lat, s, n) /\ d.f \in Int
  BY <1>2, <1>9, SpansAreInstants
<1>11. BisectLeft(lat, d.f) = BisectLeft(lat, s) + n
  BY <1>2, <1>7, <1>8, <1>10, SpanIsAdded
<1>12. \A x \in A : BisectLeft(lat, x) <= BisectLeft(lat, g)
  BY <1>2, <1>4, <1>6, PositionsGrow
<1> QED BY <1>2, <1>5, <1>6, <1>7, <1>8, <1>10, <1>11, <1>12

\* On one calendar all activities work the same days.
LEMMA SameDays ==
  ASSUME OneCalendarInUse, NEW a \in Node, NEW b \in Node
  PROVE  Days(a) = Days(b)
BY DEF OneCalendarInUse, Days

\* The lags are within the calendar.
LagsInWindow ==
  \A k \in DOMAIN edges :
    Link(k).lag # 0 => \E w \in Days(Link(k).pred) : w < ef[Link(k).pred]

\* The early dates, by their positions.
EarlyStarts   == [a \in Node |-> BisectLeft(Days(a), es[a])]
EarlyFinishes == [a \in Node |-> BisectLeft(Days(a), ef[a])]

\* A link adds its lag to the finish it is from.
LEMMA LinkIsAdded ==
  ASSUME Structure, OneCalendarInUse, PlainlyLinked, LagsInWindow,
         RunInWindow(edges, EarlyDates), \A a \in Node : es[a] \in Int /\ ef[a] \in Int,
         NEW k \in DOMAIN edges
  PROVE  /\ LinkBound(k) \in Int
         /\ LinkBound(k) = ForwardBound(Link(k), EarlyDates[edges[k][1]].s, EarlyDates[edges[k][1]].f)
         /\ BisectLeft(Days(edges[k][2]), LinkBound(k)) = EarlyFinishes[edges[k][1]] + Link(k).lag
<1>1. PICK p \in Node, s \in Node : p = edges[k][1] /\ s = edges[k][2]
  BY EdgeFacts DEF Structure
<1>2. Link(k) \in ALink /\ Link(k).pred = p /\ Link(k).succ = s
  BY <1>1, EdgeFacts DEF Structure
<1>3. k \in DOMAIN net.links /\ IsNetwork
  BY DEF Structure, NetworkFixed, ActiveEdges
<1>4. Link(k).type = "FS" /\ (Link(k).lag # 0 => IsCountedInWork(k)) /\ Link(k).lag \in Int
  BY <1>2, <1>3 DEF PlainlyLinked, ALink
<1>5. EarlyDates[p].s = es[p] /\ EarlyDates[p].f = ef[p] /\ es[p] \in Int /\ ef[p] \in Int
  BY DEF EarlyDates
<1>6. LinkBound(k) = ForwardBound(Link(k), es[p], ef[p])
  BY <1>1 DEF LinkBound
<1>7. ForwardBound(Link(k), es[p], ef[p]) = AdvanceLag(ef[p], Link(k).lag, "finish", LagDays(p, s))
  BY <1>2, <1>4 DEF ForwardBound, FromPredecessorStart, DrivesSuccessorFinish
<1>8. PICK lat : lat = Days(p) /\ lat = Days(s) /\ IsLattice(lat)
  BY <1>3, SameDays, ActivityFacts
<1>9. BoundLands(Link(k), es[p], ef[p])
  BY <1>1, <1>5 DEF RunInWindow
<1>10. LagLands(ef[p], Link(k).lag, "finish", LagDays(p, s))
  BY <1>2, <1>4, <1>9 DEF BoundLands, FromPredecessorStart
<1>13. EarlyFinishes[edges[k][1]] = BisectLeft(lat, ef[p]) /\ BisectLeft(lat, ef[p]) \in Nat
  BY <1>1, <1>8, PositionsCount DEF EarlyFinishes
<1>14. LinkBound(k) = ForwardBound(Link(k), EarlyDates[edges[k][1]].s, EarlyDates[edges[k][1]].f)
  BY <1>1, <1>5, <1>6
<1>11. CASE Link(k).lag = 0
  <2>1. LinkBound(k) = ef[p]
    BY <1>6, <1>7, <1>11 DEF AdvanceLag
  <2>2. BisectLeft(lat, LinkBound(k)) = BisectLeft(lat, ef[p]) + Link(k).lag
    BY <1>11, <1>13, <2>1
  <2> QED BY <1>1, <1>5, <1>8, <1>13, <1>14, <2>1, <2>2
<1>12. CASE Link(k).lag # 0
  <2>1. net.lagCalendar # "twenty_four_hour" /\ LagDays(p, s) = lat
    BY <1>2, <1>4, <1>8, <1>12 DEF IsCountedInWork
  <2>2. \E w \in lat : w < ef[p]
    BY <1>2, <1>8, <1>12 DEF LagsInWindow
  <2>3. PICK i \in Int, l \in Int : i = ef[p] /\ l = Link(k).lag
    BY <1>4, <1>5
  <2>4. BisectLeft(lat, AdvanceLag(i, l, "finish", lat)) = BisectLeft(lat, i) + l
    BY <1>8, <1>10, <2>1, <2>2, <2>3, LagIsAdded
  <2>5. AdvanceLag(i, l, "finish", lat) \in Int
    BY <1>8, LagIsInteger
  <2> QED BY <1>1, <1>5, <1>6, <1>7, <1>8, <2>1, <2>3, <2>4, <2>5 DEF EarlyFinishes
<1> QED BY <1>11, <1>12

\* The finish and the activity that ends the project, as the forward pass leaves them.
FinishAtFirst == phase = "backward" => FinishSet

\* Only the step that sets the deadline writes the project finish.
LEMMA FinishAtFirstStep ==
  ASSUME Structure, FinishAtFirst, [CPMNext]_vars
  PROVE  FinishAtFirst'
<1>1. net' = net
  BY StepsKeepTheNetwork
<1>2. CASE SetDeadline
  <2>1. /\ phase = "forward" /\ at = Len(order) + 1 /\ UNCHANGED <<es, ef>>
        /\ KahnInv /\ sort = "ordered"
    BY <1>2 DEF SetDeadline, earlyVars, Structure, PhaseOrder, Passes
  <2>2. PICK b \in Node : /\ \A a \in Node : ef[a] <= ef[b]
                          /\ projectFinish' = ef[b] /\ terminal' = TerminalActivity(ef[b])
                          /\ net.mustFinishBy = None => deadline' = ef[b]
    <3>1. PICK f \in {ef[a] : a \in Node} :
            /\ \A a \in Node : ef[a] <= f
            /\ projectFinish' = f
            /\ terminal' = TerminalActivity(f)
            /\ deadline' = IF net.mustFinishBy = None THEN f ELSE net.mustFinishBy + 1
      BY <1>2 DEF SetDeadline
    <3> QED BY <3>1
  <2>3. terminal' \in Node /\ ef[terminal'] = ef[b]
    BY <2>1, <2>2, TerminalEnds
  <2>4. ef[b] \in Int
    <3>1. \A j \in DOMAIN order : j < at
      BY <2>1, OrderFacts
    <3>2. \E j \in DOMAIN order : order[j] = b
      BY <2>1, OrderFacts
    <3>3. ef[b] # None
      BY <2>1, <3>1, <3>2 DEF Structure, DatedPrefix
    <3> QED BY <3>3 DEF Structure, DatesTyped, MaybeInt
  <2> QED BY <1>1, <2>1, <2>2, <2>3, <2>4 DEF FinishAtFirst, FinishSet
<1>3. CASE ~SetDeadline
  <2>1. phase' = "backward" =>
          phase = "backward" /\ UNCHANGED <<terminal, projectFinish, deadline, es, ef>>
    <3> USE DEF passVars, earlyVars, lateVars, spanVars, floatVars, cpmVars, vars
    <3>1. CASE Validate \/ Sort \/ StartForward
      BY <3>1 DEF Validate, Sort, StartForward
    <3>2. CASE Forward
      BY <3>2 DEF Forward, ConsiderPredecessor, KeepActuals, PlaceEarly
    <3>3. CASE Backward
      BY <3>3 DEF Backward, ConsiderSuccessor, KeepActualsLate, PlaceLate
    <3>4. CASE StartPostPass
      BY <3>4 DEF StartPostPass
    <3>5. CASE PostPass
      BY <3>5 DEF PostPass, SlideLate, StartFloat, MeasureFloat, Return
    <3>6. CASE UNCHANGED vars
      BY <3>6
    <3> QED BY <1>3, <3>1, <3>2, <3>3, <3>4, <3>5, <3>6 DEF CPMNext
  <2> QED BY <1>1, <2>1 DEF FinishAtFirst, FinishSet
<1> QED BY <1>2, <1>3

\* The calculation stays within its window, where the test of the path reads it.
PathInWindow ==
  phase = "backward" /\ OneCalendarInUse /\ PlainlyLinked =>
    RunInWindow(edges, EarlyDates) /\ LagsInWindow

\* The early dates are a timing, short of nothing.
LEMMA EarlyIsTimed ==
  ASSUME Structure, DatedAsAsked, phase = "backward", OneCalendarInUse, PlainlyLinked,
         PathInWindow
  PROVE  /\ Timed(EarlyStarts, EarlyFinishes, NotShort)
         /\ \A a \in Node : es[a] \in Int /\ ef[a] \in Int
<1>1. RunInWindow(edges, EarlyDates) /\ LagsInWindow
  BY DEF PathInWindow
<1>2. \A a \in Node : es[a] \in Int /\ ef[a] \in Int /\ ef[a] # None
  BY DEF Structure, PhaseOrder, DatesTyped, Passes, MaybeInt
<1>3. ASSUME NEW k \in DOMAIN edges
      PROVE  /\ LinkBound(k) \in Int
             /\ LinkBound(k) = ForwardBound(Link(k), EarlyDates[edges[k][1]].s, EarlyDates[edges[k][1]].f)
             /\ BisectLeft(Days(edges[k][2]), LinkBound(k))
                  = EarlyFinishes[edges[k][1]] + Link(k).lag
  BY <1>1, <1>2, LinkIsAdded
<1>4. ASSUME NEW a \in Node
      PROVE  /\ EarlyDates[a] = [s |-> es[a], f |-> ef[a]]
             /\ EarlyDates[a].s = es[a] /\ EarlyDates[a].f = ef[a]
             /\ EarlyStarts[a] = BisectLeft(Days(a), es[a])
             /\ EarlyFinishes[a] = BisectLeft(Days(a), ef[a])
             /\ NotShort[a] = 0
  BY DEF EarlyDates, EarlyStarts, EarlyFinishes, NotShort
<1> SUFFICES ASSUME NEW a \in Node
             PROVE  /\ IsComplete(Task(a)) =>
                         EarlyFinishes[a] = BisectLeft(Days(a), Task(a).finish + 1)
                    /\ ~IsComplete(Task(a)) =>
                         /\ \A x \in AskedAnyway(a) : BisectLeft(Days(a), x) <= EarlyStarts[a]
                         /\ Takes(a) => \A k \in DOMAIN edges : edges[k][2] = a =>
                              EarlyFinishes[edges[k][1]] + Link(k).lag <= EarlyStarts[a]
                         /\ \/ \E x \in AskedAnyway(a) : EarlyStarts[a] = BisectLeft(Days(a), x)
                            \/ Takes(a) /\ \E k \in DOMAIN edges :
                                 /\ edges[k][2] = a
                                 /\ EarlyStarts[a] = EarlyFinishes[edges[k][1]] + Link(k).lag
                         /\ EarlyFinishes[a] = EarlyStarts[a] + Duration(Task(a)) - NotShort[a]
  BY <1>2 DEF Timed
<1>5. PICK B : B = LinkBounds(a)
  OBVIOUS
<1>6. [s |-> es[a], f |-> ef[a]] = Granted(a, B, net.dataDate)
  BY <1>2, <1>5 DEF DatedAsAsked
<1>7. CASE IsComplete(Task(a))
  <2>1. Granted(a, B, net.dataDate).f = Task(a).finish + 1
    BY <1>7 DEF Granted
  <2> QED BY <1>4, <1>6, <1>7, <2>1
<1>8. CASE ~IsComplete(Task(a))
  <2>1. B \in SUBSET Int /\ IsFiniteSet(B)
    <3>1. PartOfTheLinks(edges)
      BY DEF PartOfTheLinks
    <3>2. \A k \in DOMAIN edges : edges[k][1] \in Node
      BY EdgeFacts DEF Structure
    <3>3. BoundsInto(edges, a, EarlyDates) \in SUBSET Int /\ IsFiniteSet(BoundsInto(edges, a, EarlyDates))
      BY <1>2, <1>4, <3>1, <3>2, BoundsAreInstants
    <3>4. BoundsInto(edges, a, EarlyDates) = B
      BY <1>3, <1>5 DEF BoundsInto, LinkBounds
    <3> QED BY <3>3, <3>4
  <2>2. Duration(Task(a)) \in Nat
    BY DurationIsNatural DEF Structure, NetworkFixed
  <2>3. SpanLands(Days(a), es[a], Duration(Task(a)))
    BY <1>1, <1>4, <1>8 DEF RunInWindow
  <2>4. PICK d : d = Granted(a, B, net.dataDate) /\ d.s = es[a] /\ d.f = ef[a]
    BY <1>6
  <2>5. /\ \A x \in AskedFor(a, B) : BisectLeft(Days(a), x) <= BisectLeft(Days(a), d.s)
        /\ \E x \in AskedFor(a, B) : BisectLeft(Days(a), x) = BisectLeft(Days(a), d.s)
        /\ BisectLeft(Days(a), d.f) = BisectLeft(Days(a), d.s) + Duration(Task(a))
    BY <1>8, <2>1, <2>2, <2>3, <2>4, GrantedIsTimed
  <2>6. AskedFor(a, B) = AskedAnyway(a) \cup (IF Takes(a) THEN B ELSE {})
    <3>1. B = {} <=> ~\E k \in DOMAIN edges : edges[k][2] = a
      BY <1>5 DEF LinkBounds
    <3> QED BY <3>1, AskedSplits
  <2>7. \A x : x \in B <=> \E k \in DOMAIN edges : edges[k][2] = a /\ x = LinkBound(k)
    BY <1>5 DEF LinkBounds
  <2>8. \A k \in DOMAIN edges : edges[k][2] = a =>
          BisectLeft(Days(a), LinkBound(k)) = EarlyFinishes[edges[k][1]] + Link(k).lag
    BY <1>3
  <2>9. PICK lat : lat = Days(a)
    OBVIOUS
  <2>10. \A x \in AskedAnyway(a) : BisectLeft(lat, x) <= EarlyStarts[a]
    BY <1>4, <2>4, <2>5, <2>6, <2>9
  <2>11. ASSUME Takes(a), NEW k \in DOMAIN edges, edges[k][2] = a
         PROVE  EarlyFinishes[edges[k][1]] + Link(k).lag <= EarlyStarts[a]
    <3>1. LinkBound(k) \in AskedFor(a, B)
      BY <2>6, <2>7, <2>11
    <3> QED BY <1>4, <2>4, <2>5, <2>8, <2>11, <3>1
  <2>12. \/ \E x \in AskedAnyway(a) : EarlyStarts[a] = BisectLeft(lat, x)
         \/ Takes(a) /\ \E k \in DOMAIN edges :
                          /\ edges[k][2] = a
                          /\ EarlyStarts[a] = EarlyFinishes[edges[k][1]] + Link(k).lag
    <3>1. PICK x \in AskedFor(a, B) : BisectLeft(lat, x) = EarlyStarts[a]
      BY <1>4, <2>4, <2>5, <2>9
    <3>2. CASE x \in AskedAnyway(a)
      BY <3>1, <3>2
    <3>3. CASE Takes(a) /\ x \in B
      <4>1. PICK k \in DOMAIN edges : edges[k][2] = a /\ x = LinkBound(k)
        BY <2>7, <3>3
      <4> QED BY <2>8, <2>9, <3>1, <3>3, <4>1
    <3> QED BY <2>6, <3>1, <3>2, <3>3
  <2>13. EarlyFinishes[a] = EarlyStarts[a] + Duration(Task(a)) - NotShort[a]
    <3>1. PICK s \in Nat : s = EarlyStarts[a]
      <4>1. IsLattice(Days(a))
        BY ActivityFacts DEF Structure, NetworkFixed
      <4> QED BY <1>4, <4>1, PositionsCount
    <3>2. PICK n \in Nat : n = Duration(Task(a))
      BY <2>2
    <3>3. EarlyFinishes[a] = s + n /\ NotShort[a] = 0
      BY <1>4, <2>4, <2>5, <3>1, <3>2
    <3> QED BY <3>1, <3>2, <3>3
  <2> QED BY <1>8, <2>9, <2>10, <2>11, <2>12, <2>13
<1> QED BY <1>7, <1>8

\* Numbers of an activity that are whole.
LEMMA TimedNumbers ==
  ASSUME Structure
  PROVE  /\ \A a \in Node : Duration(Task(a)) \in Nat
         /\ \A k \in DOMAIN edges :
              edges[k][1] \in Node /\ edges[k][2] \in Node /\ Link(k).lag \in Int
         /\ ProbeDays \in Nat
<1>1. \A a \in Node : Duration(Task(a)) \in Nat
  BY DurationIsNatural DEF Structure, NetworkFixed
<1>2. \A k \in DOMAIN edges : Link(k).lag \in Int
  BY EdgeFacts DEF Structure, ALink
<1> QED BY <1>1, <1>2, EdgeFacts, ProbeAssumption DEF Structure

\* Later by so much at the start, and by so much less work on one side.
LEMMA LaterBy ==
  ASSUME NEW s \in Int, NEW t \in Int, NEW d \in Int, NEW v \in Int, NEW w \in Int,
         NEW x \in Int, NEW y \in Int, s <= t + v, w >= v + y - x
  PROVE  (s + d) - x <= ((t + d) - y) + w
OBVIOUS

\* How much later starts and finishes may lie grows along the links, and makes up
\* for the work one timing is short of and another is not.
MakesUp(v, w, x, y) ==
  /\ \A a \in Node : v[a] >= 0 /\ w[a] >= 0 /\ w[a] >= v[a] + y[a] - x[a]
  /\ \A k \in DOMAIN edges : w[edges[k][1]] <= v[edges[k][2]]

\* Starts that may lie v later, and finishes that may lie w later, lie no later.
LEMMA TimingsGrow ==
  ASSUME Structure, sort = "ordered",
         NEW S \in [Node -> Int], NEW F \in [Node -> Int],
         NEW T \in [Node -> Int], NEW G \in [Node -> Int],
         NEW x \in [Node -> Int], NEW y \in [Node -> Int],
         NEW v \in [Node -> Int], NEW w \in [Node -> Int],
         Timed(S, F, x), Timed(T, G, y), MakesUp(v, w, x, y)
  PROVE  \A a \in Node : /\ F[a] <= G[a] + w[a]
                         /\ ~IsComplete(Task(a)) => S[a] <= T[a] + v[a]
<1> DEFINE Kept(a) == /\ F[a] <= G[a] + w[a]
                      /\ ~IsComplete(Task(a)) => S[a] <= T[a] + v[a]
           N == Len(order)
           Good == {n \in 1..N : Kept(order[n])}
<1>1. /\ N \in Nat /\ DOMAIN order = 1..N
      /\ \A j \in DOMAIN order : order[j] \in Node
      /\ \A a \in Node : \E j \in DOMAIN order : order[j] = a
      /\ \A k \in DOMAIN edges : \A j \in DOMAIN order :
           order[j] = edges[k][2] => \E i \in DOMAIN order : i < j /\ order[i] = edges[k][1]
  BY OrderFacts DEF Structure
<1>2. ASSUME NEW n \in 1..N, \A m \in 1..N : m < n => m \in Good
      PROVE  n \in Good
  <2>1. PICK a \in Node : a = order[n]
    BY <1>1
  <2>5. PICK sa \in Int, fa \in Int, ta \in Int, ga \in Int :
          sa = S[a] /\ fa = F[a] /\ ta = T[a] /\ ga = G[a]
    OBVIOUS
  <2>6. PICK va \in Int, wa \in Int, xa \in Int, ya \in Int :
          va = v[a] /\ wa = w[a] /\ xa = x[a] /\ ya = y[a]
    OBVIOUS
  <2>7. va >= 0 /\ wa >= 0 /\ wa >= va + ya - xa
    BY <2>6 DEF MakesUp
  <2>2. ASSUME NEW k \in DOMAIN edges, edges[k][2] = a
        PROVE  F[edges[k][1]] <= G[edges[k][1]] + v[a]
    <3>1. PICK i \in 1..N : i < n /\ order[i] = edges[k][1]
      BY <1>1, <2>1, <2>2
    <3>2. F[edges[k][1]] <= G[edges[k][1]] + w[edges[k][1]]
      BY <1>2, <3>1
    <3>3. PICK p \in Node : p = edges[k][1]
      BY TimedNumbers
    <3>4. PICK fp \in Int, gp \in Int, wp \in Int : fp = F[p] /\ gp = G[p] /\ wp = w[p]
      OBVIOUS
    <3>5. wp <= va
      BY <2>2, <2>6, <3>3, <3>4 DEF MakesUp
    <3>6. fp <= gp + wp
      BY <3>2, <3>3, <3>4
    <3>7. fp <= gp + va
      BY <3>5, <3>6
    <3> QED BY <2>6, <3>3, <3>4, <3>7
  <2>3. CASE IsComplete(Task(a))
    <3>1. fa = ga
      BY <2>3, <2>5 DEF Timed
    <3>2. fa <= ga + wa
      BY <2>7, <3>1
    <3> QED BY <2>1, <2>3, <2>5, <2>6, <3>2
  <2>4. CASE ~IsComplete(Task(a))
    <3>1. sa <= ta + va
      <4>1. CASE \E z \in AskedAnyway(a) : S[a] = BisectLeft(Days(a), z)
        <5>1. sa <= ta
          BY <2>4, <2>5, <4>1 DEF Timed
        <5> QED BY <2>7, <5>1
      <4>2. CASE Takes(a) /\ \E k \in DOMAIN edges :
                               edges[k][2] = a /\ S[a] = F[edges[k][1]] + Link(k).lag
        <5>1. PICK k \in DOMAIN edges : edges[k][2] = a /\ S[a] = F[edges[k][1]] + Link(k).lag
          BY <4>2
        <5>2. G[edges[k][1]] + Link(k).lag <= T[a]
          BY <2>4, <4>2, <5>1 DEF Timed
        <5>3. F[edges[k][1]] <= G[edges[k][1]] + v[a]
          BY <2>2, <5>1
        <5>4. PICK p \in Node, l \in Int : p = edges[k][1] /\ l = Link(k).lag
          BY TimedNumbers
        <5>5. PICK fp \in Int, gp \in Int : fp = F[p] /\ gp = G[p]
          OBVIOUS
        <5>6. sa = fp + l /\ gp + l <= ta /\ fp <= gp + va
          BY <2>5, <2>6, <5>1, <5>2, <5>3, <5>4, <5>5
        <5> QED BY <5>6
      <4> QED BY <2>4, <4>1, <4>2 DEF Timed
    <3>2. PICK d \in Nat : d = Duration(Task(a))
      BY TimedNumbers
    <3>3. fa = sa + d - xa /\ ga = ta + d - ya
      BY <2>4, <2>5, <2>6, <3>2 DEF Timed
    <3>4. fa <= ga + wa
      <4>1. d \in Int /\ wa >= va + ya - xa
        BY <2>7, <3>2
      <4>2. (sa + d) - xa <= ((ta + d) - ya) + wa
        BY <3>1, <4>1, LaterBy
      <4> QED BY <3>3, <4>2
    <3> QED BY <2>1, <2>5, <2>6, <3>1, <3>4
  <2> QED BY <2>3, <2>4
<1> HIDE DEF Good, N
<1>3. \A n \in 1..N : n \in Good
  BY <1>1, <1>2, CountOn
<1>4. ASSUME NEW a \in Node PROVE Kept(a)
  <2>1. PICK n \in 1..N : order[n] = a
    BY <1>1
  <2>2. n \in Good
    BY <1>3
  <2> QED BY <2>1, <2>2 DEF Good
<1> QED BY <1>4

\* Work delayed moves nothing earlier, and nothing by more than the delay; what is
\* delayed finishes that much later, since what comes before it stays.
LEMMA DelayIsBounded ==
  ASSUME Structure, sort = "ordered", NEW of \in Node, ~IsComplete(Task(of)),
         NEW S \in [Node -> Int], NEW F \in [Node -> Int],
         NEW T \in [Node -> Int], NEW G \in [Node -> Int],
         Timed(S, F, ShortBy(of)), Timed(T, G, NotShort)
  PROVE  /\ \A a \in Node : F[a] <= G[a] /\ G[a] <= F[a] + ProbeDays
         /\ F[of] + ProbeDays <= G[of]
<1>1. ProbeDays \in Nat
  BY TimedNumbers
<1>2. /\ ShortBy(of) \in [Node -> Int] /\ NotShort \in [Node -> Int]
      /\ \A a \in Node : NotShort[a] = 0 /\ ShortBy(of)[a] = IF a = of THEN ProbeDays ELSE 0
  BY <1>1 DEF ShortBy, NotShort
<1>3. \A k \in DOMAIN edges : edges[k][1] \in Node /\ edges[k][2] \in Node
  BY TimedNumbers
<1>4. \A a \in Node : F[a] <= G[a] + 0 /\ (~IsComplete(Task(a)) => S[a] <= T[a] + 0)
  <2> DEFINE z == [a \in Node |-> 0]
  <2>1. z \in [Node -> Int] /\ \A a \in Node : z[a] = 0
    OBVIOUS
  <2> HIDE DEF z
  <2>2. MakesUp(z, z, ShortBy(of), NotShort)
    BY <1>1, <1>2, <1>3, <2>1 DEF MakesUp
  <2>3. \A a \in Node : F[a] <= G[a] + z[a] /\ (~IsComplete(Task(a)) => S[a] <= T[a] + z[a])
    BY <1>2, <2>1, <2>2, TimingsGrow
  <2> QED BY <2>1, <2>3
<1>5. \A a \in Node : G[a] <= F[a] + ProbeDays
  <2>1. /\ Len(order) \in Nat /\ DOMAIN order = 1..Len(order)
        /\ \A i, j \in DOMAIN order : order[i] = order[j] => i = j
        /\ \A a \in Node : \E j \in DOMAIN order : order[j] = a
        /\ \A k \in DOMAIN edges : \A j \in DOMAIN order :
             order[j] = edges[k][2] => \E i \in DOMAIN order : i < j /\ order[i] = edges[k][1]
    BY OrderFacts DEF Structure
  <2>2. PICK o \in DOMAIN order : order[o] = of
    BY <2>1
  <2> DEFINE v == [a \in Node |-> IF \E i \in DOMAIN order : order[i] = a /\ i <= o
                                  THEN 0 ELSE ProbeDays]
             w == [a \in Node |-> IF \E i \in DOMAIN order : order[i] = a /\ i < o
                                  THEN 0 ELSE ProbeDays]
  <2>3. v \in [Node -> Int] /\ w \in [Node -> Int]
    BY <1>1
  <2>4. ASSUME NEW a \in Node
        PROVE  v[a] >= 0 /\ w[a] >= 0 /\ w[a] >= v[a] + ShortBy(of)[a] - NotShort[a]
               /\ w[a] <= ProbeDays
    <3>1. PICK i \in DOMAIN order : order[i] = a
      BY <2>1
    <3>2. \A j \in DOMAIN order : order[j] = a => j = i
      BY <2>1, <3>1
    <3>3. v[a] = (IF i <= o THEN 0 ELSE ProbeDays) /\ w[a] = (IF i < o THEN 0 ELSE ProbeDays)
      BY <3>1, <3>2
    <3>4. a = of <=> i = o
      BY <2>1, <2>2, <3>1
    <3> HIDE DEF v, w
    <3>5. i \in Int /\ o \in Int
      BY <2>1
    <3> QED BY <1>1, <1>2, <3>3, <3>4, <3>5
  <2>5. ASSUME NEW k \in DOMAIN edges
        PROVE  w[edges[k][1]] <= v[edges[k][2]]
    <3>1. PICK p \in Node, s \in Node : p = edges[k][1] /\ s = edges[k][2]
      BY <1>3
    <3>2. PICK j \in DOMAIN order : order[j] = s
      BY <2>1
    <3>3. PICK i \in DOMAIN order : i < j /\ order[i] = p
      BY <2>1, <3>1, <3>2
    <3>4. \A h \in DOMAIN order : order[h] = s => h = j
      BY <2>1, <3>2
    <3>5. v[s] = IF j <= o THEN 0 ELSE ProbeDays
      BY <3>2, <3>4
    <3>6. i < o => w[p] = 0
      BY <3>3
    <3> HIDE DEF v
    <3>7. w[p] <= ProbeDays
      BY <2>4
    <3>8. i \in Int /\ j \in Int /\ o \in Int
      BY <2>1
    <3> HIDE DEF w
    <3> QED BY <1>1, <3>1, <3>3, <3>5, <3>6, <3>7, <3>8
  <2> HIDE DEF v, w
  <2>7. MakesUp(v, w, NotShort, ShortBy(of))
    BY <2>4, <2>5 DEF MakesUp
  <2>6. \A a \in Node : G[a] <= F[a] + w[a] /\ (~IsComplete(Task(a)) => T[a] <= S[a] + v[a])
    BY <1>2, <2>3, <2>7, TimingsGrow
  <2> QED BY <1>1, <2>3, <2>4, <2>6
<1>6. F[of] + ProbeDays <= G[of]
  <2>1. PICK d \in Nat : d = Duration(Task(of))
    BY TimedNumbers
  <2>2. F[of] = S[of] + d - ProbeDays /\ G[of] = T[of] + d - 0
    BY <1>2, <2>1 DEF Timed
  <2>3. S[of] <= T[of]
    BY <1>4
  <2> QED BY <1>1, <2>1, <2>2, <2>3
<1> QED BY <1>4, <1>5, <1>6

\* A delay put into c[m] is carried to c[0] by links that each set the start they lead to.
CarriedBy(S, F, c, m) ==
  /\ \A n \in 0..m : c[n] \in Node /\ ~IsComplete(Task(c[n])) /\ Takes(c[n])
  /\ \A n \in 0..m : n # m =>
       \E k \in DOMAIN edges : /\ edges[k][1] = c[n + 1] /\ edges[k][2] = c[n]
                               /\ S[c[n]] = F[c[n + 1]] + Link(k).lag

\* So it reaches c[0] in full.
LEMMA DelayIsCarried ==
  ASSUME Structure, sort = "ordered", NEW of \in Node, ~IsComplete(Task(of)),
         NEW S \in [Node -> Int], NEW F \in [Node -> Int],
         NEW T \in [Node -> Int], NEW G \in [Node -> Int],
         Timed(S, F, ShortBy(of)), Timed(T, G, NotShort),
         NEW c, NEW m \in Nat, c[m] = of, CarriedBy(S, F, c, m)
  PROVE  F[c[0]] + ProbeDays <= G[c[0]]
<1>1. ProbeDays \in Nat
  BY TimedNumbers
<1>2. \A a \in Node : NotShort[a] = 0 /\ ShortBy(of)[a] \in Nat
  BY <1>1 DEF ShortBy, NotShort
<1>3. /\ \A n \in 0..m : c[n] \in Node /\ ~IsComplete(Task(c[n])) /\ Takes(c[n])
      /\ \A n \in 0..m : n # m =>
           \E k \in DOMAIN edges : /\ edges[k][1] = c[n + 1] /\ edges[k][2] = c[n]
                                   /\ S[c[n]] = F[c[n + 1]] + Link(k).lag
  BY DEF CarriedBy
<1> DEFINE Good == {n \in 0..m : F[c[m - n]] + ProbeDays <= G[c[m - n]]}
<1>4. 0 \in Good
  BY <1>3, DelayIsBounded
<1>5. ASSUME NEW n \in 0..m, n \in Good, n # m
      PROVE  n + 1 \in Good
  <2>1. PICK i \in 0..m : i = m - (n + 1) /\ i + 1 = m - n /\ i # m
    BY <1>5
  <2>2. PICK k \in DOMAIN edges : /\ edges[k][1] = c[i + 1] /\ edges[k][2] = c[i]
                                  /\ S[c[i]] = F[c[i + 1]] + Link(k).lag
    BY <1>3, <2>1
  <2>3. PICK a \in Node, p \in Node, l \in Int : a = c[i] /\ p = c[i + 1] /\ l = Link(k).lag
    BY <1>3, <2>1, <2>2, TimedNumbers
  <2>4. F[p] + ProbeDays <= G[p]
    BY <1>5, <2>1, <2>3
  <2>5. ~IsComplete(Task(a)) /\ Takes(a)
    BY <1>3, <2>1, <2>3
  <2>6. G[p] + l <= T[a]
    BY <2>2, <2>3, <2>5 DEF Timed
  <2>7. S[a] = F[p] + l
    BY <2>2, <2>3
  <2>8. PICK d \in Nat : d = Duration(Task(a))
    BY TimedNumbers
  <2>9. F[a] = S[a] + d - ShortBy(of)[a] /\ G[a] = T[a] + d - NotShort[a]
    BY <2>5, <2>8 DEF Timed
  <2>12. PICK fp \in Int, gp \in Int, sa \in Int, ta \in Int, short \in Nat :
           fp = F[p] /\ gp = G[p] /\ sa = S[a] /\ ta = T[a] /\ short = ShortBy(of)[a]
    BY <1>2
  <2>13. F[a] = (sa + d) - short /\ G[a] = ta + d /\ sa + ProbeDays <= ta
    <3>1. sa = fp + l /\ gp + l <= ta /\ fp + ProbeDays <= gp
      BY <2>4, <2>6, <2>7, <2>12
    <3>2. sa + ProbeDays <= ta
      BY <1>1, <3>1
    <3>3. G[a] = ta + d
      BY <1>2, <2>8, <2>9, <2>12
    <3> QED BY <2>8, <2>9, <2>12, <3>2, <3>3
  <2>10. F[a] + ProbeDays <= G[a]
    BY <1>1, <2>8, <2>12, <2>13
  <2>11. n + 1 \in 0..m
    BY <1>5
  <2> QED BY <2>1, <2>3, <2>10, <2>11
<1> HIDE DEF Good
<1>6. \A n \in 0..m : n \in Good
  BY <1>4, <1>5, CountUp
<1>7. m \in 0..m
  OBVIOUS
<1>8. m \in Good
  BY <1>6, <1>7
<1> QED BY <1>8 DEF Good

\* The project ends when the last activity does, and what drives an activity sets
\* its start.
TimedFinish(S, F) ==
  /\ terminal \in Node /\ F[terminal] = BisectLeft(Days(terminal), projectFinish)
  /\ \A a \in Node : F[a] <= F[terminal]
  /\ \A a \in Node : driving[a] # None =>
       /\ ~IsComplete(Task(a))
       /\ \E k \in DOMAIN edges : /\ edges[k][1] = driving[a] /\ edges[k][2] = a
                                  /\ S[a] = F[driving[a]] + Link(k).lag

TimingKnown ==
  \E S \in [Node -> Int], F \in [Node -> Int] : Timed(S, F, NotShort) /\ TimedFinish(S, F)

\* Of a finished run the finish, its activity and the drivers are explained by a timing,
\* whatever the post-pass moved.
EarlyKnown ==
  phase \in {"alap", "float", "done"} /\ OneCalendarInUse /\ PlainlyLinked => TimingKnown

\* The early dates explain them when the passes have ended.
LEMMA KnownAtFirst ==
  ASSUME RunInv, DriversHold, FinishAtFirst, PathInWindow,
         phase = "backward", OneCalendarInUse, PlainlyLinked
  PROVE  TimingKnown
<1>1. Structure /\ DatedAsAsked /\ StartIsExplained /\ FinishSet
  BY DEF RunInv, CPMInv, FinishAtFirst
<1>2. /\ Timed(EarlyStarts, EarlyFinishes, NotShort)
      /\ \A a \in Node : es[a] \in Int /\ ef[a] \in Int
  BY <1>1, EarlyIsTimed
<1>3. RunInWindow(edges, EarlyDates) /\ LagsInWindow
  BY DEF PathInWindow
<1>4. \A a \in Node : IsLattice(Days(a))
  BY <1>1, ActivityFacts DEF Structure, NetworkFixed
<1>5. /\ \A a \in Node : EarlyStarts[a] = BisectLeft(Days(a), es[a])
      /\ \A a \in Node : EarlyFinishes[a] = BisectLeft(Days(a), ef[a])
  BY DEF EarlyStarts, EarlyFinishes
<1>6. EarlyStarts \in [Node -> Int] /\ EarlyFinishes \in [Node -> Int]
  <2>1. \A a \in Node : BisectLeft(Days(a), es[a]) \in Int /\ BisectLeft(Days(a), ef[a]) \in Int
    BY <1>4, PositionsCount
  <2> QED BY <2>1 DEF EarlyStarts, EarlyFinishes
<1>7. terminal \in Node /\ ef[terminal] = projectFinish /\ \A a \in Node : ef[a] <= projectFinish
  BY <1>1 DEF FinishSet
<1>8. EarlyFinishes[terminal] = BisectLeft(Days(terminal), projectFinish)
  BY <1>5, <1>7
<1>9. ASSUME NEW a \in Node
      PROVE  EarlyFinishes[a] <= EarlyFinishes[terminal]
  <2>1. Days(a) = Days(terminal) /\ ef[a] \in Int /\ ef[terminal] \in Int /\ ef[a] <= ef[terminal]
    BY <1>2, <1>7, SameDays
  <2>2. BisectLeft(Days(a), ef[a]) <= BisectLeft(Days(a), ef[terminal])
    BY <1>4, <2>1, PositionsGrow
  <2> QED BY <1>5, <1>7, <2>1, <2>2
<1>10. ASSUME NEW a \in Node, driving[a] # None
       PROVE  /\ ~IsComplete(Task(a))
              /\ \E k \in DOMAIN edges :
                   /\ edges[k][1] = driving[a] /\ edges[k][2] = a
                   /\ EarlyStarts[a] = EarlyFinishes[driving[a]] + Link(k).lag
  <2>1. ~IsComplete(Task(a)) /\ es[a] # None
    BY <1>10 DEF DriversHold
  <2>2. PICK k \in DOMAIN edges :
          edges[k] = <<driving[a], a>> /\ es[a] = SnapStartForward(Days(a), LinkBound(k))
    BY <1>1, <1>10, <2>1 DEF StartIsExplained
  <2>3. edges[k][1] = driving[a] /\ edges[k][2] = a
    BY <2>2
  <2>4. /\ LinkBound(k) \in Int
        /\ BisectLeft(Days(a), LinkBound(k)) = EarlyFinishes[driving[a]] + Link(k).lag
    BY <1>1, <1>2, <1>3, <2>3, LinkIsAdded
  <2>5. BisectLeft(Days(a), es[a]) = BisectLeft(Days(a), LinkBound(k))
    BY <1>4, <2>2, <2>4, SnapSkipsNothing
  <2> QED BY <1>5, <2>1, <2>3, <2>4, <2>5
<1>11. TimedFinish(EarlyStarts, EarlyFinishes)
  BY <1>7, <1>8, <1>9, <1>10 DEF TimedFinish
<1> QED BY <1>2, <1>6, <1>11 DEF TimingKnown

\* What a timing and what it explains depend on.
LEMMA TimingStays ==
  ASSUME net' = net, edges' = edges
  PROVE  /\ (OneCalendarInUse' <=> OneCalendarInUse) /\ (PlainlyLinked' <=> PlainlyLinked)
         /\ \A S, F, x : Timed(S, F, x)' <=> Timed(S, F, x)
         /\ UNCHANGED <<terminal, projectFinish, driving>> =>
              \A S, F : TimedFinish(S, F)' <=> TimedFinish(S, F)
<1>1. /\ \A a : Task(a)' = Task(a) /\ Days(a)' = Days(a) /\ Link(a)' = Link(a)
      /\ \A a, b : LagDays(a, b)' = LagDays(a, b)
  BY DEF Task, Days, Link, LagDays
<1>2. \A k : IsCountedInWork(k)' <=> IsCountedInWork(k)
  BY <1>1 DEF IsCountedInWork
<1>3. (OneCalendarInUse' <=> OneCalendarInUse) /\ (PlainlyLinked' <=> PlainlyLinked)
  BY <1>1, <1>2 DEF OneCalendarInUse, PlainlyLinked
<1>4. \A a : (Takes(a)' <=> Takes(a)) /\ AskedAnyway(a)' = AskedAnyway(a)
  BY <1>1 DEF Takes, AskedAnyway, AskedFor
<1>5. ASSUME NEW S, NEW F, NEW x
      PROVE  Timed(S, F, x)' <=> Timed(S, F, x)
  BY <1>1, <1>4 DEF Timed
<1>6. ASSUME NEW S, NEW F, UNCHANGED <<terminal, projectFinish, driving>>
      PROVE  TimedFinish(S, F)' <=> TimedFinish(S, F)
  BY <1>1, <1>6 DEF TimedFinish
<1> QED BY <1>3, <1>5, <1>6

\* Once the passes have ended, the finish, its activity and the drivers stay.
LEMMA FinishStays ==
  ASSUME [CPMNext]_vars, phase' \in {"alap", "float", "done"}
  PROVE  /\ phase \in {"backward", "alap", "float", "done"}
         /\ UNCHANGED <<terminal, projectFinish, driving>>
<1> USE DEF passVars, earlyVars, lateVars, spanVars, floatVars, cpmVars, vars
<1>1. CASE Validate \/ Sort \/ StartForward
  BY <1>1 DEF Validate, Sort, StartForward
<1>2. CASE Forward
  BY <1>2 DEF Forward, ConsiderPredecessor, KeepActuals, PlaceEarly
<1>3. CASE SetDeadline
  BY <1>3 DEF SetDeadline
<1>4. CASE Backward
  BY <1>4 DEF Backward, ConsiderSuccessor, KeepActualsLate, PlaceLate
<1>5. CASE StartPostPass
  BY <1>5 DEF StartPostPass
<1>6. CASE PostPass
  BY <1>6 DEF PostPass, SlideLate, StartFloat, MeasureFloat, Return
<1>7. CASE UNCHANGED vars
  BY <1>7
<1> QED BY <1>1, <1>2, <1>3, <1>4, <1>5, <1>6, <1>7 DEF CPMNext

\* No step after the passes loses that explanation.
LEMMA EarlyKnownStep ==
  ASSUME RunInv, DriversHold, FinishAtFirst, PathInWindow, EarlyKnown, [CPMNext]_vars
  PROVE  EarlyKnown'
<1> SUFFICES ASSUME phase' \in {"alap", "float", "done"}, OneCalendarInUse', PlainlyLinked'
             PROVE  TimingKnown'
  BY DEF EarlyKnown
<1>1. net' = net /\ edges' = edges
  BY StepsKeepTheNetwork
<1>2. /\ phase \in {"backward", "alap", "float", "done"}
      /\ UNCHANGED <<terminal, projectFinish, driving>>
  BY FinishStays
<1>3. OneCalendarInUse /\ PlainlyLinked
  BY <1>1, TimingStays
<1>4. TimingKnown
  BY <1>2, <1>3, KnownAtFirst DEF EarlyKnown
<1>5. PICK S \in [Node -> Int], F \in [Node -> Int] : Timed(S, F, NotShort) /\ TimedFinish(S, F)
  BY <1>4 DEF TimingKnown
<1>6. Timed(S, F, NotShort)' /\ TimedFinish(S, F)'
  BY <1>1, <1>2, <1>5, TimingStays
<1> QED BY <1>6 DEF TimingKnown

\* From each activity to the one that drives it, from the one that ends the project
\* on, up to the Nth.
BackTo(N, f) ==
  f = [n \in 0..N |-> IF n = 0 THEN terminal
                      ELSE IF f[n - 1] = None THEN None ELSE driving[f[n - 1]]]

\* The driving path is walked so.
LEMMA DrivenThroughIs ==
  DrivenThrough = CHOOSE f : BackTo(Cardinality(Node), f)
BY DEF DrivenThrough, BackTo

\* The walk meets activities until it ends.
LEMMA BackMeets ==
  ASSUME terminal \in Node, driving \in [Node -> Node \cup {None}], NEW N \in Nat, NEW f,
         BackTo(N, f)
  PROVE  /\ DOMAIN f = 0..N
         /\ f[0] = terminal
         /\ \A n \in 0..N : f[n] \in Node \cup {None}
         /\ \A n \in 0..N : n # N => f[n + 1] = IF f[n] = None THEN None ELSE driving[f[n]]
<1>1. DOMAIN f = 0..N /\ f[0] = terminal
  <2>1. 0 \in 0..N
    OBVIOUS
  <2> QED BY <2>1 DEF BackTo
<1>2. ASSUME NEW n \in 0..N, n # N
      PROVE  f[n + 1] = IF f[n] = None THEN None ELSE driving[f[n]]
  <2>1. n + 1 \in 0..N /\ n + 1 # 0 /\ (n + 1) - 1 = n
    BY <1>2
  <2> QED BY <2>1 DEF BackTo
<1> DEFINE S == {n \in 0..N : f[n] \in Node \cup {None}}
<1>3. 0 \in S
  BY <1>1
<1>4. ASSUME NEW n \in 0..N, n \in S, n # N PROVE n + 1 \in S
  BY <1>2, <1>4
<1> HIDE DEF S
<1>5. \A n \in 0..N : n \in S
  BY <1>3, <1>4, CountUp
<1> QED BY <1>1, <1>2, <1>5 DEF S

\* There is such a walk.
LEMMA BackExists ==
  ASSUME terminal \in Node, driving \in [Node -> Node \cup {None}], NEW N \in Nat
  PROVE  \E f : BackTo(N, f)
<1>1. PICK g : g = [a \in Node \cup {None} |-> IF a = None THEN None ELSE driving[a]]
  OBVIOUS
<1>2. PICK f : Iterates(N, terminal, g, f)
  BY IterationExists
<1> DEFINE S == {n \in 0..N : f[n] \in Node \cup {None}}
<1>3. 0 \in S
  BY <1>2 DEF Iterates
<1>4. ASSUME NEW n \in 0..N, n \in S, n # N PROVE n + 1 \in S
  <2>1. n + 1 \in 0..N /\ n + 1 # 0 /\ (n + 1) - 1 = n
    BY <1>4
  <2>2. f[n + 1] = g[f[n]]
    BY <1>2, <2>1 DEF Iterates
  <2>3. g[f[n]] \in Node \cup {None}
    BY <1>1, <1>4
  <2> QED BY <2>1, <2>2, <2>3
<1> HIDE DEF S
<1>5. \A n \in 0..N : n \in S
  BY <1>3, <1>4, CountUp
<1>6. ASSUME NEW n \in 0..N, n # 0
      PROVE  g[f[n - 1]] = IF f[n - 1] = None THEN None ELSE driving[f[n - 1]]
  <2>1. n - 1 \in S
    BY <1>5, <1>6
  <2> QED BY <1>1, <2>1 DEF S
<1>7. f = [n \in 0..N |-> IF n = 0 THEN terminal ELSE g[f[n - 1]]]
  BY <1>2 DEF Iterates
<1> DEFINE h == [n \in 0..N |-> IF n = 0 THEN terminal
                      ELSE IF f[n - 1] = None THEN None ELSE driving[f[n - 1]]]
<1>8. h = [n \in 0..N |-> IF n = 0 THEN terminal ELSE g[f[n - 1]]]
  BY <1>6
<1>9. f = h
  BY <1>7, <1>8
<1> QED BY <1>9 DEF BackTo

\* All it meets is on the longest path.
LEMMA BackIsOnThePath ==
  ASSUME IsFiniteSet(Node), terminal \in Node, driving \in [Node -> Node \cup {None}],
         NEW f, BackTo(Cardinality(Node), f)
  PROVE  \A n \in 0..Cardinality(Node) : f[n] # None => f[n] \in LongestPath
<1>1. PICK N \in Nat : N = Cardinality(Node)
  BY FS_CardinalityType
<1>2. PICK met : met = CHOOSE g : MetTo(N, g)
  OBVIOUS
<1>3. MetTo(N, met)
  BY <1>2, WalkExists
<1>4. \A i \in 0..N : met[i] = IF i = 0 THEN {terminal} ELSE WithDrivers(met[i - 1])
  BY <1>3 DEF MetTo
<1>5. /\ f[0] = terminal
      /\ \A n \in 0..N : n # N => f[n + 1] = IF f[n] = None THEN None ELSE driving[f[n]]
  BY <1>1, BackMeets
<1> DEFINE S == {i \in 0..N : \A n \in 0..i : f[n] # None => f[n] \in met[i]}
<1>6. 0 \in S
  <2>1. met[0] = {terminal} /\ \A n \in 0..0 : n = 0
    BY <1>4
  <2> QED BY <1>5, <2>1
<1>7. ASSUME NEW i \in 0..N, i \in S, i # N PROVE i + 1 \in S
  <2>1. i + 1 \in 0..N /\ i + 1 # 0 /\ (i + 1) - 1 = i
    BY <1>7
  <2>2. met[i + 1] = WithDrivers(met[i])
    BY <1>4, <2>1
  <2>3. ASSUME NEW n \in 0..(i + 1), f[n] # None
        PROVE  f[n] \in met[i + 1]
    <3>1. CASE n \in 0..i
      <4>1. f[n] \in met[i]
        BY <1>7, <2>3, <3>1
      <4> QED BY <2>2, <4>1 DEF WithDrivers
    <3>2. CASE n \notin 0..i
      <4>1. n = i + 1 /\ i \in 0..i
        BY <2>3, <3>2
      <4>2. f[i] # None /\ f[n] = driving[f[i]]
        BY <1>5, <1>7, <2>3, <4>1
      <4>3. f[i] \in met[i]
        BY <1>7, <4>1, <4>2
      <4> QED BY <2>2, <2>3, <4>2, <4>3 DEF WithDrivers
    <3> QED BY <3>1, <3>2
  <2> QED BY <2>1, <2>3
<1> HIDE DEF S
<1>8. \A i \in 0..N : i \in S
  BY <1>6, <1>7, CountUp
<1>9. N \in S /\ N \in 0..N
  BY <1>8
<1>10. LongestPath = met[N]
  BY <1>1, <1>2, PathIs
<1> QED BY <1>1, <1>9, <1>10 DEF S

\* The greatest of finitely many numbers is one of them.
LEMMA MaxIsOne ==
  ASSUME NEW K \in SUBSET Int, IsFiniteSet(K), K # {}
  PROVE  Max(K) \in K
<1>1. PICK x \in K : \A y \in K : y <= x
  BY HasGreatest
<1>2. \A y \in K : x >= y
  BY <1>1
<1> QED BY <1>2, Zenon DEF Max

\* The activity delayed is one met going back along the drivers, and open.
LEMMA ProbePointIsOpen ==
  ASSUME IsFiniteSet(Node), terminal \in Node, driving \in [Node -> Node \cup {None}],
         ProbePoint # None
  PROVE  \E c : \E m \in 0..Cardinality(Node) :
           /\ BackTo(Cardinality(Node), c)
           /\ c[m] = ProbePoint /\ c[m] \in Node /\ ~IsComplete(Task(c[m]))
<1>1. PICK N \in Nat : N = Cardinality(Node)
  BY FS_CardinalityType
<1>2. PICK c : c = DrivenThrough
  OBVIOUS
<1>3. BackTo(N, c)
  <2>1. \E f : BackTo(N, f)
    BY BackExists
  <2>2. BackTo(N, CHOOSE f : BackTo(N, f))
    BY <2>1, Zenon
  <2>3. c = CHOOSE f : BackTo(N, f)
    BY <1>1, <1>2, DrivenThroughIs
  <2> QED BY <2>2, <2>3
<1>4. DOMAIN c = 0..N /\ \A n \in 0..N : c[n] \in Node \cup {None}
  BY <1>3, BackMeets
<1>5. PICK open : open = {n \in 0..N : c[n] # None /\ ~IsComplete(Task(c[n])) /\ Task(c[n]).dur > 0}
  OBVIOUS
<1>6. open # {} /\ ProbePoint = c[Max(open)]
  BY <1>2, <1>4, <1>5 DEF ProbePoint
<1>7. Max(open) \in open
  <2>1. open \in SUBSET (0..N) /\ open \in SUBSET Int
    BY <1>5
  <2>2. IsFiniteSet(0..N)
    <3>1. 0 \in Int /\ N \in Int
      OBVIOUS
    <3> QED BY <3>1, FS_Interval
  <2>3. IsFiniteSet(open)
    BY <2>1, <2>2, FS_Subset
  <2> QED BY <1>6, <2>1, <2>3, MaxIsOne
<1>8. PICK m \in 0..N : m = Max(open) /\ c[m] # None /\ ~IsComplete(Task(c[m]))
  BY <1>5, <1>7
<1> QED BY <1>1, <1>3, <1>4, <1>6, <1>8

\* The activity delayed is met going back along the drivers, every activity on the
\* way open and on the longest path.
LEMMA ProbePointIsReached ==
  ASSUME IsFiniteSet(Node), driving \in [Node -> Node \cup {None}],
         NEW S, NEW F, TimedFinish(S, F), ProbePoint # None
  PROVE  /\ ProbePoint \in Node /\ ~IsComplete(Task(ProbePoint))
         /\ \E c : \E m \in Nat :
              /\ c[0] = terminal /\ c[m] = ProbePoint
              /\ \A n \in 0..m : c[n] \in Node /\ ~IsComplete(Task(c[n])) /\ c[n] \in LongestPath
              /\ \A n \in 0..m : n # m =>
                   \E k \in DOMAIN edges : /\ edges[k][1] = c[n + 1] /\ edges[k][2] = c[n]
                                           /\ S[c[n]] = F[c[n + 1]] + Link(k).lag
<1>1. PICK N \in Nat : N = Cardinality(Node)
  BY FS_CardinalityType
<1>2. terminal \in Node
  BY DEF TimedFinish
<1>3. PICK c : \E m \in 0..Cardinality(Node) :
        /\ BackTo(Cardinality(Node), c)
        /\ c[m] = ProbePoint /\ c[m] \in Node /\ ~IsComplete(Task(c[m]))
  BY <1>2, ProbePointIsOpen
<1>4. PICK m \in 0..N : /\ BackTo(N, c) /\ c[m] = ProbePoint
                       /\ c[m] \in Node /\ ~IsComplete(Task(c[m]))
  BY <1>1, <1>3
<1>5. /\ c[0] = terminal
      /\ \A n \in 0..N : c[n] \in Node \cup {None}
      /\ \A n \in 0..N : n # N => c[n + 1] = IF c[n] = None THEN None ELSE driving[c[n]]
  BY <1>2, <1>4, BackMeets
<1>6. m \in 0..N /\ m \in Nat /\ c[m] # None /\ ~IsComplete(Task(c[m])) /\ c[m] = ProbePoint
  BY <1>4, NodeAssumption
<1> DEFINE G == {n \in 0..m : c[m - n] # None}
<1>7. 0 \in G
  BY <1>6
<1>8. ASSUME NEW n \in 0..m, n \in G, n # m PROVE n + 1 \in G
  <2>1. PICK i \in 0..m : i = m - (n + 1) /\ i + 1 = m - n /\ i \in 0..N /\ i # N
    BY <1>6, <1>8
  <2>2. c[i + 1] # None
    BY <1>8, <2>1
  <2>3. c[i] # None
    BY <1>5, <2>1, <2>2
  <2>4. n + 1 \in 0..m
    BY <1>6, <1>8
  <2>5. c[m - (n + 1)] # None
    BY <2>1, <2>3
  <2> QED BY <2>4, <2>5
<1> HIDE DEF G
<1>9. \A n \in 0..m : n \in G
  BY <1>6, <1>7, <1>8, CountUp
<1>10. ASSUME NEW n \in 0..m PROVE c[n] # None
  <2>1. m - n \in 0..m /\ m - (m - n) = n
    BY <1>6
  <2>2. m - n \in G
    BY <1>9, <2>1
  <2> QED BY <2>1, <2>2 DEF G
<1>11. ASSUME NEW n \in 0..m
       PROVE  c[n] \in Node /\ c[n] \in LongestPath /\ n \in 0..N
  <2>1. n \in 0..N /\ c[n] # None
    BY <1>6, <1>10
  <2>2. c[n] \in LongestPath
    BY <1>1, <1>2, <1>4, <2>1, BackIsOnThePath
  <2> QED BY <1>5, <2>1, <2>2
<1>12. ASSUME NEW n \in 0..m, n # m
       PROVE  /\ ~IsComplete(Task(c[n]))
              /\ \E k \in DOMAIN edges : /\ edges[k][1] = c[n + 1] /\ edges[k][2] = c[n]
                                         /\ S[c[n]] = F[c[n + 1]] + Link(k).lag
  <2>1. n + 1 \in 0..m /\ n # N
    BY <1>6, <1>12
  <2>2. c[n] \in Node /\ c[n] # None /\ c[n + 1] # None /\ n \in 0..N
    BY <1>10, <1>11, <2>1
  <2>3. c[n + 1] = driving[c[n]] /\ driving[c[n]] # None
    BY <1>5, <2>1, <2>2
  <2> QED BY <2>2, <2>3 DEF TimedFinish
<1>13. \A n \in 0..m : ~IsComplete(Task(c[n]))
  BY <1>6, <1>12
<1> QED BY <1>5, <1>6, <1>11, <1>12, <1>13

\* The probe lengthens one activity and changes nothing else of the network.
LEMMA ProbedTasks ==
  ASSUME Structure, NEW a \in Node, net' = [net EXCEPT !.task[a].dur = @ + ProbeDays]
  PROVE  /\ net'.links = net.links /\ net'.lagCalendar = net.lagCalendar
         /\ net'.dataDate = net.dataDate
         /\ \A b \in Node : b # a => net'.task[b] = net.task[b]
         /\ net'.task[a].dur = net.task[a].dur + ProbeDays
         /\ net'.task[a].cal = net.task[a].cal /\ net'.task[a].cdate = net.task[a].cdate
         /\ net'.task[a].constraint = net.task[a].constraint
         /\ net'.task[a].start = net.task[a].start /\ net'.task[a].finish = net.task[a].finish
<1>1. /\ DOMAIN net = {"task", "links", "mode", "lagCalendar", "mustFinishBy", "dataDate"}
      /\ net.task \in [Node -> Activity]
  BY DEF Structure, KahnInv, NetworkFixed, IsNetwork
<1>2. PICK x : x = [net.task[a] EXCEPT !.dur = @ + ProbeDays]
  OBVIOUS
<1>3. PICK task : task = [net.task EXCEPT ![a] = x]
  OBVIOUS
<1>4. net' = [net EXCEPT !.task = task]
  BY <1>1, <1>2, <1>3
<1>5. /\ net'.task = task /\ net'.links = net.links
      /\ net'.lagCalendar = net.lagCalendar /\ net'.dataDate = net.dataDate
  BY <1>1, <1>4
<1>6. net.task[a] \in Activity
  BY <1>1
<1>7. /\ x.dur = net.task[a].dur + ProbeDays
      /\ x.cal = net.task[a].cal /\ x.cdate = net.task[a].cdate
      /\ x.constraint = net.task[a].constraint
      /\ x.start = net.task[a].start /\ x.finish = net.task[a].finish
  BY <1>2, <1>6 DEF Activity
<1>8. \A b \in Node : task[b] = IF b = a THEN x ELSE net.task[b]
  BY <1>1, <1>3
<1> QED BY <1>5, <1>7, <1>8

\* The days worked, the links and how they are counted stay.
LEMMA ProbedPlan ==
  ASSUME Structure, NEW a \in Node, net' = [net EXCEPT !.task[a].dur = @ + ProbeDays]
  PROVE  /\ \A k : Link(k)' = Link(k)
         /\ \A b \in Node : Days(b)' = Days(b)
         /\ (OneCalendarInUse' <=> OneCalendarInUse)
         /\ (PlainlyLinked' <=> PlainlyLinked)
<1>1. IsNetwork
  BY DEF Structure, NetworkFixed
<1>2. \A b \in Node : net'.task[b].cal = net.task[b].cal
  BY ProbedTasks
<1>3. net'.links = net.links /\ net'.lagCalendar = net.lagCalendar
  BY ProbedTasks
<1>4. \A b \in Node : Days(b)' = Days(b)
  BY <1>2 DEF Days, Task
<1>5. OneCalendarInUse' <=> OneCalendarInUse
  BY <1>2 DEF OneCalendarInUse, Task
<1>6. \A k : Link(k)' = Link(k)
  BY <1>3 DEF Link
<1>7. \A k \in DOMAIN net.links : Link(k).pred \in Node /\ Link(k).succ \in Node
  BY <1>1 DEF IsNetwork, Link
<1>8. \A k \in DOMAIN net.links : IsCountedInWork(k)' <=> IsCountedInWork(k)
  <2> SUFFICES ASSUME NEW k \in DOMAIN net.links
               PROVE  IsCountedInWork(k)' <=> IsCountedInWork(k)
    OBVIOUS
  <2>1. /\ Link(k)' = Link(k)
        /\ Days(Link(k).pred)' = Days(Link(k).pred)
        /\ Days(Link(k).succ)' = Days(Link(k).succ)
    BY <1>4, <1>6, <1>7
  <2>2. LagDays(Link(k).pred, Link(k).succ)' = LagDays(Link(k).pred, Link(k).succ)
    BY <1>3, <2>1 DEF LagDays
  <2> QED BY <1>3, <2>1, <2>2 DEF IsCountedInWork
<1>9. PlainlyLinked' <=> PlainlyLinked
  BY <1>3, <1>6, <1>8 DEF PlainlyLinked
<1> QED BY <1>4, <1>5, <1>6, <1>9

\* A timing of the plan is one of the plan delayed, whose delayed work falls short by
\* the delay.
LEMMA ProbedTiming ==
  ASSUME Structure, NEW a \in Node, net' = [net EXCEPT !.task[a].dur = @ + ProbeDays],
         edges' = edges, ~IsStarted(Task(a)), Task(a).constraint \notin FloorsEarlyFinish,
         NEW S \in [Node -> Int], NEW F \in [Node -> Int], Timed(S, F, NotShort)
  PROVE  Timed(S, F, ShortBy(a))'
<1>1. /\ \A k : Link(k)' = Link(k)
      /\ \A b \in Node : Days(b)' = Days(b)
      /\ net'.dataDate = net.dataDate
  BY ProbedPlan, ProbedTasks
<1>2. \A b \in Node : b # a => Task(b)' = Task(b)
  BY ProbedTasks DEF Task
<1>3. /\ Task(a)'.dur = Task(a).dur + ProbeDays
      /\ Task(a)'.cdate = Task(a).cdate /\ Task(a)'.constraint = Task(a).constraint
      /\ Task(a)'.start = Task(a).start /\ Task(a)'.finish = Task(a).finish
  BY ProbedTasks DEF Task
<1>4. ~IsComplete(Task(a))
  <2>1. IsNetwork
    BY DEF Structure, NetworkFixed
  <2>2. IsTask(Task(a))
    BY <2>1, ActivityFacts
  <2> QED BY <2>2 DEF IsTask, IsComplete, IsStarted
<1>5. /\ (IsComplete(Task(a))' <=> IsComplete(Task(a)))
      /\ (IsStarted(Task(a))' <=> IsStarted(Task(a)))
      /\ EarlyFloor(Days(a), Task(a))' = EarlyFloor(Days(a), Task(a))
  BY <1>1, <1>3 DEF IsComplete, IsStarted, EarlyFloor, HasConstraint
<1>6. Duration(Task(a))' = Duration(Task(a)) + ProbeDays
  BY <1>3, <1>5 DEF Duration
<1>7. \A B : AskedFor(a, B)' = AskedFor(a, B)
  BY <1>1, <1>3, <1>5 DEF AskedFor
<1>8. ASSUME NEW b \in Node
      PROVE  (Takes(b)' <=> Takes(b)) /\ AskedAnyway(b)' = AskedAnyway(b)
  <2>1. CASE b = a
    BY <1>1, <1>3, <1>5, <1>7, <2>1 DEF Takes, AskedAnyway
  <2>2. CASE b # a
    <3>1. Task(b)' = Task(b) /\ Days(b)' = Days(b)
      BY <1>1, <1>2, <2>2
    <3> QED BY <1>1, <3>1 DEF Takes, AskedAnyway, AskedFor
  <2> QED BY <2>1, <2>2
<1>9. ASSUME NEW b \in Node
      PROVE  /\ IsComplete(Task(b))' => IsComplete(Task(b)) /\ Task(b)'.finish = Task(b).finish
             /\ ~IsComplete(Task(b))' => ~IsComplete(Task(b))
  BY <1>2, <1>3, <1>5
<1>10. ASSUME NEW b \in Node
       PROVE  F[b] = S[b] + Duration(Task(b)) - NotShort[b]
              => F[b] = S[b] + Duration(Task(b))' - ShortBy(a)[b]
  <2>1. S[b] \in Int /\ Duration(Task(b)) \in Nat /\ ProbeDays \in Nat /\ NotShort[b] = 0
    BY TimedNumbers DEF NotShort
  <2>2. CASE b = a
    <3>1. ShortBy(a)[b] = ProbeDays /\ Duration(Task(b))' = Duration(Task(b)) + ProbeDays
      BY <1>6, <2>2 DEF ShortBy
    <3> QED BY <2>1, <3>1
  <2>3. CASE b # a
    <3>1. ShortBy(a)[b] = 0 /\ Duration(Task(b))' = Duration(Task(b))
      BY <1>2, <2>3 DEF ShortBy
    <3> QED BY <2>1, <3>1
  <2> QED BY <2>2, <2>3
<1>11. ShortBy(a)' = ShortBy(a)
  BY DEF ShortBy
<1>12. ASSUME NEW b \in Node
       PROVE  /\ IsComplete(Task(b))' => F[b] = BisectLeft(Days(b)', Task(b)'.finish + 1)
              /\ ~IsComplete(Task(b))' =>
                   /\ \A x \in AskedAnyway(b)' : BisectLeft(Days(b)', x) <= S[b]
                   /\ Takes(b)' => \A k \in DOMAIN edges' : edges'[k][2] = b =>
                                     F[edges'[k][1]] + Link(k)'.lag <= S[b]
                   /\ \/ \E x \in AskedAnyway(b)' : S[b] = BisectLeft(Days(b)', x)
                      \/ Takes(b)' /\ \E k \in DOMAIN edges' :
                           edges'[k][2] = b /\ S[b] = F[edges'[k][1]] + Link(k)'.lag
                   /\ F[b] = S[b] + Duration(Task(b))' - ShortBy(a)[b]
  <2>1. /\ (Takes(b)' <=> Takes(b)) /\ AskedAnyway(b)' = AskedAnyway(b) /\ Days(b)' = Days(b)
        /\ \A k : Link(k)' = Link(k)
    BY <1>1, <1>8
  <2>2. CASE IsComplete(Task(b))'
    BY <1>9, <2>1, <2>2 DEF Timed
  <2>3. CASE ~IsComplete(Task(b))'
    <3>1. ~IsComplete(Task(b))
      BY <1>9, <2>3
    <3>2. /\ \A x \in AskedAnyway(b) : BisectLeft(Days(b), x) <= S[b]
          /\ Takes(b) => \A k \in DOMAIN edges : edges[k][2] = b =>
                           F[edges[k][1]] + Link(k).lag <= S[b]
          /\ \/ \E x \in AskedAnyway(b) : S[b] = BisectLeft(Days(b), x)
             \/ Takes(b) /\ \E k \in DOMAIN edges :
                              edges[k][2] = b /\ S[b] = F[edges[k][1]] + Link(k).lag
          /\ F[b] = S[b] + Duration(Task(b)) - NotShort[b]
      BY <3>1 DEF Timed
    <3>3. F[b] = S[b] + Duration(Task(b))' - ShortBy(a)[b]
      BY <1>10, <3>2
    <3> QED BY <2>1, <2>3, <3>2, <3>3
  <2> QED BY <2>2, <2>3
<1> QED BY <1>11, <1>12 DEF Timed

\* A delay the plan does not take up is on work not started, over plain links, and
\* nothing on its path is pinned.
LEMMA NothingAbsorbs ==
  ASSUME ~Absorbs
  PROVE  /\ ~IsStarted(Task(probe.of)) /\ PlainlyLinked
         /\ \A a \in probe.path : Task(a).constraint \notin Mandatory \cup FloorsEarlyFinish
BY DEF Absorbs, PlainlyLinked

\* Of the timing before the probe, what its answer is compared with.
TimedBefore(S, F, c, m) ==
  /\ Timed(S, F, ShortBy(probe.of)) /\ CarriedBy(S, F, c, m)
  /\ c[m] = probe.of /\ F[c[0]] = BisectLeft(Days(probe.of), probe.finish)
  /\ \A a \in Node : F[a] <= F[c[0]]

\* The finish before the probe is explained by a timing of the plan delayed that falls
\* short by the delay, and the work delayed drives that finish.
ProbeKnown ==
  probe # None /\ OneCalendarInUse /\ ~Absorbs =>
    /\ probe.of \in Node /\ ~IsComplete(Task(probe.of))
    /\ \E S \in [Node -> Int], F \in [Node -> Int] : \E c : \E m \in Nat : TimedBefore(S, F, c, m)

\* It depends on the network and the probe.
LEMMA ProbeKnownStays ==
  ASSUME net' = net, edges' = edges, probe' = probe, ProbeKnown
  PROVE  ProbeKnown'
<1>1. /\ \A a : Task(a)' = Task(a) /\ Days(a)' = Days(a) /\ Link(a)' = Link(a)
      /\ \A a, b : LagDays(a, b)' = LagDays(a, b)
  BY DEF Task, Days, Link, LagDays
<1>2. \A k : IsCountedInWork(k)' <=> IsCountedInWork(k)
  BY <1>1 DEF IsCountedInWork
<1>3. Absorbs' <=> Absorbs
  BY <1>1, <1>2 DEF Absorbs
<1>4. /\ OneCalendarInUse' <=> OneCalendarInUse
      /\ \A S, F, x : Timed(S, F, x)' <=> Timed(S, F, x)
  BY TimingStays
<1>5. \A a : Takes(a)' <=> Takes(a)
  BY <1>1 DEF Takes
<1>6. ASSUME NEW S, NEW F, NEW c, NEW m, TimedBefore(S, F, c, m)
      PROVE  TimedBefore(S, F, c, m)'
  <2>1. CarriedBy(S, F, c, m)'
    BY <1>1, <1>5, <1>6 DEF TimedBefore, CarriedBy
  <2>2. PICK x : x = ShortBy(probe.of)
    OBVIOUS
  <2>3. x = ShortBy(probe.of)'
    BY <2>2 DEF ShortBy
  <2>4. Timed(S, F, x)'
    BY <1>4, <1>6, <2>2 DEF TimedBefore
  <2>5. Timed(S, F, ShortBy(probe.of))'
    BY <2>3, <2>4
  <2> QED BY <1>1, <1>6, <2>1, <2>5 DEF TimedBefore
<1>7. SUFFICES ASSUME probe # None, OneCalendarInUse, ~Absorbs
               PROVE  /\ probe.of \in Node /\ ~IsComplete(Task(probe.of))'
                      /\ (\E S \in [Node -> Int], F \in [Node -> Int] : \E c : \E m \in Nat :
                            TimedBefore(S, F, c, m))'
  BY <1>3, <1>4 DEF ProbeKnown
<1>8. PICK S \in [Node -> Int], F \in [Node -> Int] : \E c : \E m \in Nat : TimedBefore(S, F, c, m)
  BY <1>7 DEF ProbeKnown
<1>9. PICK c : \E m \in Nat : TimedBefore(S, F, c, m)
  BY <1>8
<1>10. PICK m \in Nat : TimedBefore(S, F, c, m)
  BY <1>9
<1>11. TimedBefore(S, F, c, m)'
  BY <1>6, <1>10
<1>12. probe.of \in Node /\ ~IsComplete(Task(probe.of))'
  BY <1>1, <1>7 DEF ProbeKnown
<1> QED BY <1>11, <1>12

\* The assessment sends a probe from dates that are known.
LEMMA ProbeSent ==
  ASSUME RunInv, EarlyKnown, NEW r \in Reviews, Assess(r)
  PROVE  ProbeKnown'
<1> SUFFICES ASSUME (probe # None /\ OneCalendarInUse /\ ~Absorbs)'
             PROVE  /\ (probe.of \in Node /\ ~IsComplete(Task(probe.of)))'
                    /\ (\E S \in [Node -> Int], F \in [Node -> Int] : \E c : \E m \in Nat :
                          TimedBefore(S, F, c, m))'
  BY DEF ProbeKnown
<1>1. phase = "done" /\ Structure /\ KahnInv
  BY DEF Assess, RunInv, CPMInv, Structure
<1>2. IsFiniteSet(Node) /\ driving \in [Node -> Node \cup {None}] /\ terminal \in Node
  <2>1. IsFiniteSet(Node)
    <3>1. nodes \in Seq(Node) /\ Elements(nodes) = Node /\ Injective(nodes)
      BY <1>1 DEF KahnInv, IsGraph, Injective
    <3> QED BY <3>1, InjectiveLength
  <2>2. driving \in [Node -> Node \cup {None}]
    BY <1>1 DEF Structure, DatesTyped
  <2>3. terminal \in Node
    BY <1>1, DoneFacts DEF FinishReached
  <2> QED BY <2>1, <2>2, <2>3
<1>3. PICK of : of = ProbePoint
  OBVIOUS
<1>4. /\ of # None
      /\ probe' = [of |-> of, finish |-> projectFinish, own |-> ef[of], path |-> LongestPath]
      /\ Recalculate([net EXCEPT !.task[of].dur = @ + ProbeDays])
  BY <1>3 DEF Assess
<1>5. /\ net' = [net EXCEPT !.task[of].dur = @ + ProbeDays] /\ edges' = edges
      /\ probe'.of = of /\ probe'.finish = projectFinish /\ probe'.path = LongestPath
  BY <1>4 DEF Recalculate
<1>6. of \in Node
  BY <1>2, <1>3, <1>4, ProbePointIsOpen
<1>7. OneCalendarInUse /\ PlainlyLinked
  <2>1. PlainlyLinked'
    BY DEF Absorbs, PlainlyLinked
  <2> QED BY <1>1, <1>5, <1>6, <2>1, ProbedPlan
<1>8. PICK S \in [Node -> Int], F \in [Node -> Int] : Timed(S, F, NotShort) /\ TimedFinish(S, F)
  BY <1>1, <1>7 DEF EarlyKnown, TimingKnown
<1>9. ~IsComplete(Task(of))
  BY <1>2, <1>3, <1>4, <1>8, ProbePointIsReached
<1>10. PICK c : \E m \in Nat :
              /\ c[0] = terminal /\ c[m] = of
              /\ \A n \in 0..m : c[n] \in Node /\ ~IsComplete(Task(c[n])) /\ c[n] \in LongestPath
              /\ \A n \in 0..m : n # m =>
                   \E k \in DOMAIN edges : /\ edges[k][1] = c[n + 1] /\ edges[k][2] = c[n]
                                           /\ S[c[n]] = F[c[n + 1]] + Link(k).lag
  BY <1>2, <1>3, <1>4, <1>8, ProbePointIsReached
<1>11. PICK m \in Nat :
              /\ c[0] = terminal /\ c[m] = of
              /\ \A n \in 0..m : c[n] \in Node /\ ~IsComplete(Task(c[n])) /\ c[n] \in LongestPath
              /\ \A n \in 0..m : n # m =>
                   \E k \in DOMAIN edges : /\ edges[k][1] = c[n + 1] /\ edges[k][2] = c[n]
                                           /\ S[c[n]] = F[c[n + 1]] + Link(k).lag
  BY <1>10
<1>12. /\ \A k : Link(k)' = Link(k)
       /\ \A a \in Node : Days(a)' = Days(a)
  BY <1>1, <1>5, <1>6, ProbedPlan
<1>13. \A a \in Node : /\ Task(a)'.constraint = Task(a).constraint /\ Task(a)'.start = Task(a).start
                       /\ Task(a)'.finish = Task(a).finish
  BY <1>1, <1>5, <1>6, ProbedTasks DEF Task
<1>14. /\ ~IsStarted(Task(of)')
       /\ \A a \in LongestPath : Task(a)'.constraint \notin Mandatory \cup FloorsEarlyFinish
  BY <1>5 DEF Absorbs, Task
<1>15. ~IsStarted(Task(of)) /\ of \in LongestPath /\ Task(of).constraint \notin FloorsEarlyFinish
  <2>1. of \in LongestPath
    BY <1>11
  <2> QED BY <1>6, <1>13, <1>14, <2>1 DEF IsStarted
<1>16. Timed(S, F, ShortBy(of))'
  BY <1>1, <1>5, <1>6, <1>8, <1>15, ProbedTiming
<1>17. CarriedBy(S, F, c, m)'
  <2>1. \A n \in 0..m : c[n] \in Node /\ ~IsComplete(Task(c[n]))' /\ Takes(c[n])'
    <3> SUFFICES ASSUME NEW n \in 0..m
                 PROVE  c[n] \in Node /\ ~IsComplete(Task(c[n]))' /\ Takes(c[n])'
      OBVIOUS
    <3>1. c[n] \in Node /\ ~IsComplete(Task(c[n])) /\ c[n] \in LongestPath
      BY <1>11
    <3>2. ~IsComplete(Task(c[n]))'
      BY <1>13, <3>1 DEF IsComplete
    <3>3. Task(c[n])'.constraint \notin Mandatory
      BY <1>14, <3>1
    <3>4. Takes(c[n])'
      BY <3>3 DEF Takes
    <3> QED BY <3>1, <3>2, <3>4
  <2>2. \A n \in 0..m : n # m =>
          \E k \in DOMAIN edges' : /\ edges'[k][1] = c[n + 1] /\ edges'[k][2] = c[n]
                                   /\ S[c[n]] = F[c[n + 1]] + Link(k)'.lag
    BY <1>5, <1>11, <1>12
  <2> QED BY <2>1, <2>2 DEF CarriedBy
<1>18. F[c[0]] = BisectLeft(Days(of)', projectFinish)
  <2>1. F[terminal] = BisectLeft(Days(terminal), projectFinish)
    BY <1>8 DEF TimedFinish
  <2>2. Days(of)' = Days(of) /\ Days(of) = Days(terminal)
    BY <1>2, <1>6, <1>7, <1>12, SameDays
  <2> QED BY <1>11, <2>1, <2>2
<1>19. \A a \in Node : F[a] <= F[c[0]]
  BY <1>8, <1>11 DEF TimedFinish
<1>20. TimedBefore(S, F, c, m)'
  <2>1. c[m] = probe'.of
    BY <1>5, <1>11
  <2>2. Timed(S, F, ShortBy(probe.of))'
    BY <1>5, <1>16
  <2>3. F[c[0]] = BisectLeft(Days(probe.of)', probe'.finish)
    BY <1>5, <1>18
  <2> QED BY <1>17, <1>19, <2>1, <2>2, <2>3 DEF TimedBefore
<1>21. ~IsComplete(Task(of))'
  BY <1>6, <1>9, <1>13 DEF IsComplete
<1>22. (probe.of \in Node /\ ~IsComplete(Task(probe.of)))'
  BY <1>5, <1>6, <1>21
<1> QED BY <1>20, <1>22

\* A probe that nothing absorbs moves the finish by the delay, and no more.
LEMMA ProbeIsAnswered ==
  ASSUME RunInv, EarlyKnown, ProbeKnown, phase = "done",
         probe # None, OneCalendarInUse, ~Absorbs
  PROVE  ProbePasses
<1>1. PICK of \in Node : of = probe.of
  BY DEF ProbeKnown
<1>2. ~IsComplete(Task(of)) /\ PlainlyLinked /\ Structure /\ sort = "ordered"
  BY <1>1, NothingAbsorbs, DoneFacts DEF ProbeKnown, RunInv, CPMInv
<1>3. PICK S \in [Node -> Int], F \in [Node -> Int] : \E c : \E m \in Nat : TimedBefore(S, F, c, m)
  BY DEF ProbeKnown
<1>4. PICK c : \E m \in Nat : TimedBefore(S, F, c, m)
  BY <1>3
<1>5. PICK m \in Nat : TimedBefore(S, F, c, m)
  BY <1>4
<1>6. /\ Timed(S, F, ShortBy(of)) /\ CarriedBy(S, F, c, m)
      /\ c[m] = of /\ F[c[0]] = BisectLeft(Days(of), probe.finish)
      /\ \A a \in Node : F[a] <= F[c[0]]
  BY <1>1, <1>5 DEF TimedBefore
<1>7. PICK T \in [Node -> Int], G \in [Node -> Int] : Timed(T, G, NotShort) /\ TimedFinish(T, G)
  BY <1>2 DEF EarlyKnown, TimingKnown
<1>8. /\ terminal \in Node /\ G[terminal] = BisectLeft(Days(terminal), projectFinish)
      /\ \A a \in Node : G[a] <= G[terminal]
  BY <1>7 DEF TimedFinish
<1>9. Days(of) = Days(terminal)
  BY <1>8, SameDays
<1>10. \A a \in Node : G[a] <= F[a] + ProbeDays
  BY <1>2, <1>6, <1>7, DelayIsBounded
<1>11. \A n \in 0..m : c[n] \in Node
  BY <1>6 DEF CarriedBy
<1>12. F[c[0]] + ProbeDays <= G[c[0]]
  BY <1>2, <1>6, <1>7, DelayIsCarried
<1>13. c[0] \in Node
  BY <1>11
<1>14. PICK x \in Int, y \in Int : x = F[c[0]] /\ y = G[terminal]
  BY <1>8, <1>13
<1>15. y = x + ProbeDays
  <2>1. PICK p \in Int, q \in Int : p = F[terminal] /\ q = G[c[0]]
    BY <1>8, <1>13
  <2>2. y <= p + ProbeDays /\ p <= x /\ x + ProbeDays <= q /\ q <= y
    BY <1>6, <1>8, <1>10, <1>12, <1>13, <1>14, <2>1
  <2>3. ProbeDays \in Int
    BY ProbeAssumption
  <2> QED BY <2>2, <2>3
<1>16. CountWorkingDays(Days(probe.of), probe.finish, projectFinish) = y - x
  BY <1>1, <1>6, <1>8, <1>9, <1>14 DEF CountWorkingDays
<1>17. y - x = ProbeDays
  <2>1. ProbeDays \in Int
    BY ProbeAssumption
  <2> QED BY <1>15, <2>1
<1> QED BY <1>16, <1>17 DEF ProbePasses

\* One run of the calculation, with what explains its finish once it has one.
RunExplained == RunInv /\ DriversHold /\ FinishAtFirst /\ EarlyKnown

\* Every run starts so.
LEMMA RunExplainedInit ==
  ASSUME IsGraph, IsNetwork, CPMInit
  PROVE  RunExplained
<1>1. RunInv
  BY RunInvInit
<1>2. phase = "validate" /\ driving = [a \in Node |-> None]
  BY DEF CPMInit
<1>3. DriversHold /\ FinishAtFirst /\ EarlyKnown
  BY <1>2 DEF DriversHold, FinishAtFirst, EarlyKnown
<1> QED BY <1>1, <1>3 DEF RunExplained

\* A step of the assessment goes on with the run or starts another.
LEMMA RunExplainedStep ==
  ASSUME RunExplained, PathInWindow, [AssessingNext]_<<vars, kind, healthVars>>
  PROVE  RunExplained' \/ (IsGraph /\ IsNetwork /\ CPMInit)'
<1>1. RunInv /\ Structure /\ StartIsExplained /\ DriversHold /\ FinishAtFirst /\ EarlyKnown
  BY DEF RunExplained, RunInv, CPMInv
<1>2. [CPMNext]_vars \/ (IsGraph /\ IsNetwork /\ CPMInit)'
  BY <1>1, AssessingRuns
<1>3. CASE [CPMNext]_vars
  <2>1. RunInv'
    BY <1>1, <1>3, RunInvStep
  <2>2. DriversHold'
    BY <1>1, <1>3, DriversHoldStep
  <2>3. FinishAtFirst'
    BY <1>1, <1>3, FinishAtFirstStep
  <2>4. EarlyKnown'
    BY <1>1, <1>3, EarlyKnownStep
  <2> QED BY <2>1, <2>2, <2>3, <2>4 DEF RunExplained
<1> QED BY <1>2, <1>3

\* The probe under way stays explained.
LEMMA ProbeKnownStep ==
  ASSUME RunExplained, ProbeKnown, [AssessingNext]_<<vars, kind, healthVars>>
  PROVE  ProbeKnown'
<1>1. CASE CPMNext /\ UNCHANGED <<kind, healthVars>>
  <2>1. net' = net /\ edges' = edges /\ probe' = probe
    BY <1>1, StepsKeepTheNetwork DEF healthVars
  <2> QED BY <2>1, ProbeKnownStays
<1>2. CASE \E r \in Reviews : Assess(r)
  BY <1>2, ProbeSent DEF RunExplained
<1>3. CASE AnswerProbe
  <2>1. net' = net /\ edges' = edges /\ probe' = probe
    BY <1>3 DEF AnswerProbe, vars, cpmVars, kahnVars
  <2> QED BY <2>1, ProbeKnownStays
<1>4. CASE UNCHANGED <<vars, kind, healthVars>>
  <2>1. net' = net /\ edges' = edges /\ probe' = probe
    BY <1>4 DEF healthVars, vars, cpmVars, kahnVars
  <2> QED BY <2>1, ProbeKnownStays
<1> QED BY <1>1, <1>2, <1>3, <1>4 DEF AssessingNext, HealthNext

\* What the answer is judged by stays while the network and the probe do.
LEMMA PathGovernsStays ==
  ASSUME net' = net, probe' = probe, checks' = checks, PathGoverns
  PROVE  PathGoverns'
<1>1. /\ \A a : Task(a)' = Task(a) /\ Days(a)' = Days(a) /\ Link(a)' = Link(a)
      /\ \A a, b : LagDays(a, b)' = LagDays(a, b)
  BY DEF Task, Days, Link, LagDays
<1>2. \A k : IsCountedInWork(k)' <=> IsCountedInWork(k)
  BY <1>1 DEF IsCountedInWork
<1>3. (Absorbs' <=> Absorbs) /\ (OneCalendarInUse' <=> OneCalendarInUse)
  BY <1>1, <1>2 DEF Absorbs, OneCalendarInUse
<1>4. IsAssessed' <=> IsAssessed
  BY DEF IsAssessed
<1> QED BY <1>3, <1>4 DEF PathGoverns

\* An answer that fails names something that takes the delay up.
LEMMA PathGovernsStep ==
  ASSUME RunExplained, BaselineChecked, ProbeKnown, PathGoverns,
         [AssessingNext]_<<vars, kind, healthVars>>
  PROVE  PathGoverns'
<1>1. CASE CPMNext /\ UNCHANGED <<kind, healthVars>>
  <2>1. net' = net /\ probe' = probe /\ checks' = checks
    BY <1>1, StepsKeepTheNetwork DEF healthVars
  <2> QED BY <2>1, PathGovernsStays
<1>2. CASE \E r \in Reviews : Assess(r)
  <2>1. PICK r \in Reviews : checks' = Checked(r, Skipped)
    BY <1>2 DEF Assess
  <2>2. checks'[12] = Skipped
    BY <2>1, FourteenChecks
  <2> QED BY <2>2 DEF PathGoverns, IsAssessed, Skipped
<1>3. CASE AnswerProbe
  <2> SUFFICES ASSUME OneCalendarInUse', ~Absorbs', checks'[12].status = "fail"
               PROVE  FALSE
    BY DEF PathGoverns
  <2>1. /\ phase = "done" /\ checks # None /\ probe # None
        /\ checks' = [checks EXCEPT ![12] =
                        Passed(ProbePasses, IF ProbePasses THEN {} ELSE {probe.of})]
        /\ net' = net /\ edges' = edges /\ probe' = probe
    BY <1>3 DEF AnswerProbe, vars, cpmVars, kahnVars
  <2>2. OneCalendarInUse /\ ~Absorbs
    <3>1. /\ \A a : Task(a)' = Task(a) /\ Days(a)' = Days(a) /\ Link(a)' = Link(a)
          /\ \A a, b : LagDays(a, b)' = LagDays(a, b)
      BY <2>1 DEF Task, Days, Link, LagDays
    <3>2. \A k : IsCountedInWork(k)' <=> IsCountedInWork(k)
      BY <2>1, <3>1 DEF IsCountedInWork
    <3> QED BY <2>1, <3>1, <3>2 DEF Absorbs, OneCalendarInUse
  <2>3. ProbePasses
    BY <2>1, <2>2, ProbeIsAnswered DEF RunExplained
  <2>4. 12 \in DOMAIN checks
    BY <2>1 DEF BaselineChecked
  <2>5. checks'[12] = Passed(ProbePasses, IF ProbePasses THEN {} ELSE {probe.of})
    BY <2>1, <2>4
  <2> QED BY <2>3, <2>5 DEF Passed
<1>4. CASE UNCHANGED <<vars, kind, healthVars>>
  <2>1. net' = net /\ probe' = probe /\ checks' = checks
    BY <1>4 DEF healthVars, vars, cpmVars
  <2> QED BY <2>1, PathGovernsStays
<1> QED BY <1>1, <1>2, <1>3, <1>4 DEF AssessingNext, HealthNext

\* The dates the checks rest on are within the calendars, whose days the model cuts
\* off: the spans and lags of the early dates when the forward pass has ended, and the
\* late date of the activity that ends the project.
HealthInWindow == TerminalInWindow /\ PathInWindow

\* A check that passes is worth something, for every plan, calendar, delay and
\* baseline (health.py:203-531, progress.py:48-105).
THEOREM ChecksAreHonest == HealthSpec /\ []HealthInWindow => []HealthIsHonest
<1>1. IsGraph /\ IsNetwork /\ CPMInit => RunExplained
  BY RunExplainedInit
<1>2. HealthInit => BaselineChecked /\ ProbeKnown /\ PathGoverns
  BY DEF HealthInit, BaselineChecked, ProbeKnown, PathGoverns, IsAssessed
<1>3. RunExplained /\ HealthInWindow /\ [AssessingNext]_<<vars, kind, healthVars>>
      => RunExplained' \/ (IsGraph /\ IsNetwork /\ CPMInit)'
  BY RunExplainedStep DEF HealthInWindow
<1>4. RunExplained /\ BaselineChecked /\ [AssessingNext]_<<vars, kind, healthVars>>
      => BaselineChecked'
  BY BaselineCheckedStep DEF RunExplained, RunInv, CPMInv
<1>5. RunExplained /\ ProbeKnown /\ [AssessingNext]_<<vars, kind, healthVars>> => ProbeKnown'
  BY ProbeKnownStep
<1>6. RunExplained /\ BaselineChecked /\ ProbeKnown /\ PathGoverns
        /\ [AssessingNext]_<<vars, kind, healthVars>>
      => PathGoverns'
  BY PathGovernsStep
<1>7. RunExplained /\ BaselineChecked /\ PathGoverns /\ HealthInWindow => HealthIsHonest
  BY LogicWhole, DateKept, BaselinesDoAgree DEF HealthIsHonest, HealthInWindow, RunExplained
<1> QED BY <1>1, <1>2, <1>3, <1>4, <1>5, <1>6, <1>7, PTL DEF HealthSpec
=============================================================================
