--------------------------- MODULE Studies_proof ---------------------------
(***************************************************************************)
(* Proofs about the studies, for plans of any size: what the dates of a    *)
(* network are, and from that what the studies promise of theirs.          *)
(***************************************************************************)
EXTENDS StudyProperties, TimeAxis_proof, SequenceTheorems

-----------------------------------------------------------------------------
\* Dates.  Activities A wait for one another through links K: each has a first and
\* a second end, and from the first on so many days pass to the second.

\* Of any activities, one waits for none of the others.
Unringed(A, K, first, second) ==
  \A some \in SUBSET A : some # {} =>
    \E a \in some : \A k \in K : second[k] = a => first[k] \notin some

\* The dates h keep every floor and every link.
Keeps(A, K, first, second, floor, gap, h) ==
  /\ \A a \in A : h[a] \in Int /\ floor[a] <= h[a]
  /\ \A k \in K : h[first[k]] + gap[k] <= h[second[k]]

\* Each of them is set by its floor or by a link.
IsSet(A, K, first, second, floor, gap, h) ==
  \A a \in A : \/ h[a] = floor[a]
               \/ \E k \in K : second[k] = a /\ h[a] = h[first[k]] + gap[k]

\* What a network of links is made of.
IsWeb(A, K, first, second, floor, gap) ==
  /\ IsFiniteSet(A) /\ IsFiniteSet(K)
  /\ first \in [K -> A] /\ second \in [K -> A]
  /\ floor \in [A -> Int] /\ gap \in [K -> Int]
  /\ Unringed(A, K, first, second)

\* A finite set of integers with something in it has a greatest one, and Max is it.
LEMMA MaxIs ==
  ASSUME NEW X \in SUBSET Int, IsFiniteSet(X), X # {}
  PROVE  Max(X) \in X /\ \A x \in X : x <= Max(X)
<1>1. \E x \in X : \A y \in X : x >= y
  BY HasGreatest
<1>2. Max(X) \in X /\ \A y \in X : Max(X) >= y
  BY <1>1, Zenon DEF Max
<1> QED BY <1>2

\* ... and a least one, which Min is.
LEMMA MinIs ==
  ASSUME NEW X \in SUBSET Int, IsFiniteSet(X), X # {}
  PROVE  Min(X) \in X /\ \A x \in X : Min(X) <= x
<1>1. \E x \in X : \A y \in X : x =< y
  BY HasLeast
<1>2. Min(X) \in X /\ \A y \in X : Min(X) =< y
  BY <1>1, Zenon DEF Min
<1> QED BY <1>2

\* Max is known by what it does.
LEMMA MaxKnown ==
  ASSUME NEW X \in SUBSET Int, NEW m \in X, \A x \in X : x <= m
  PROVE  Max(X) = m
<1>1. \E x \in X : \A y \in X : x >= y
  OBVIOUS
<1>2. Max(X) \in X /\ \A y \in X : Max(X) >= y
  BY <1>1, Zenon DEF Max
<1>3. Max(X) \in Int /\ m \in Int /\ Max(X) <= m /\ m <= Max(X)
  BY <1>2
<1> QED BY <1>3

\* A number and finitely many others have a greatest one.
LEMMA GreatestOf ==
  ASSUME NEW f \in Int, NEW J, IsFiniteSet(J), NEW v, \A k \in J : v[k] \in Int,
         NEW X, \A x : x \in X <=> (x = f \/ \E k \in J : x = v[k])
  PROVE  /\ Max(X) \in Int /\ f <= Max(X)
         /\ \A k \in J : v[k] <= Max(X)
         /\ Max(X) = f \/ \E k \in J : Max(X) = v[k]
<1> DEFINE w == [k \in J |-> v[k]]
<1>1. IsFiniteSet({w[k] : k \in J})
  <2>1. DOMAIN w = J
    OBVIOUS
  <2> HIDE DEF w
  <2> QED BY <2>1, FinitelyMany
<1>2. X = {f} \cup {w[k] : k \in J}
  OBVIOUS
<1>3. X \in SUBSET Int /\ X # {}
  OBVIOUS
<1>4. IsFiniteSet(X)
  <2>1. IsFiniteSet({f})
    BY FS_Singleton
  <2> HIDE DEF w
  <2> QED BY <1>1, <1>2, <2>1, FS_Union
<1> HIDE DEF w
<1>5. Max(X) \in X /\ \A x \in X : x <= Max(X)
  BY <1>3, <1>4, MaxIs
<1> QED BY <1>3, <1>5

\* Dates that are set are no later than any that keep.
LEMMA SetIsLeast ==
  ASSUME NEW A, NEW K, NEW first, NEW second, NEW floor, NEW gap,
         IsWeb(A, K, first, second, floor, gap),
         NEW h, \A a \in A : h[a] \in Int, IsSet(A, K, first, second, floor, gap, h),
         NEW g, Keeps(A, K, first, second, floor, gap, g)
  PROVE  \A a \in A : h[a] <= g[a]
<1> DEFINE some == {a \in A : ~(h[a] <= g[a])}
<1>1. SUFFICES ASSUME some # {} PROVE FALSE
  OBVIOUS
<1>2. PICK a \in some : \A k \in K : second[k] = a => first[k] \notin some
  <2>1. some \in SUBSET A
    OBVIOUS
  <2> QED BY <1>1, <2>1 DEF IsWeb, Unringed
<1>3. a \in A /\ h[a] \in Int /\ g[a] \in Int /\ g[a] < h[a] /\ floor[a] <= g[a] /\ floor[a] \in Int
  BY DEF Keeps, IsWeb
<1>4. PICK k \in K : second[k] = a /\ h[a] = h[first[k]] + gap[k]
  BY <1>3 DEF IsSet
<1>5. /\ first[k] \in A /\ gap[k] \in Int
      /\ g[first[k]] + gap[k] <= g[a] /\ h[first[k]] \in Int /\ g[first[k]] \in Int
  BY <1>4 DEF Keeps, IsWeb
<1>6. h[first[k]] <= g[first[k]]
  BY <1>2, <1>4, <1>5
<1> QED BY <1>3, <1>4, <1>5, <1>6

\* What a floor and the links into a grant an activity, from the dates h.
Granted(K, first, second, floor, gap, h, a) ==
  Max({floor[a]} \cup {h[first[k]] + gap[k] : k \in {k \in K : second[k] = a}})

\* It is no earlier than any of them, and one of them.
LEMMA GrantedIs ==
  ASSUME NEW A, NEW K, NEW first, NEW second, NEW floor, NEW gap,
         IsWeb(A, K, first, second, floor, gap),
         NEW h, NEW a \in A, \A k \in K : second[k] = a => h[first[k]] \in Int
  PROVE  /\ Granted(K, first, second, floor, gap, h, a) \in Int
         /\ floor[a] <= Granted(K, first, second, floor, gap, h, a)
         /\ \A k \in K : second[k] = a =>
              h[first[k]] + gap[k] <= Granted(K, first, second, floor, gap, h, a)
         /\ \/ Granted(K, first, second, floor, gap, h, a) = floor[a]
            \/ \E k \in K : /\ second[k] = a
                            /\ Granted(K, first, second, floor, gap, h, a) = h[first[k]] + gap[k]
<1> DEFINE J == {k \in K : second[k] = a}
           v == [k \in J |-> h[first[k]] + gap[k]]
<1>1. floor[a] \in Int /\ IsFiniteSet(J)
  <2>1. J \in SUBSET K
    OBVIOUS
  <2> QED BY <2>1, FS_Subset DEF IsWeb
<1>2. \A k \in J : v[k] = h[first[k]] + gap[k] /\ v[k] \in Int
  BY DEF IsWeb
<1>3. Granted(K, first, second, floor, gap, h, a) = Max({floor[a]} \cup {v[k] : k \in J})
  <2>1. {v[k] : k \in J} = {h[first[k]] + gap[k] : k \in {k \in K : second[k] = a}}
    OBVIOUS
  <2> HIDE DEF v, J
  <2> QED BY <2>1 DEF Granted
<1>4. \A k \in J : v[k] = h[first[k]] + gap[k]
  BY <1>2
<1>5. \A k \in J : v[k] \in Int
  BY <1>2
<1>6. \A k : k \in J <=> k \in K /\ second[k] = a
  OBVIOUS
<1> HIDE DEF J, v
<1>7. PICK X : X = {floor[a]} \cup {v[k] : k \in J}
  OBVIOUS
<1>8. \A x : x \in X <=> (x = floor[a] \/ \E k \in J : x = v[k])
  BY <1>7
<1>9. /\ Max(X) \in Int /\ floor[a] <= Max(X)
      /\ \A k \in J : v[k] <= Max(X)
      /\ Max(X) = floor[a] \/ \E k \in J : Max(X) = v[k]
  BY <1>1, <1>5, <1>8, GreatestOf
<1>10. Granted(K, first, second, floor, gap, h, a) = Max(X)
  BY <1>3, <1>7
<1> QED BY <1>4, <1>6, <1>9, <1>10

\* Every network has dates.  Among the sets of activities that can be left until
\* last there is a smallest one; were there anything in it, one of its activities
\* would wait for none of the others and could be dated next.
LEMMA WebIsDated ==
  ASSUME NEW A, NEW K, NEW first, NEW second, NEW floor, NEW gap,
         IsWeb(A, K, first, second, floor, gap)
  PROVE  \E h : h = [a \in A |-> Granted(K, first, second, floor, gap, h, a)]
<1> DEFINE G(h, a) == Granted(K, first, second, floor, gap, h, a)
           Closed(D) == \A k \in K : second[k] \in D => first[k] \in D
           Dates(D, h) == h \in [D -> Int] /\ \A a \in D : h[a] = G(h, a)
           B == {R \in SUBSET A : Closed(A \ R) /\ \E h : Dates(A \ R, h)}
<1>1. A \in B
  <2>1. A \ A = {}
    OBVIOUS
  <2>2. Closed(A \ A)
    BY <2>1
  <2>3. Dates({}, [a \in {} |-> 0])
    <3> HIDE DEF G
    <3> QED OBVIOUS
  <2>4. Dates(A \ A, [a \in {} |-> 0])
    BY <2>1, <2>3
  <2> HIDE DEF Closed, Dates
  <2> QED BY <2>2, <2>4
<1>2. PICK R \in B : IsMinimal(R, B)
  <2>1. B \subseteq SUBSET A /\ IsFiniteSet(A)
    BY DEF IsWeb
  <2> HIDE DEF B
  <2> QED BY <1>1, <2>1, SmallestSubset
<1>3. R \in SUBSET A /\ Closed(A \ R)
  OBVIOUS
<1>4. PICK h : Dates(A \ R, h)
  OBVIOUS
<1>5. R = {}
  <2>1. SUFFICES ASSUME R # {} PROVE FALSE
    OBVIOUS
  <2>2. PICK a \in R : \A k \in K : second[k] = a => first[k] \notin R
    BY <1>3, <2>1 DEF IsWeb, Unringed
  <2> DEFINE D == A \ R
             E == A \ (R \ {a})
             g == [x \in E |-> IF x = a THEN G(h, a) ELSE h[x]]
  <2>3. /\ a \in A /\ a \notin D /\ E = D \cup {a}
        /\ \A k \in K : first[k] \in A /\ second[k] \in A
    BY <1>3 DEF IsWeb
  <2>4. \A k \in K : second[k] \in E => first[k] \in D
    BY <1>3, <2>2, <2>3
  <2>5. \A x \in D : g[x] = h[x] /\ h[x] \in Int
    BY <1>4, <2>3
  <2>6. \A x \in E : G(g, x) = G(h, x)
    <3>1. TAKE x \in E
    <3>2. \A k \in {k \in K : second[k] = x} : g[first[k]] = h[first[k]]
      BY <2>4, <2>5
    <3>3. {g[first[k]] + gap[k] : k \in {k \in K : second[k] = x}}
            = {h[first[k]] + gap[k] : k \in {k \in K : second[k] = x}}
      <4> HIDE DEF g
      <4> QED BY <3>2
    <3> HIDE DEF g
    <3> QED BY <3>3 DEF Granted
  <2>7. G(h, a) \in Int
    <3>1. \A k \in K : second[k] = a => h[first[k]] \in Int
      BY <2>3, <2>4, <2>5
    <3> HIDE DEF g
    <3> QED BY <2>3, <3>1, GrantedIs
  <2>8. Dates(E, g)
    <3>0. g[a] = G(h, a) /\ DOMAIN g = E
      BY <2>3
    <3>1. g \in [E -> Int]
      <4>1. \A x \in E : g[x] \in Int
        BY <2>3, <2>5, <2>7, <3>0
      <4>2. g = [x \in E |-> g[x]]
        OBVIOUS
      <4> HIDE DEF g, E
      <4> QED BY <4>1, <4>2
    <3>2. \A x \in E : g[x] = G(h, x)
      <4>1. \A x \in D : h[x] = G(h, x)
        BY <1>4
      <4> HIDE DEF g, G
      <4> QED BY <2>3, <2>5, <3>0, <4>1
    <3> HIDE DEF g, G, E
    <3> QED BY <2>6, <3>1, <3>2
  <2>9. R \ {a} \in B
    <3>1. Closed(E)
      BY <2>3, <2>4
    <3>2. R \ {a} \in SUBSET A
      BY <1>3
    <3> HIDE DEF Closed, Dates, g
    <3> QED BY <2>8, <3>1, <3>2
  <2> HIDE DEF B
  <2> QED BY <1>2, <2>2, <2>9 DEF IsMinimal
<1>6. Dates(A, h)
  BY <1>4, <1>5
<1>7. h = [a \in A |-> G(h, a)]
  <2> HIDE DEF G
  <2> QED BY <1>6
<1> QED BY <1>7

\* Dates that are granted keep, and are set.
LEMMA GrantedDates ==
  ASSUME NEW A, NEW K, NEW first, NEW second, NEW floor, NEW gap,
         IsWeb(A, K, first, second, floor, gap),
         NEW h, h = [a \in A |-> Granted(K, first, second, floor, gap, h, a)]
  PROVE  /\ Keeps(A, K, first, second, floor, gap, h)
         /\ IsSet(A, K, first, second, floor, gap, h)
<1>1. \A k \in K : first[k] \in A /\ second[k] \in A /\ gap[k] \in Int
  BY DEF IsWeb
<1>2. \A a \in A : h[a] \in Int
  <2> DEFINE bad == {a \in A : h[a] \notin Int}
  <2>1. SUFFICES ASSUME bad # {} PROVE FALSE
    OBVIOUS
  <2>2. PICK a \in bad : \A k \in K : second[k] = a => first[k] \notin bad
    <3>1. bad \in SUBSET A
      OBVIOUS
    <3> HIDE DEF bad
    <3> QED BY <2>1, <3>1 DEF IsWeb, Unringed
  <2>3. \A k \in K : second[k] = a => h[first[k]] \in Int
    BY <1>1, <2>2
  <2>4. a \in A /\ h[a] \notin Int
    OBVIOUS
  <2>5. h[a] = Granted(K, first, second, floor, gap, h, a)
    BY <2>4
  <2> HIDE DEF bad
  <2>6. Granted(K, first, second, floor, gap, h, a) \in Int
    BY <2>3, <2>4, GrantedIs
  <2> QED BY <2>4, <2>5, <2>6
<1>3. ASSUME NEW a \in A
      PROVE  /\ floor[a] <= h[a]
             /\ \A k \in K : second[k] = a => h[first[k]] + gap[k] <= h[a]
             /\ \/ h[a] = floor[a]
                \/ \E k \in K : second[k] = a /\ h[a] = h[first[k]] + gap[k]
  <2>1. \A k \in K : second[k] = a => h[first[k]] \in Int
    BY <1>1, <1>2
  <2>2. h[a] = Granted(K, first, second, floor, gap, h, a)
    OBVIOUS
  <2> QED BY <2>1, <2>2, GrantedIs
<1> QED BY <1>1, <1>2, <1>3 DEF Keeps, IsSet

\* Days of a rank: a link goes up.
LEMMA Ranked ==
  ASSUME NEW A, NEW K, NEW first, NEW second, NEW floor, NEW gap,
         IsWeb(A, K, first, second, floor, gap)
  PROVE  \E r : /\ \A a \in A : r[a] \in Int
                /\ \A k \in K : r[first[k]] < r[second[k]]
<1> DEFINE zero == [a \in A |-> 0]
           one == [k \in K |-> 1]
<1>1. IsWeb(A, K, first, second, zero, one)
  BY DEF IsWeb
<1>2. \A k \in K : one[k] = 1
  OBVIOUS
<1> HIDE DEF zero, one
<1>3. PICK r : r = [a \in A |-> Granted(K, first, second, zero, one, r, a)]
  BY <1>1, WebIsDated
<1>4. Keeps(A, K, first, second, zero, one, r)
  BY <1>1, <1>3, GrantedDates
<1>5. \A a \in A : r[a] \in Int
  BY <1>4 DEF Keeps
<1>6. \A k \in K : r[first[k]] < r[second[k]]
  <2>1. TAKE k \in K
  <2>2. r[first[k]] \in Int /\ r[second[k]] \in Int
    BY <1>5 DEF IsWeb
  <2>3. r[first[k]] + 1 <= r[second[k]]
    BY <1>2, <1>4 DEF Keeps
  <2> QED BY <2>2, <2>3
<1> QED BY <1>5, <1>6

\* Seen from the end a network is a network: of any activities one is waited for
\* by none of the others, the one of the highest rank.
LEMMA Backwards ==
  ASSUME NEW A, NEW K, NEW first, NEW second, NEW floor, NEW gap,
         IsWeb(A, K, first, second, floor, gap)
  PROVE  Unringed(A, K, second, first)
<1>1. PICK r : /\ \A a \in A : r[a] \in Int
               /\ \A k \in K : r[first[k]] < r[second[k]]
  BY Ranked
<1>2. ASSUME NEW some \in SUBSET A, some # {}
      PROVE  \E a \in some : \A k \in K : first[k] = a => second[k] \notin some
  <2> DEFINE f == [a \in some |-> r[a]]
             V == {f[a] : a \in some}
  <2>1. IsFiniteSet(some)
    BY FS_Subset DEF IsWeb
  <2>2. IsFiniteSet(V)
    <3>1. DOMAIN f = some
      OBVIOUS
    <3> HIDE DEF f
    <3> QED BY <2>1, <3>1, FinitelyMany
  <2>3. V \in SUBSET Int /\ V # {} /\ (\A a \in some : r[a] \in V)
        /\ (\A v \in V : \E a \in some : v = r[a])
    BY <1>1, <1>2
  <2> HIDE DEF V
  <2>4. PICK v \in V : \A y \in V : y <= v
    BY <2>2, <2>3, HasGreatest
  <2>5. PICK a \in some : v = r[a]
    BY <2>3
  <2>6. \A k \in K : first[k] = a => second[k] \notin some
    <3>1. SUFFICES ASSUME NEW k \in K, first[k] = a, second[k] \in some PROVE FALSE
      OBVIOUS
    <3>2. r[second[k]] <= r[a] /\ r[a] < r[second[k]]
      BY <1>1, <2>3, <2>4, <2>5, <3>1
    <3>3. r[a] \in Int /\ r[second[k]] \in Int
      BY <1>1, <3>1
    <3> QED BY <3>2, <3>3
  <2> QED BY <2>6
<1> QED BY <1>2 DEF Unringed

-----------------------------------------------------------------------------
\* The network of a plan.

\* The days from the start of a link's predecessor to that of its successor.
Off(plan, k) == StartBound(plan, k, 0)

Firsts(plan)  == [k \in DOMAIN plan.links |-> plan.links[k].pred]
Seconds(plan) == [k \in DOMAIN plan.links |-> plan.links[k].succ]
Floors(plan)  == [a \in DOMAIN plan.tasks |-> plan.tasks[a].floor]
Offs(plan)    == [k \in DOMAIN plan.links |-> Off(plan, k)]

\* The starts h keep the plan: its floors and its links.
Meets(plan, h) ==
  /\ \A a \in DOMAIN plan.tasks : h[a] \in Int /\ plan.tasks[a].floor <= h[a]
  /\ \A k \in DOMAIN plan.links : h[plan.links[k].pred] + Off(plan, k) <= h[plan.links[k].succ]

\* Each of them is set by a floor or a link.
Tight(plan, h) ==
  \A a \in DOMAIN plan.tasks :
    \/ h[a] = plan.tasks[a].floor
    \/ \E k \in DOMAIN plan.links : /\ plan.links[k].succ = a
                                    /\ h[a] = h[plan.links[k].pred] + Off(plan, k)

\* What is in a plan.
LEMMA InPlan ==
  ASSUME NEW plan, IsPlan(plan)
  PROVE  /\ IsFiniteSet(DOMAIN plan.tasks) /\ IsFiniteSet(DOMAIN plan.links)
         /\ DOMAIN plan.tasks # {}
         /\ \A a \in DOMAIN plan.tasks :
              /\ plan.tasks[a] \in [dur : Nat, floor : Nat, code : Nat]
              /\ plan.tasks[a].dur \in Nat /\ plan.tasks[a].floor \in Nat
         /\ \A k \in DOMAIN plan.links :
              /\ plan.links[k] \in [pred : DOMAIN plan.tasks, succ : DOMAIN plan.tasks,
                                    type : {"FS", "SS", "FF", "SF"}, lag : Int]
              /\ plan.links[k].pred \in DOMAIN plan.tasks
              /\ plan.links[k].succ \in DOMAIN plan.tasks
              /\ plan.links[k].lag \in Int
              /\ plan.links[k].type \in {"FS", "SS", "FF", "SF"}
              /\ Off(plan, k) \in Int
<1> DEFINE A == DOMAIN plan.tasks
           L == [pred : A, succ : A, type : {"FS", "SS", "FF", "SF"}, lag : Int]
<1>1. IsFiniteSet(A) /\ A # {} /\ plan.links \in Seq(L)
      /\ plan.tasks \in [A -> [dur : Nat, floor : Nat, code : Nat]]
  BY DEF IsPlan
<1>2. /\ DOMAIN plan.links = 1..Len(plan.links) /\ Len(plan.links) \in Nat
      /\ \A k \in DOMAIN plan.links : plan.links[k] \in L
  <2> HIDE DEF L
  <2> QED BY <1>1
<1>3. IsFiniteSet(DOMAIN plan.links)
  <2>1. 1 \in Int /\ Len(plan.links) \in Int
    BY <1>2
  <2>2. IsFiniteSet(1..Len(plan.links))
    BY <2>1, FS_Interval
  <2> QED BY <1>2, <2>2
<1>4. \A a \in A : /\ plan.tasks[a] \in [dur : Nat, floor : Nat, code : Nat]
                   /\ plan.tasks[a].dur \in Nat /\ plan.tasks[a].floor \in Nat
  BY <1>1
<1>5. ASSUME NEW k \in DOMAIN plan.links
      PROVE  /\ plan.links[k].pred \in A /\ plan.links[k].succ \in A
             /\ plan.links[k].lag \in Int
             /\ plan.links[k].type \in {"FS", "SS", "FF", "SF"}
  BY <1>2
<1>6. ASSUME NEW k \in DOMAIN plan.links PROVE Off(plan, k) \in Int
  <2>1. /\ plan.tasks[plan.links[k].pred].dur \in Int
        /\ plan.tasks[plan.links[k].succ].dur \in Int
    BY <1>4, <1>5
  <2> QED BY <1>5, <2>1 DEF Off, StartBound
<1> QED BY <1>1, <1>2, <1>3, <1>4, <1>5, <1>6

\* A plan is a network.
LEMMA PlanIsAWeb ==
  ASSUME NEW plan, IsPlan(plan)
  PROVE  IsWeb(DOMAIN plan.tasks, DOMAIN plan.links, Firsts(plan), Seconds(plan),
               Floors(plan), Offs(plan))
<1>1. /\ Firsts(plan) \in [DOMAIN plan.links -> DOMAIN plan.tasks]
      /\ Seconds(plan) \in [DOMAIN plan.links -> DOMAIN plan.tasks]
  BY InPlan, Zenon DEF Firsts, Seconds
<1>2. Floors(plan) \in [DOMAIN plan.tasks -> Int] /\ Offs(plan) \in [DOMAIN plan.links -> Int]
  BY InPlan DEF Floors, Offs
<1>3. Unringed(DOMAIN plan.tasks, DOMAIN plan.links, Firsts(plan), Seconds(plan))
  <2>1. ASSUME NEW some \in SUBSET DOMAIN plan.tasks, some # {}
        PROVE  \E a \in some : \A k \in DOMAIN plan.links :
                 Seconds(plan)[k] = a => Firsts(plan)[k] \notin some
    <3>1. PICK a \in some : \A k \in Into(plan, a) : plan.links[k].pred \notin some
      BY <2>1 DEF IsPlan, NoRing
    <3> QED BY <3>1 DEF Into, Firsts, Seconds
  <2> QED BY <2>1 DEF Unringed
<1> QED BY <1>1, <1>2, <1>3, InPlan DEF IsWeb

\* A link binds a start by as many days whatever that start is.
LEMMA BoundIsOff ==
  ASSUME NEW plan, IsPlan(plan), NEW k \in DOMAIN plan.links, NEW s \in Int
  PROVE  StartBound(plan, k, s) = s + Off(plan, k) /\ LateBound(plan, k, s) = s - Off(plan, k)
<1>1. /\ plan.links[k].pred \in DOMAIN plan.tasks /\ plan.links[k].succ \in DOMAIN plan.tasks
      /\ plan.links[k].lag \in Int /\ plan.links[k].type \in {"FS", "SS", "FF", "SF"}
  BY InPlan
<1>2. /\ plan.tasks[plan.links[k].pred].dur \in Int
      /\ plan.tasks[plan.links[k].succ].dur \in Int
  BY <1>1, InPlan
<1> QED BY <1>1, <1>2 DEF StartBound, LateBound, Off

\* The early starts of a plan: they keep it, and something sets each of them.
LEMMA EarlyStartsAre ==
  ASSUME NEW plan, IsPlan(plan)
  PROVE  /\ EarlyStarts(plan) = [a \in DOMAIN plan.tasks |-> EarlyStarts(plan)[a]]
         /\ Meets(plan, EarlyStarts(plan)) /\ Tight(plan, EarlyStarts(plan))
<1> DEFINE A == DOMAIN plan.tasks
           K == DOMAIN plan.links
           F == Firsts(plan)
           S == Seconds(plan)
           G(h, a) == Granted(K, F, S, Floors(plan), Offs(plan), h, a)
           M(h, a) == Max({plan.tasks[a].floor} \cup
                          {StartBound(plan, k, h[plan.links[k].pred]) : k \in Into(plan, a)})
<1>1. IsWeb(A, K, F, S, Floors(plan), Offs(plan))
  BY PlanIsAWeb
<1>2. ASSUME NEW h, \A a \in A : h[a] \in Int
      PROVE  \A a \in A : G(h, a) = M(h, a)
  <2>1. TAKE a \in A
  <2>2. {k \in K : S[k] = a} = Into(plan, a)
    BY DEF Seconds, Into
  <2>3. \A k \in Into(plan, a) :
          StartBound(plan, k, h[plan.links[k].pred]) = h[F[k]] + Offs(plan)[k]
    <3>1. TAKE k \in Into(plan, a)
    <3>2. k \in K /\ h[plan.links[k].pred] \in Int
      BY <1>2, InPlan DEF Into
    <3>3. F[k] = plan.links[k].pred /\ Offs(plan)[k] = Off(plan, k)
      BY <3>2 DEF Firsts, Offs
    <3> QED BY <3>2, <3>3, BoundIsOff
  <2>4. {StartBound(plan, k, h[plan.links[k].pred]) : k \in Into(plan, a)}
          = {h[F[k]] + Offs(plan)[k] : k \in {k \in K : S[k] = a}}
    BY <2>2, <2>3
  <2>5. Floors(plan)[a] = plan.tasks[a].floor
    BY DEF Floors
  <2> QED BY <2>4, <2>5 DEF Granted
<1>3. \E h : h = [a \in A |-> M(h, a)]
  <2>1. PICK h : h = [a \in A |-> G(h, a)]
    BY <1>1, WebIsDated
  <2>2. \A a \in A : h[a] \in Int
    BY <1>1, <2>1, GrantedDates DEF Keeps
  <2>3. h = [a \in A |-> M(h, a)]
    <3>1. \A a \in A : G(h, a) = M(h, a)
      BY <1>2, <2>2
    <3> HIDE DEF G, M
    <3> QED BY <2>1, <3>1
  <2> QED BY <2>3
<1>4. PICK h : h = (CHOOSE f : f = [a \in A |-> M(f, a)])
  OBVIOUS
<1>5. h = [a \in A |-> M(h, a)]
  <2> HIDE DEF M
  <2> QED BY <1>3, <1>4, Zenon
<1>6. EarlyStarts(plan) = h
  <2>1. EarlyStarts(plan) = [a \in A |-> h[a]]
    BY <1>4 DEF EarlyStarts
  <2>2. h = [a \in A |-> h[a]]
    <3> HIDE DEF M
    <3> QED BY <1>5
  <2> QED BY <2>1, <2>2
<1>7. \A a \in A : h[a] \in Int
  <2> DEFINE bad == {a \in A : h[a] \notin Int}
  <2>1. SUFFICES ASSUME bad # {} PROVE FALSE
    OBVIOUS
  <2>2. PICK a \in bad : \A k \in K : S[k] = a => F[k] \notin bad
    <3>1. bad \in SUBSET A
      OBVIOUS
    <3> HIDE DEF bad
    <3> QED BY <1>1, <2>1, <3>1 DEF IsWeb, Unringed
  <2>3. a \in A /\ h[a] \notin Int
    OBVIOUS
  <2>4. \A k \in Into(plan, a) : plan.links[k].pred \in A /\ h[plan.links[k].pred] \in Int
    <3>1. TAKE k \in Into(plan, a)
    <3>2. k \in K /\ plan.links[k].pred \in A /\ S[k] = a /\ F[k] = plan.links[k].pred
      BY InPlan DEF Into, Firsts, Seconds
    <3> QED BY <2>2, <3>2
  <2> DEFINE g == [x \in A |-> IF h[x] \in Int THEN h[x] ELSE 0]
  <2>5. \A x \in A : g[x] \in Int
    OBVIOUS
  <2>6. \A k \in Into(plan, a) : g[plan.links[k].pred] = h[plan.links[k].pred]
    BY <2>4
  <2> HIDE DEF g
  <2>7. M(g, a) = M(h, a)
    <3>1. {StartBound(plan, k, g[plan.links[k].pred]) : k \in Into(plan, a)}
            = {StartBound(plan, k, h[plan.links[k].pred]) : k \in Into(plan, a)}
      BY <2>6
    <3> QED BY <3>1
  <2>8. G(g, a) = M(g, a)
    BY <1>2, <2>3, <2>5
  <2>9. G(g, a) \in Int
    <3>1. \A k \in K : S[k] = a => g[F[k]] \in Int
      BY <2>5, InPlan DEF Firsts
    <3> QED BY <1>1, <2>3, <3>1, GrantedIs
  <2>10. h[a] = M(h, a)
    <3> HIDE DEF M, bad
    <3> QED BY <1>5, <2>3
  <2> QED BY <2>3, <2>7, <2>8, <2>9, <2>10
<1>8. h = [a \in A |-> G(h, a)]
  <2>1. \A a \in A : G(h, a) = M(h, a)
    BY <1>2, <1>7
  <2> HIDE DEF G, M
  <2> QED BY <1>5, <2>1
<1>9. Keeps(A, K, F, S, Floors(plan), Offs(plan), h) /\ IsSet(A, K, F, S, Floors(plan), Offs(plan), h)
  BY <1>1, <1>8, GrantedDates
<1>10. /\ \A k \in K : F[k] = plan.links[k].pred /\ S[k] = plan.links[k].succ
                       /\ Offs(plan)[k] = Off(plan, k)
       /\ \A a \in A : Floors(plan)[a] = plan.tasks[a].floor
  BY DEF Firsts, Seconds, Offs, Floors
<1>11. Meets(plan, h)
  BY <1>9, <1>10 DEF Keeps, Meets
<1>12. Tight(plan, h)
  BY <1>9, <1>10 DEF IsSet, Tight
<1>13. h = [a \in A |-> h[a]]
  <2> HIDE DEF M, G
  <2> QED BY <1>5
<1> QED BY <1>6, <1>11, <1>12, <1>13

\* Starts that something sets are no later than any that keep the plan.
LEMMA TightIsLeast ==
  ASSUME NEW plan, IsPlan(plan), NEW h, \A a \in DOMAIN plan.tasks : h[a] \in Int,
         Tight(plan, h), NEW g, Meets(plan, g)
  PROVE  \A a \in DOMAIN plan.tasks : h[a] <= g[a]
<1> DEFINE A == DOMAIN plan.tasks
           K == DOMAIN plan.links
<1>1. /\ \A k \in K : Firsts(plan)[k] = plan.links[k].pred /\ Seconds(plan)[k] = plan.links[k].succ
                      /\ Offs(plan)[k] = Off(plan, k)
      /\ \A a \in A : Floors(plan)[a] = plan.tasks[a].floor
  BY DEF Firsts, Seconds, Offs, Floors
<1>2. IsSet(A, K, Firsts(plan), Seconds(plan), Floors(plan), Offs(plan), h)
  BY <1>1 DEF Tight, IsSet
<1>3. Keeps(A, K, Firsts(plan), Seconds(plan), Floors(plan), Offs(plan), g)
  BY <1>1 DEF Meets, Keeps
<1>4. IsWeb(A, K, Firsts(plan), Seconds(plan), Floors(plan), Offs(plan))
  BY PlanIsAWeb
<1> QED BY <1>2, <1>3, <1>4, SetIsLeast

\* A plan ends when the last of its work does.
LEMMA EndIs ==
  ASSUME NEW plan, IsPlan(plan), NEW h, \A a \in DOMAIN plan.tasks : h[a] \in Int
  PROVE  /\ ProjectEnd(plan, h) \in Int
         /\ \A a \in DOMAIN plan.tasks : h[a] + plan.tasks[a].dur <= ProjectEnd(plan, h)
         /\ \E a \in DOMAIN plan.tasks : h[a] + plan.tasks[a].dur = ProjectEnd(plan, h)
<1> DEFINE A == DOMAIN plan.tasks
           f == [a \in A |-> h[a] + plan.tasks[a].dur]
           X == {f[a] : a \in A}
<1>1. \A a \in A : plan.tasks[a].dur \in Int
  BY InPlan
<1>2. IsFiniteSet(A) /\ A # {}
  BY InPlan
<1>3. IsFiniteSet(X)
  <2>1. DOMAIN f = A
    OBVIOUS
  <2> HIDE DEF f
  <2> QED BY <1>2, <2>1, FinitelyMany
<1>4. \A a \in A : f[a] = h[a] + plan.tasks[a].dur /\ f[a] \in Int
  BY <1>1
<1>5. ProjectEnd(plan, h) = Max(X)
  <2>1. X = {h[a] + plan.tasks[a].dur : a \in DOMAIN plan.tasks}
    OBVIOUS
  <2> HIDE DEF X
  <2> QED BY <2>1 DEF ProjectEnd
<1> HIDE DEF f
<1>6. X \in SUBSET Int /\ X # {} /\ \A x : x \in X <=> \E a \in A : x = f[a]
  BY <1>2, <1>4
<1> HIDE DEF X
<1>7. Max(X) \in X /\ \A x \in X : x <= Max(X)
  BY <1>3, <1>6, MaxIs
<1>8. Max(X) \in Int
  BY <1>6, <1>7
<1>9. \A a \in A : f[a] <= Max(X)
  BY <1>6, <1>7
<1>10. \E a \in A : f[a] = Max(X)
  BY <1>6, <1>7
<1> QED BY <1>4, <1>5, <1>8, <1>9, <1>10

\* The finish of a plan is that of its early starts.
LEMMA FinishIs ==
  ASSUME NEW plan, IsPlan(plan)
  PROVE  /\ FinishDay(plan) \in Int
         /\ \A a \in DOMAIN plan.tasks : EarlyStarts(plan)[a] + plan.tasks[a].dur <= FinishDay(plan)
         /\ \E a \in DOMAIN plan.tasks : EarlyStarts(plan)[a] + plan.tasks[a].dur = FinishDay(plan)
<1>1. \A a \in DOMAIN plan.tasks : EarlyStarts(plan)[a] \in Int
  BY EarlyStartsAre DEF Meets
<1> QED BY <1>1, EndIs DEF FinishDay

\* No plan finishes later than starts that keep it do.
LEMMA FinishesBy ==
  ASSUME NEW plan, IsPlan(plan), NEW g, Meets(plan, g),
         NEW m \in Int, \A a \in DOMAIN plan.tasks : g[a] + plan.tasks[a].dur <= m
  PROVE  FinishDay(plan) <= m
<1>1. /\ \A a \in DOMAIN plan.tasks : EarlyStarts(plan)[a] \in Int
      /\ Tight(plan, EarlyStarts(plan))
  BY EarlyStartsAre DEF Meets
<1>2. \A a \in DOMAIN plan.tasks : EarlyStarts(plan)[a] <= g[a]
  BY <1>1, TightIsLeast
<1>3. PICK a \in DOMAIN plan.tasks : EarlyStarts(plan)[a] + plan.tasks[a].dur = FinishDay(plan)
  BY FinishIs
<1>4. /\ EarlyStarts(plan)[a] \in Int /\ plan.tasks[a].dur \in Int /\ g[a] \in Int
      /\ EarlyStarts(plan)[a] <= g[a] /\ g[a] + plan.tasks[a].dur <= m
  BY <1>1, <1>2, InPlan DEF Meets
<1> QED BY <1>3, <1>4

\* The work of a plan has ranks.
LEMMA PlanRanked ==
  ASSUME NEW plan, IsPlan(plan)
  PROVE  \E r : /\ \A a \in DOMAIN plan.tasks : r[a] \in Int
                /\ \A k \in DOMAIN plan.links : r[plan.links[k].pred] < r[plan.links[k].succ]
<1>1. PICK r : /\ \A a \in DOMAIN plan.tasks : r[a] \in Int
               /\ \A k \in DOMAIN plan.links : r[Firsts(plan)[k]] < r[Seconds(plan)[k]]
  BY PlanIsAWeb, Ranked
<1> QED BY <1>1 DEF Firsts, Seconds

\* The starts h leave room until the end for all that follows.
LateMeets(plan, end, h) ==
  /\ \A a \in DOMAIN plan.tasks : h[a] \in Int /\ h[a] + plan.tasks[a].dur <= end
  /\ \A k \in DOMAIN plan.links : h[plan.links[k].pred] + Off(plan, k) <= h[plan.links[k].succ]

LateTight(plan, end, h) ==
  \A a \in DOMAIN plan.tasks :
    \/ h[a] + plan.tasks[a].dur = end
    \/ \E k \in DOMAIN plan.links : /\ plan.links[k].pred = a
                                    /\ h[a] + Off(plan, k) = h[plan.links[k].succ]

\* The least of numbers is the greatest of their opposites.
LEMMA MinIsMax ==
  ASSUME NEW X \in SUBSET Int, NEW Y, \A y : y \in Y <=> \E x \in X : y = 0 - x,
         NEW m \in X, \A x \in X : x <= m
  PROVE  Min(Y) = 0 - m
<1>1. \E x \in Y : \A y \in Y : x =< y
  <2>1. 0 - m \in Y
    OBVIOUS
  <2> QED BY <2>1
<1>2. Min(Y) \in Y /\ \A y \in Y : Min(Y) =< y
  BY <1>1, Zenon DEF Min
<1>3. PICK x \in X : Min(Y) = 0 - x
  BY <1>2
<1>4. 0 - m \in Y /\ Min(Y) <= 0 - m
  BY <1>2
<1> QED BY <1>3, <1>4

\* The late starts of a plan: they leave room for all that follows, and something
\* holds each of them.
LEMMA LateStartsAre ==
  ASSUME NEW plan, IsPlan(plan), NEW end \in Int
  PROVE  LateMeets(plan, end, LateStarts(plan, end)) /\ LateTight(plan, end, LateStarts(plan, end))
<1> DEFINE A == DOMAIN plan.tasks
           K == DOMAIN plan.links
           F == Seconds(plan)
           S == Firsts(plan)
           D == [a \in A |-> plan.tasks[a].dur - end]
           G(h, a) == Granted(K, F, S, D, Offs(plan), h, a)
           M(h, a) == Min({end - plan.tasks[a].dur} \cup
                          {LateBound(plan, k, h[plan.links[k].succ]) : k \in OutOf(plan, a)})
           Neg(h) == [a \in A |-> 0 - h[a]]
<1>0. \A a \in A : plan.tasks[a].dur \in Int /\ D[a] = plan.tasks[a].dur - end /\ D[a] \in Int
  BY InPlan
<1>1. IsWeb(A, K, F, S, D, Offs(plan))
  <2>1. IsWeb(A, K, S, F, Floors(plan), Offs(plan))
    BY PlanIsAWeb
  <2>2. Unringed(A, K, F, S)
    BY <2>1, Backwards
  <2>3. D \in [A -> Int]
    BY <1>0
  <2> HIDE DEF D
  <2> QED BY <2>1, <2>2, <2>3 DEF IsWeb
<1> HIDE DEF D
<1>2. ASSUME NEW h, NEW a \in A, \A k \in OutOf(plan, a) : h[plan.links[k].succ] \in Int
      PROVE  M(h, a) = 0 - G(Neg(h), a) /\ G(Neg(h), a) \in Int
  <2> DEFINE X == {D[a]} \cup {Neg(h)[F[k]] + Offs(plan)[k] : k \in {k \in K : S[k] = a}}
             Y == {end - plan.tasks[a].dur} \cup
                  {LateBound(plan, k, h[plan.links[k].succ]) : k \in OutOf(plan, a)}
  <2>1. \A k \in K : k \in OutOf(plan, a) <=> S[k] = a
    BY DEF OutOf, Firsts
  <2>2. ASSUME NEW k \in K, S[k] = a
        PROVE  /\ F[k] \in A /\ Neg(h)[F[k]] \in Int
               /\ Neg(h)[F[k]] + Offs(plan)[k] \in Int
               /\ LateBound(plan, k, h[plan.links[k].succ]) = 0 - (Neg(h)[F[k]] + Offs(plan)[k])
    <3>1. plan.links[k].succ \in A /\ Off(plan, k) \in Int
      BY InPlan
    <3>2. h[plan.links[k].succ] \in Int /\ F[k] = plan.links[k].succ /\ Offs(plan)[k] = Off(plan, k)
      BY <1>2, <2>1, <2>2 DEF Seconds, Offs
    <3>3. LateBound(plan, k, h[plan.links[k].succ]) = h[plan.links[k].succ] - Off(plan, k)
      BY <3>2, BoundIsOff
    <3>4. Neg(h)[F[k]] = 0 - h[plan.links[k].succ]
      BY <3>1, <3>2
    <3> HIDE DEF Neg
    <3> QED BY <3>1, <3>2, <3>3, <3>4
  <2>3. /\ G(Neg(h), a) \in Int
        /\ G(Neg(h), a) \in X
        /\ \A x \in X : x <= G(Neg(h), a)
    <3>1. \A k \in K : S[k] = a => Neg(h)[F[k]] \in Int
      BY <2>2
    <3> HIDE DEF Neg
    <3> DEFINE g == G(Neg(h), a)
    <3>2. /\ g \in Int /\ D[a] <= g
          /\ \A k \in K : S[k] = a => Neg(h)[F[k]] + Offs(plan)[k] <= g
          /\ g = D[a] \/ \E k \in K : S[k] = a /\ g = Neg(h)[F[k]] + Offs(plan)[k]
      BY <1>1, <3>1, GrantedIs
    <3> HIDE DEF g
    <3> QED BY <3>2 DEF g
  <2>4. X \in SUBSET Int
    BY <1>0, <2>2
  <2>5. \A y : y \in Y <=> \E x \in X : y = 0 - x
    <3>1. end - plan.tasks[a].dur = 0 - D[a]
      BY <1>0
    <3>2. \A y \in Y : \E x \in X : y = 0 - x
      BY <2>1, <2>2, <3>1 DEF OutOf
    <3>3. \A x \in X : 0 - x \in Y
      BY <2>1, <2>2, <3>1
    <3> HIDE DEF X, Y
    <3> QED BY <3>2, <3>3
  <2>6. M(h, a) = Min(Y)
    OBVIOUS
  <2> HIDE DEF X, Y, Neg, G, M
  <2> QED BY <2>3, <2>4, <2>5, <2>6, MinIsMax
<1>3. ASSUME NEW h, \A a \in A : h[a] = M(h, a) PROVE \A a \in A : h[a] \in Int
  <2> DEFINE bad == {a \in A : h[a] \notin Int}
  <2>1. SUFFICES ASSUME bad # {} PROVE FALSE
    OBVIOUS
  <2>2. PICK a \in bad : \A k \in K : S[k] = a => F[k] \notin bad
    <3>1. bad \in SUBSET A
      OBVIOUS
    <3> HIDE DEF bad
    <3> QED BY <1>1, <2>1, <3>1 DEF IsWeb, Unringed
  <2>3. a \in A /\ h[a] \notin Int
    OBVIOUS
  <2>4. \A k \in OutOf(plan, a) : h[plan.links[k].succ] \in Int
    <3>1. TAKE k \in OutOf(plan, a)
    <3>2. k \in K /\ plan.links[k].succ \in A /\ S[k] = a /\ F[k] = plan.links[k].succ
      BY InPlan DEF OutOf, Firsts, Seconds
    <3> QED BY <2>2, <3>2
  <2> HIDE DEF M, G, Neg, bad
  <2>5. M(h, a) \in Int
    BY <1>2, <2>3, <2>4
  <2> QED BY <1>3, <2>3, <2>5
<1>4. \E h : h = [a \in A |-> M(h, a)]
  <2>1. PICK g : g = [a \in A |-> G(g, a)]
    BY <1>1, WebIsDated
  <2>2. \A a \in A : g[a] \in Int
    BY <1>1, <2>1, GrantedDates DEF Keeps
  <2>3. \A a \in A : Neg(g)[a] = 0 - g[a]
    OBVIOUS
  <2>4. Neg(Neg(g)) = g
    <3>1. g = [a \in A |-> g[a]]
      <4> HIDE DEF G
      <4> QED BY <2>1
    <3>2. \A a \in A : 0 - (0 - g[a]) = g[a]
      BY <2>2
    <3>3. Neg(Neg(g)) = [a \in A |-> 0 - (0 - g[a])]
      OBVIOUS
    <3> HIDE DEF Neg
    <3> QED BY <3>1, <3>2, <3>3
  <2>5. ASSUME NEW a \in A PROVE M(Neg(g), a) = Neg(g)[a]
    <3>1. \A k \in OutOf(plan, a) : Neg(g)[plan.links[k].succ] \in Int
      BY <2>2, <2>3, InPlan DEF OutOf
    <3>2. M(Neg(g), a) = 0 - G(Neg(Neg(g)), a)
      <4> HIDE DEF M, G, Neg
      <4> QED BY <1>2, <3>1
    <3>3. g[a] = G(g, a)
      <4> HIDE DEF G
      <4> QED BY <2>1
    <3> HIDE DEF M, G, Neg
    <3> QED BY <2>3, <2>4, <3>2, <3>3
  <2>6. Neg(g) = [a \in A |-> M(Neg(g), a)]
    <3>1. Neg(g) = [a \in A |-> Neg(g)[a]]
      OBVIOUS
    <3> HIDE DEF M, Neg
    <3> QED BY <2>5, <3>1
  <2> QED BY <2>6
<1>5. PICK h : h = (CHOOSE f : f = [a \in A |-> M(f, a)])
  OBVIOUS
<1>6. h = [a \in A |-> M(h, a)]
  <2> HIDE DEF M
  <2> QED BY <1>4, <1>5, Zenon
<1>7. \A a \in A : h[a] = M(h, a)
  <2> HIDE DEF M
  <2> QED BY <1>6
<1>8. \A a \in A : h[a] \in Int
  <2> HIDE DEF M
  <2> QED BY <1>3, <1>7
<1>9. LateStarts(plan, end) = h
  <2>1. LateStarts(plan, end) = [a \in A |-> h[a]]
    BY <1>5 DEF LateStarts
  <2>2. h = [a \in A |-> h[a]]
    <3> HIDE DEF M
    <3> QED BY <1>6
  <2> QED BY <2>1, <2>2
<1>10. \A a \in A : Neg(h)[a] = 0 - h[a]
  OBVIOUS
<1>11. Neg(h) = [a \in A |-> G(Neg(h), a)]
  <2>1. ASSUME NEW a \in A PROVE Neg(h)[a] = G(Neg(h), a)
    <3>1. \A k \in OutOf(plan, a) : h[plan.links[k].succ] \in Int
      BY <1>8, InPlan DEF OutOf
    <3>2. h[a] = 0 - G(Neg(h), a) /\ G(Neg(h), a) \in Int
      <4> HIDE DEF M, G, Neg
      <4> QED BY <1>2, <1>7, <3>1
    <3> HIDE DEF M, G, Neg
    <3> QED BY <1>10, <3>2
  <2>2. Neg(h) = [a \in A |-> Neg(h)[a]]
    OBVIOUS
  <2> HIDE DEF G, Neg
  <2> QED BY <2>1, <2>2
<1> HIDE DEF M, Neg
<1>12. Keeps(A, K, F, S, D, Offs(plan), Neg(h)) /\ IsSet(A, K, F, S, D, Offs(plan), Neg(h))
  BY <1>1, <1>11, GrantedDates
<1> HIDE DEF G
<1>13. ASSUME NEW k \in K
       PROVE  /\ F[k] = plan.links[k].succ /\ S[k] = plan.links[k].pred
              /\ Offs(plan)[k] = Off(plan, k) /\ Off(plan, k) \in Int
              /\ plan.links[k].succ \in A /\ plan.links[k].pred \in A
  BY InPlan DEF Firsts, Seconds, Offs
<1>14. LateMeets(plan, end, h)
  <2>1. ASSUME NEW a \in A PROVE h[a] \in Int /\ h[a] + plan.tasks[a].dur <= end
    <3>1. D[a] <= Neg(h)[a]
      BY <1>12 DEF Keeps
    <3> QED BY <1>0, <1>8, <1>10, <3>1
  <2>2. ASSUME NEW k \in K
        PROVE  h[plan.links[k].pred] + Off(plan, k) <= h[plan.links[k].succ]
    <3>1. Neg(h)[F[k]] + Offs(plan)[k] <= Neg(h)[S[k]]
      BY <1>12 DEF Keeps
    <3>2. (0 - h[plan.links[k].succ]) + Off(plan, k) <= 0 - h[plan.links[k].pred]
      BY <1>10, <1>13, <3>1
    <3>3. h[plan.links[k].succ] \in Int /\ h[plan.links[k].pred] \in Int /\ Off(plan, k) \in Int
      BY <1>8, <1>13
    <3> QED BY <3>2, <3>3
  <2> QED BY <2>1, <2>2 DEF LateMeets
<1>15. LateTight(plan, end, h)
  <2>1. ASSUME NEW a \in A
        PROVE  \/ h[a] + plan.tasks[a].dur = end
               \/ \E k \in K : /\ plan.links[k].pred = a
                               /\ h[a] + Off(plan, k) = h[plan.links[k].succ]
    <3>1. CASE Neg(h)[a] = D[a]
      BY <1>0, <1>8, <1>10, <3>1
    <3>2. CASE \E k \in K : S[k] = a /\ Neg(h)[a] = Neg(h)[F[k]] + Offs(plan)[k]
      <4>1. PICK k \in K : S[k] = a /\ Neg(h)[a] = Neg(h)[F[k]] + Offs(plan)[k]
        BY <3>2
      <4>2. 0 - h[a] = (0 - h[plan.links[k].succ]) + Off(plan, k)
        BY <1>10, <1>13, <4>1
      <4>3. h[plan.links[k].succ] \in Int /\ h[a] \in Int /\ Off(plan, k) \in Int
        BY <1>8, <1>13
      <4>4. h[a] + Off(plan, k) = h[plan.links[k].succ]
        BY <4>2, <4>3
      <4> QED BY <1>13, <4>1, <4>4
    <3> QED BY <1>12, <3>1, <3>2 DEF IsSet
  <2> QED BY <2>1 DEF LateTight
<1> QED BY <1>9, <1>14, <1>15

\* Starts that keep the links are as much later than the late ones, at most, as
\* they make the plan finish later.
LEMMA LateIsLatest ==
  ASSUME NEW plan, IsPlan(plan), NEW end \in Int, NEW fin \in Int,
         NEW h, \A a \in DOMAIN plan.tasks : h[a] \in Int /\ h[a] + plan.tasks[a].dur <= fin,
         \A k \in DOMAIN plan.links :
           h[plan.links[k].pred] + Off(plan, k) <= h[plan.links[k].succ]
  PROVE  \A a \in DOMAIN plan.tasks : h[a] - LateStarts(plan, end)[a] <= fin - end
<1> DEFINE A == DOMAIN plan.tasks
           K == DOMAIN plan.links
           some == {a \in A : ~(h[a] - LateStarts(plan, end)[a] <= fin - end)}
<1>1. PICK late : late = LateStarts(plan, end)
  OBVIOUS
<1>2. LateMeets(plan, end, late) /\ LateTight(plan, end, late)
  BY <1>1, LateStartsAre
<1>3. \A a \in A : late[a] \in Int /\ plan.tasks[a].dur \in Int
  BY <1>2, InPlan DEF LateMeets
<1>4. SUFFICES ASSUME some # {} PROVE FALSE
  OBVIOUS
<1>5. PICK a \in some : \A k \in K : plan.links[k].pred = a => plan.links[k].succ \notin some
  <2>1. IsWeb(A, K, Firsts(plan), Seconds(plan), Floors(plan), Offs(plan))
    BY PlanIsAWeb
  <2>2. Unringed(A, K, Seconds(plan), Firsts(plan))
    BY <2>1, Backwards
  <2>3. some \in SUBSET A
    OBVIOUS
  <2> HIDE DEF some
  <2>4. PICK a \in some : \A k \in K : Firsts(plan)[k] = a => Seconds(plan)[k] \notin some
    BY <1>4, <2>2, <2>3 DEF Unringed
  <2> QED BY <2>4 DEF Firsts, Seconds
<1>6. a \in A /\ ~(h[a] - late[a] <= fin - end)
  BY <1>1
<1>7. PICK k \in K : plan.links[k].pred = a /\ late[a] + Off(plan, k) = late[plan.links[k].succ]
  <2>1. late[a] + plan.tasks[a].dur # end
    BY <1>3, <1>6
  <2> QED BY <1>2, <1>6, <2>1 DEF LateTight
<1>8. plan.links[k].succ \in A /\ Off(plan, k) \in Int
  BY InPlan
<1>9. h[plan.links[k].succ] - late[plan.links[k].succ] <= fin - end
  BY <1>1, <1>5, <1>7, <1>8
<1>10. /\ h[a] \in Int /\ late[a] \in Int /\ h[plan.links[k].succ] \in Int
       /\ late[plan.links[k].succ] \in Int /\ h[a] + Off(plan, k) <= h[plan.links[k].succ]
  BY <1>3, <1>6, <1>7, <1>8
<1> QED BY <1>6, <1>7, <1>8, <1>9, <1>10

-----------------------------------------------------------------------------
\* Lists of links.

\* One list of several has the members of each, and no others.
LEMMA FlattenHas ==
  ASSUME NEW X, NEW s \in Seq(Seq(X)), NEW flat, flat = FlattenSeq(s)
  PROVE  /\ flat \in Seq(X)
         /\ \A m \in DOMAIN flat : \E i \in DOMAIN s : \E j \in DOMAIN s[i] : flat[m] = s[i][j]
         /\ \A i \in DOMAIN s : \A j \in DOMAIN s[i] : \E m \in DOMAIN flat : flat[m] = s[i][j]
<1> DEFINE N == Len(s)
           U(f, i) == IF i = 1 THEN s[i] ELSE f[i - 1] \o s[i]
<1>0. N \in Nat /\ DOMAIN s = 1..N /\ \A i \in 1..N : s[i] \in Seq(X)
  OBVIOUS
<1>1. CASE N = 0
  <2>1. s = <<>>
    BY <1>1
  <2>2. FlattenSeq(s) = s
    BY <1>1 DEF FlattenSeq
  <2>3. DOMAIN s = {} /\ DOMAIN flat = {} /\ flat \in Seq(X)
    BY <1>0, <1>1, <2>2, <2>1
  <2> QED BY <2>2, <2>3
<1>2. CASE N # 0
  <2>1. \E f : f = [i \in 1..N |-> U(f, i)]
    <3> DEFINE bad == {n \in 1..N : ~\E f : f = [i \in 1..n |-> U(f, i)]}
    <3>0. N \in 1..N
      BY <1>0, <1>2
    <3>1. SUFFICES ASSUME bad # {} PROVE FALSE
      <4> HIDE DEF U, N
      <4> QED BY <3>0
    <3>2. PICK n \in bad : \A y \in bad : n <= y
      <4>0. 1 \in Int /\ N \in Int /\ 1..N \subseteq Int
        BY <1>0
      <4>1. bad \in SUBSET Int /\ IsFiniteSet(1..N) /\ bad \in SUBSET (1..N)
        <5> HIDE DEF U, N
        <5> QED BY <4>0, FS_Interval
      <4> HIDE DEF bad
      <4>2. IsFiniteSet(bad)
        BY <4>1, FS_Subset
      <4> QED BY <3>1, <4>1, <4>2, HasLeast
    <3>3. n \in 1..N /\ ~\E f : f = [i \in 1..n |-> U(f, i)]
      OBVIOUS
    <3>4. n # 1
      <4>1. PICK f : f = [i \in 1..1 |-> s[i]]
        OBVIOUS
      <4>2. f = [i \in 1..1 |-> U(f, i)]
        BY <4>1
      <4> HIDE DEF U
      <4> QED BY <3>3, <4>2
    <3>5. n - 1 \in 1..N /\ n - 1 \notin bad
      <4>1. n - 1 \in 1..N /\ ~(n <= n - 1)
        BY <1>0, <3>3, <3>4
      <4> HIDE DEF bad
      <4> QED BY <3>2, <4>1
    <3>6. PICK f : f = [i \in 1..(n - 1) |-> U(f, i)]
      BY <3>5
    <3> DEFINE g == [i \in 1..n |-> IF i = n THEN f[n - 1] \o s[n] ELSE f[i]]
    <3>7. \A i \in 1..n : g[i] = U(g, i)
      <4>1. TAKE i \in 1..n
      <4>2. CASE i = n
        <5>1. n - 1 \in 1..n /\ n - 1 # n /\ n \in 1..n
          BY <3>3, <3>4
        <5>2. g[n - 1] = f[n - 1] /\ g[n] = f[n - 1] \o s[n]
          BY <5>1
        <5> HIDE DEF g
        <5> QED BY <3>4, <4>2, <5>2
      <4>3. CASE i # n
        <5>1. i \in 1..(n - 1) /\ g[i] = f[i]
          BY <3>3, <4>3
        <5>2. f[i] = U(f, i)
          BY <3>6, <5>1
        <5>3. CASE i = 1
          BY <5>1, <5>2, <5>3
        <5>4. CASE i # 1
          <6>1. i - 1 \in 1..n /\ i - 1 # n
            BY <3>3, <5>1, <5>4
          <6>2. g[i - 1] = f[i - 1]
            BY <6>1
          <6> HIDE DEF g
          <6> QED BY <5>1, <5>2, <5>4, <6>2
        <5> QED BY <5>3, <5>4
      <4> QED BY <4>2, <4>3
    <3>8. g = [i \in 1..n |-> U(g, i)]
      <4>1. g = [i \in 1..n |-> g[i]]
        OBVIOUS
      <4> HIDE DEF g
      <4> QED BY <3>7, <4>1
    <3> HIDE DEF U, g
    <3> QED BY <3>3, <3>8
  <2>2. PICK f : f = (CHOOSE g : g = [i \in 1..N |-> U(g, i)])
    OBVIOUS
  <2>3. f = [i \in 1..N |-> U(f, i)]
    <3> HIDE DEF U
    <3> QED BY <2>1, <2>2, Zenon
  <2>4. FlattenSeq(s) = f[N]
    BY <1>2, <2>2 DEF FlattenSeq
  <2>5. \A i \in 1..N : f[i] = U(f, i)
    <3> HIDE DEF U
    <3> QED BY <2>3
  <2> DEFINE Good(n) ==
               /\ f[n] \in Seq(X)
               /\ \A m \in DOMAIN f[n] :
                    \E i \in 1..n : \E j \in DOMAIN s[i] : f[n][m] = s[i][j]
               /\ \A i \in 1..n : \A j \in DOMAIN s[i] :
                    \E m \in DOMAIN f[n] : f[n][m] = s[i][j]
             bad == {n \in 1..N : ~Good(n)}
  <2>6. bad = {}
    <3>1. SUFFICES ASSUME bad # {} PROVE FALSE
      OBVIOUS
    <3>2. PICK n \in bad : \A y \in bad : n <= y
      <4>1. bad \in SUBSET Int /\ IsFiniteSet(1..N) /\ bad \in SUBSET (1..N)
        BY <1>0, FS_Interval
      <4> HIDE DEF bad
      <4>2. IsFiniteSet(bad)
        BY <4>1, FS_Subset
      <4> QED BY <3>1, <4>1, <4>2, HasLeast
    <3>3. n \in 1..N /\ ~Good(n)
      OBVIOUS
    <3>4. n # 1
      <4>1. f[1] = s[1] /\ s[1] \in Seq(X)
        BY <1>0, <1>2, <2>5
      <4>2. Good(1)
        BY <4>1
      <4> HIDE DEF Good
      <4> QED BY <3>3, <4>2
    <3>5. n - 1 \in 1..N /\ Good(n - 1)
      <4>1. n - 1 \in 1..N /\ ~(n <= n - 1)
        BY <1>0, <3>3, <3>4
      <4>2. n - 1 \notin bad
        <5> HIDE DEF bad
        <5> QED BY <3>2, <4>1
      <4> QED BY <4>1, <4>2
    <3>6. PICK p, q : p = f[n - 1] /\ q = s[n]
      OBVIOUS
    <3>7. f[n] = p \o q /\ p \in Seq(X) /\ q \in Seq(X)
      BY <1>0, <2>5, <3>3, <3>4, <3>5, <3>6
    <3>8. /\ f[n] \in Seq(X) /\ Len(f[n]) = Len(p) + Len(q)
          /\ Len(p) \in Nat /\ Len(q) \in Nat
          /\ DOMAIN f[n] = 1..(Len(p) + Len(q)) /\ DOMAIN p = 1..Len(p) /\ DOMAIN q = 1..Len(q)
      BY <3>7
    <3>9. /\ \A m \in 1..Len(p) : f[n][m] = p[m]
          /\ \A m \in 1..Len(q) : f[n][Len(p) + m] = q[m]
      BY <3>7
    <3>10. ASSUME NEW m \in DOMAIN f[n]
           PROVE  \E i \in 1..n : \E j \in DOMAIN s[i] : f[n][m] = s[i][j]
      <4>1. CASE m \in 1..Len(p)
        <5>1. m \in DOMAIN f[n - 1] /\ f[n][m] = f[n - 1][m]
          BY <3>6, <3>8, <3>9, <4>1
        <5>2. PICK i \in 1..(n - 1) : \E j \in DOMAIN s[i] : f[n - 1][m] = s[i][j]
          BY <3>5, <5>1
        <5>3. i \in 1..n
          BY <3>3
        <5> QED BY <5>1, <5>2, <5>3
      <4>2. CASE m \notin 1..Len(p)
        <5>1. m - Len(p) \in DOMAIN q /\ m = Len(p) + (m - Len(p))
          BY <3>8, <4>2
        <5>2. f[n][m] = q[m - Len(p)]
          BY <3>8, <3>9, <5>1
        <5>3. n \in 1..n
          BY <3>3
        <5> QED BY <3>6, <5>1, <5>2, <5>3
      <4> QED BY <4>1, <4>2
    <3>11. ASSUME NEW i \in 1..n, NEW j \in DOMAIN s[i]
           PROVE  \E m \in DOMAIN f[n] : f[n][m] = s[i][j]
      <4>1. CASE i = n
        <5>1. j \in 1..Len(q)
          BY <3>6, <3>8, <4>1
        <5>2. f[n][Len(p) + j] = q[j]
          BY <3>9, <5>1
        <5>3. Len(p) + j \in DOMAIN f[n]
          <6>1. Len(p) \in Nat /\ Len(q) \in Nat /\ DOMAIN f[n] = 1..(Len(p) + Len(q))
            BY <3>8
          <6> QED BY <5>1, <6>1
        <5> QED BY <3>6, <4>1, <5>2, <5>3
      <4>2. CASE i # n
        <5>1. i \in 1..(n - 1)
          BY <3>3, <4>2
        <5>2. PICK m \in DOMAIN f[n - 1] : f[n - 1][m] = s[i][j]
          BY <3>5, <5>1
        <5>3. m \in 1..Len(p)
          BY <3>6, <3>8, <5>2
        <5>4. f[n][m] = p[m]
          BY <3>9, <5>3
        <5>5. m \in DOMAIN f[n]
          <6>1. Len(p) \in Nat /\ Len(q) \in Nat /\ DOMAIN f[n] = 1..(Len(p) + Len(q))
            BY <3>8
          <6> QED BY <5>3, <6>1
        <5> QED BY <3>6, <5>2, <5>4, <5>5
      <4> QED BY <4>1, <4>2
    <3>12. Good(n)
      BY <3>8, <3>10, <3>11
    <3> HIDE DEF Good
    <3> QED BY <3>3, <3>12
  <2>7. N \in 1..N
    BY <1>0, <1>2
  <2>8. Good(N)
    <3> HIDE DEF Good
    <3> QED BY <2>6, <2>7
  <2> HIDE DEF bad
  <2>9. flat = f[N]
    BY <2>4
  <2>10. /\ flat \in Seq(X)
         /\ \A m \in DOMAIN flat : \E i \in 1..N : \E j \in DOMAIN s[i] : flat[m] = s[i][j]
         /\ \A i \in 1..N : \A j \in DOMAIN s[i] : \E m \in DOMAIN flat : flat[m] = s[i][j]
    <3> HIDE DEF N
    <3> QED BY <2>8, <2>9
  <2>11. DOMAIN s = 1..N
    BY <1>0
  <2> HIDE DEF N
  <2>12. ASSUME NEW m \in DOMAIN flat
         PROVE  \E i \in DOMAIN s : \E j \in DOMAIN s[i] : flat[m] = s[i][j]
    <3>1. PICK i \in 1..N : \E j \in DOMAIN s[i] : flat[m] = s[i][j]
      BY <2>10
    <3> QED BY <2>11, <3>1
  <2>13. \A i \in DOMAIN s : \A j \in DOMAIN s[i] : \E m \in DOMAIN flat : flat[m] = s[i][j]
    BY <2>10, <2>11, Zenon
  <2>14. flat \in Seq(X)
    BY <2>10
  <2> QED BY <2>12, <2>13, <2>14
<1> QED BY <1>1, <1>2

-----------------------------------------------------------------------------
\* What is asked and what is answered.

Outs(updates) ==
  [i \in DOMAIN updates |-> [date |-> updates[i].date, out |-> Scheduled(updates[i].plan)]]

\* A comparison names a driving path of either side.
ComparedAsAsked(old, new, match) ==
  \E was \in old.paths, is \in new.paths : answer.result = Compared(old, new, match, was, is)

\* Every request is one of those that may be made; an answer is what the handler
\* of its study works out from it, and nothing else is ever answered.
StudyInv ==
  /\ request = NothingAsked \/ \E study \in DOMAIN Asked : request \in Asked[study]
  /\ answer.status = "compressing" =>
       request.study = "compression" /\ answer = [status |-> "compressing", now |-> answer.now]
  /\ Answered("comparison") =>
       ComparedAsAsked(Scheduled(request.old), Scheduled(request.new), request.match)
  /\ Answered("baseline") =>
       /\ DOMAIN request.rows # {}
       /\ ComparedAsAsked(Scheduled(Replayed(request.rows, request.plan)), Scheduled(request.plan), "id")
  /\ Answered("windows") =>
       /\ IsSeries(Outs(request.updates))
       /\ \E paths : /\ DOMAIN paths = DOMAIN request.updates
                     /\ \A i \in DOMAIN paths : paths[i] \in Scheduled(request.updates[i].plan).paths
                     /\ answer.result = Windows(Outs(request.updates), paths, request.match)
  /\ Answered("delay") =>
       \/ /\ request.method = "impacted" /\ CanImpose(request.plan, request.events)
          /\ answer.result = ImpactedAsPlanned(request.plan, request.events)
       \/ /\ request.method = "collapsed" /\ CanCollapse(request.plan, request.events)
          /\ answer.result = CollapsedAsBuilt(request.plan, request.events)
  /\ Answered("portfolio") =>
       /\ CanMerge(request.projects, request.external)
       /\ answer.result = Programme(request.projects, request.external)

\* An answer that is not one: nothing is said of it.
LEMMA NothingFound ==
  ASSUME StudyInv, request' = request, answer' \in {Pending, Declined, NotThere}
  PROVE  StudyInv'
<1>0. /\ Pending.status = "pending" /\ Declined.status = "refused"
      /\ NotThere.status = "nothing to show"
  BY DEF Pending, Declined, NotThere
<1>1. answer'.status # "compressing" /\ answer'.status # "answered"
  BY <1>0
<1> QED BY <1>1 DEF StudyInv, Answered

\* A reply to a study other than these is none to these.
LEMMA ElsewhereAnswered ==
  ASSUME StudyInv, request' = request, answer'.status = "answered",
         request.study \notin {"comparison", "baseline", "windows", "delay", "portfolio"}
  PROVE  StudyInv'
<1>1. /\ answer'.status # "compressing"
      /\ request'.study \notin {"comparison", "baseline", "windows", "delay", "portfolio"}
  OBVIOUS
<1> QED BY <1>1 DEF StudyInv, Answered

\* What is answered follows from what was asked.
LEMMA StudyInvHolds ==
  StudiesSpec => []StudyInv
<1>1. StudiesInit => StudyInv
  <2>1. SUFFICES ASSUME StudiesInit PROVE StudyInv
    OBVIOUS
  <2>2. request = NothingAsked /\ answer.status = "nothing to show"
    BY <2>1 DEF StudiesInit, NotThere
  <2>3. answer.status # "compressing" /\ answer.status # "answered"
    BY <2>2
  <2> QED BY <2>2, <2>3 DEF StudyInv, Answered
<1>2. ASSUME StudyInv, [StudiesNext]_studyVars PROVE StudyInv'
  <2>0. \A x : Found(x).status = "answered" /\ Found(x).result = x
    BY DEF Found
  <2>1. CASE UNCHANGED studyVars
    BY <1>2, <2>1 DEF StudyInv, studyVars, Answered, ComparedAsAsked
  <2>2. CASE Asks
    <3>1. /\ \E study \in DOMAIN Asked : request' \in Asked[study]
          /\ answer'.status = "pending"
      BY <2>2 DEF Asks, Pending
    <3> QED BY <3>1 DEF StudyInv, Answered
  <2>3. CASE CompareBaselines
    <3>1. /\ request' = request /\ request.study = "comparison"
          /\ \E was \in Scheduled(request.old).paths, is \in Scheduled(request.new).paths :
               answer' = Found(Compared(Scheduled(request.old), Scheduled(request.new),
                                        request.match, was, is))
      BY <2>3 DEF CompareBaselines, IsOpen, Reply
    <3>2. /\ answer'.status = "answered"
          /\ ComparedAsAsked(Scheduled(request.old), Scheduled(request.new), request.match)'
      BY <2>0, <3>1 DEF ComparedAsAsked
    <3> QED BY <1>2, <3>1, <3>2 DEF StudyInv, Answered
  <2>4. CASE CompareToBaseline
    <3>1. request' = request /\ request.study = "baseline"
      BY <2>4 DEF CompareToBaseline, IsOpen, Reply
    <3>2. CASE answer' = Declined
      BY <1>2, <3>1, <3>2, NothingFound
    <3>3. CASE answer' # Declined
      <4>1. /\ DOMAIN request.rows # {}
            /\ \E was \in Scheduled(Replayed(request.rows, request.plan)).paths,
                  is \in Scheduled(request.plan).paths :
                 answer' = Found(Compared(Scheduled(Replayed(request.rows, request.plan)),
                                          Scheduled(request.plan), "id", was, is))
        BY <2>4, <3>3 DEF CompareToBaseline, Reply
      <4>2. /\ answer'.status = "answered"
            /\ ComparedAsAsked(Scheduled(Replayed(request.rows, request.plan)),
                               Scheduled(request.plan), "id")'
        BY <2>0, <3>1, <4>1 DEF ComparedAsAsked
      <4> QED BY <1>2, <3>1, <4>1, <4>2 DEF StudyInv, Answered
    <3> QED BY <3>2, <3>3
  <2>5. CASE AnalyseWindows
    <3>1. request' = request /\ request.study = "windows"
      BY <2>5 DEF AnalyseWindows, IsOpen, Reply
    <3>2. CASE answer' = Declined
      BY <1>2, <3>1, <3>2, NothingFound
    <3>3. CASE answer' # Declined
      <4> DEFINE updates == Outs(request.updates)
      <4>1. /\ IsSeries(updates)
            /\ \E paths \in {p \in [DOMAIN updates -> UNION {updates[i].out.paths : i \in DOMAIN updates}] :
                               \A i \in DOMAIN p : p[i] \in updates[i].out.paths} :
                 answer' = Found(Windows(updates, paths, request.match))
        BY <2>5, <3>3 DEF AnalyseWindows, Reply, Outs
      <4>2. /\ DOMAIN updates = DOMAIN request.updates
            /\ \A i \in DOMAIN updates : updates[i].out = Scheduled(request.updates[i].plan)
        BY DEF Outs
      <4> HIDE DEF updates
      <4>3. PICK paths : /\ DOMAIN paths = DOMAIN request.updates
                         /\ \A i \in DOMAIN paths : paths[i] \in Scheduled(request.updates[i].plan).paths
                         /\ answer' = Found(Windows(updates, paths, request.match))
        BY <4>1, <4>2
      <4>4. /\ answer'.status = "answered"
            /\ answer'.result = Windows(updates, paths, request.match)
        BY <2>0, <4>3
      <4>5. \E p : /\ DOMAIN p = DOMAIN request'.updates
                   /\ \A i \in DOMAIN p : p[i] \in Scheduled(request'.updates[i].plan).paths
                   /\ answer'.result = Windows(Outs(request'.updates), p, request'.match)
        <5>1. Outs(request'.updates) = updates
          BY <3>1 DEF updates
        <5> QED BY <3>1, <4>3, <4>4, <5>1
      <4>6. IsSeries(Outs(request'.updates))
        BY <3>1, <4>1 DEF updates
      <4> QED BY <1>2, <3>1, <4>4, <4>5, <4>6 DEF StudyInv, Answered
    <3> QED BY <3>2, <3>3
  <2>6. CASE ModelDelay
    <3>1. request' = request /\ request.study = "delay"
      BY <2>6 DEF ModelDelay, IsOpen, Reply
    <3>2. CASE answer' = Declined
      BY <1>2, <3>1, <3>2, NothingFound
    <3>3. CASE answer' # Declined
      <4>1. \/ /\ request.method = "impacted" /\ CanImpose(request.plan, request.events)
               /\ answer' = Found(ImpactedAsPlanned(request.plan, request.events))
            \/ /\ request.method = "collapsed" /\ CanCollapse(request.plan, request.events)
               /\ answer' = Found(CollapsedAsBuilt(request.plan, request.events))
        BY <2>6, <3>3 DEF ModelDelay, Reply
      <4>2. /\ answer'.status = "answered"
            /\ \/ /\ request.method = "impacted" /\ CanImpose(request.plan, request.events)
                  /\ answer'.result = ImpactedAsPlanned(request.plan, request.events)
               \/ /\ request.method = "collapsed" /\ CanCollapse(request.plan, request.events)
                  /\ answer'.result = CollapsedAsBuilt(request.plan, request.events)
        BY <2>0, <4>1
      <4> QED BY <1>2, <3>1, <4>2 DEF StudyInv, Answered
    <3> QED BY <3>2, <3>3
  <2>7. CASE StartCompressing
    <3>1. request' = request /\ request.study = "compression"
      BY <2>7 DEF StartCompressing, IsOpen, Reply
    <3>2. CASE answer' = Declined
      BY <1>2, <3>1, <3>2, NothingFound
    <3>3. CASE answer' # Declined
      <4>1. answer' = [status |-> "compressing",
                       now |-> FirstState(request.plan, request.target, request.costs, request.pairs)]
        BY <2>7, <3>3 DEF StartCompressing, Reply
      <4>2. answer'.status = "compressing" /\ answer' = [status |-> "compressing", now |-> answer'.now]
        BY <4>1
      <4> QED BY <1>2, <3>1, <4>2 DEF StudyInv, Answered
    <3> QED BY <3>2, <3>3
  <2>8. CASE BuyADay
    <3>1. answer.status = "compressing" /\ request' = request
      BY <2>8 DEF BuyADay, IsCompressing, Reply
    <3>2. request.study = "compression" /\ answer = [status |-> "compressing", now |-> answer.now]
      BY <1>2, <3>1 DEF StudyInv
    <3>3. PICK o : answer' = [answer EXCEPT !.now = Bought(@, o)]
      BY <2>8 DEF BuyADay, Reply
    <3>4. answer'.status = "compressing" /\ answer' = [status |-> "compressing", now |-> answer'.now]
      BY <3>2, <3>3
    <3> QED BY <1>2, <3>1, <3>2, <3>4 DEF StudyInv, Answered
  <2>9. CASE StopCompressing
    <3>1. answer.status = "compressing" /\ request' = request /\ answer'.status = "answered"
      BY <2>0, <2>9 DEF StopCompressing, IsCompressing, Reply
    <3>2. request.study = "compression"
      BY <1>2, <3>1 DEF StudyInv
    <3> QED BY <1>2, <3>1, <3>2, ElsewhereAnswered
  <2>10. CASE SchedulePortfolio
    <3>1. request' = request /\ request.study = "portfolio"
      BY <2>10 DEF SchedulePortfolio, IsOpen, Reply
    <3>2. CASE answer' = Declined
      BY <1>2, <3>1, <3>2, NothingFound
    <3>3. CASE answer' # Declined
      <4>1. /\ CanMerge(request.projects, request.external)
            /\ answer' = Found(Programme(request.projects, request.external))
        BY <2>10, <3>3 DEF SchedulePortfolio, Reply
      <4>2. /\ answer'.status = "answered"
            /\ answer'.result = Programme(request.projects, request.external)
        BY <2>0, <4>1
      <4> QED BY <1>2, <3>1, <4>1, <4>2 DEF StudyInv, Answered
    <3> QED BY <3>2, <3>3
  <2>11. CASE \/ ScheduleLinear \/ LinearSchedule \/ ScheduleTakt \/ TaktPlan \/ ParseQuantities
              \/ ApplyWeather \/ MeasureProgress \/ MeasureEarnedSchedule
    <3>1. /\ request' = request
          /\ request.study \in {"lines", "stored lines", "takt", "stored takt", "take-off",
                                "weather", "progress", "earned"}
          /\ answer' \in {Declined, NotThere} \/ answer'.status = "answered"
      <4>1. CASE ScheduleLinear
        BY <2>0, <4>1 DEF ScheduleLinear, IsOpen, Reply
      <4>2. CASE LinearSchedule
        BY <2>0, <4>2 DEF LinearSchedule, IsOpen, Reply
      <4>3. CASE ScheduleTakt
        BY <2>0, <4>3 DEF ScheduleTakt, IsOpen, Reply
      <4>4. CASE TaktPlan
        BY <2>0, <4>4 DEF TaktPlan, IsOpen, Reply
      <4>5. CASE ParseQuantities
        BY <2>0, <4>5 DEF ParseQuantities, IsOpen, Reply
      <4>6. CASE ApplyWeather
        BY <2>0, <4>6 DEF ApplyWeather, IsOpen, Reply
      <4>7. CASE MeasureProgress
        BY <2>0, <4>7 DEF MeasureProgress, IsOpen, Reply
      <4>8. CASE MeasureEarnedSchedule
        BY <2>0, <4>8 DEF MeasureEarnedSchedule, IsOpen, Reply
      <4> QED BY <2>11, <4>1, <4>2, <4>3, <4>4, <4>5, <4>6, <4>7, <4>8
    <3> QED BY <1>2, <3>1, NothingFound, ElsewhereAnswered
  <2> QED BY <1>2, <2>1, <2>2, <2>3, <2>4, <2>5, <2>6, <2>7, <2>8, <2>9, <2>10, <2>11
       DEF StudiesNext
<1> QED BY <1>1, <1>2, PTL DEF StudiesSpec

-----------------------------------------------------------------------------
\* Several projects as one network.

\* A link inside a project, between the activities' names in the programme.
Renamed(project, k) ==
  [project.plan.links[k] EXCEPT !.pred = Key(project.id, @), !.succ = Key(project.id, @)]

\* What is merged: projects that can be read, with links between them.
AreProjects(projects, external) ==
  /\ projects = [i \in 1..Len(projects) |-> projects[i]] /\ Len(projects) \in Nat
  /\ \A i \in DOMAIN projects : IsPlan(projects[i].plan)
  /\ external = [k \in 1..Len(external) |-> external[k]] /\ Len(external) \in Nat
  /\ \A k \in DOMAIN external :
       external[k].type \in {"FS", "SS", "FF", "SF"} /\ external[k].lag \in Int

\* Activities of the programme: those of its projects, each once, as they are.
LEMMA MergedTasks ==
  ASSUME NEW projects, NEW external, AreProjects(projects, external), CanMerge(projects, external)
  PROVE  LET M == Merged(projects, external)
         IN  /\ M = [tasks |-> M.tasks, links |-> M.links]
             /\ IsFiniteSet(DOMAIN M.tasks) /\ DOMAIN M.tasks # {}
             /\ M.tasks \in [DOMAIN M.tasks -> [dur : Nat, floor : Nat, code : Nat]]
             /\ \A i \in DOMAIN projects : \A a \in DOMAIN projects[i].plan.tasks :
                  /\ Key(projects[i].id, a) \in DOMAIN M.tasks
                  /\ M.tasks[Key(projects[i].id, a)] = projects[i].plan.tasks[a]
             /\ \A key \in DOMAIN M.tasks : \E i \in DOMAIN projects :
                  \E a \in DOMAIN projects[i].plan.tasks : key = Key(projects[i].id, a)
<1> DEFINE owner(key) == CHOOSE i \in DOMAIN projects : key \in Keys(projects[i])
           All == UNION {Keys(projects[i]) : i \in DOMAIN projects}
           tasks == [key \in All |-> projects[owner(key)].plan.tasks[key[2]]]
<1>1. PICK M : M = Merged(projects, external)
  OBVIOUS
<1>2. M = [tasks |-> M.tasks, links |-> M.links] /\ M.tasks = tasks
  BY <1>1 DEF Merged
<1>3. ASSUME NEW i \in DOMAIN projects, NEW a \in DOMAIN projects[i].plan.tasks
      PROVE  /\ Key(projects[i].id, a) \in All
             /\ tasks[Key(projects[i].id, a)] = projects[i].plan.tasks[a]
  <2> DEFINE key == Key(projects[i].id, a)
  <2>1. key \in Keys(projects[i]) /\ key[1] = projects[i].id /\ key[2] = a
    BY DEF Keys, Key
  <2>2. \A j \in DOMAIN projects : key \in Keys(projects[j]) => j = i
    <3>1. SUFFICES ASSUME NEW j \in DOMAIN projects, key \in Keys(projects[j]) PROVE j = i
      OBVIOUS
    <3>2. projects[j].id = key[1]
      BY <3>1 DEF Keys, Key
    <3> QED BY <2>1, <3>2 DEF CanMerge
  <2>3. owner(key) = i
    <3> HIDE DEF key
    <3> QED BY <2>1, <2>2
  <2> HIDE DEF owner, key
  <2>4. key \in All
    BY <2>1
  <2> QED BY <2>1, <2>3, <2>4 DEF key
<1>4. ASSUME NEW key \in All
      PROVE  \E i \in DOMAIN projects : \E a \in DOMAIN projects[i].plan.tasks :
               key = Key(projects[i].id, a)
  BY DEF Keys
<1> HIDE DEF owner
<1>5. DOMAIN tasks = All
  OBVIOUS
<1>6. \A key \in All : tasks[key] \in [dur : Nat, floor : Nat, code : Nat]
  <2>1. SUFFICES ASSUME NEW key \in All PROVE tasks[key] \in [dur : Nat, floor : Nat, code : Nat]
    OBVIOUS
  <2> HIDE DEF tasks, All
  <2>2. PICK i \in DOMAIN projects : \E a \in DOMAIN projects[i].plan.tasks :
               key = Key(projects[i].id, a)
    BY <1>4
  <2>3. PICK a \in DOMAIN projects[i].plan.tasks : key = Key(projects[i].id, a)
    BY <2>2
  <2>4. IsPlan(projects[i].plan)
    BY DEF AreProjects
  <2>5. projects[i].plan.tasks[a] \in [dur : Nat, floor : Nat, code : Nat]
    BY <2>4, InPlan
  <2> QED BY <1>3, <2>3, <2>5
<1>7. IsFiniteSet(All)
  <2>1. DOMAIN projects = 1..Len(projects) /\ Len(projects) \in Nat /\ 1 \in Int /\ Len(projects) \in Int
    BY DEF AreProjects
  <2>2. IsFiniteSet(DOMAIN projects)
    BY <2>1, FS_Interval
  <2>3. \A i \in DOMAIN projects : IsFiniteSet(Keys(projects[i]))
    <3>1. SUFFICES ASSUME NEW i \in DOMAIN projects PROVE IsFiniteSet(Keys(projects[i]))
      OBVIOUS
    <3>2. IsFiniteSet(DOMAIN projects[i].plan.tasks)
      BY InPlan DEF AreProjects
    <3>3. PICK X : X = DOMAIN projects[i].plan.tasks
      OBVIOUS
    <3>4. PICK Y : Y = Keys(projects[i])
      OBVIOUS
    <3>5. PICK f : f = [a \in X |-> Key(projects[i].id, a)]
      OBVIOUS
    <3>6. Y = {f[a] : a \in X} /\ DOMAIN f = X
      BY <3>3, <3>4, <3>5 DEF Keys
    <3>7. IsFiniteSet({f[a] : a \in X})
      BY <3>2, <3>3, <3>6, FinitelyMany
    <3> QED BY <3>4, <3>6, <3>7
  <2>4. PICK f : f = [i \in DOMAIN projects |-> Keys(projects[i])]
    OBVIOUS
  <2>5. PICK Z : Z = {Keys(projects[i]) : i \in DOMAIN projects}
    OBVIOUS
  <2>6. Z = {f[i] : i \in DOMAIN projects} /\ DOMAIN f = DOMAIN projects
    BY <2>4, <2>5
  <2>7. IsFiniteSet(Z)
    <3>1. IsFiniteSet({f[i] : i \in DOMAIN projects})
      BY <2>2, <2>6, FinitelyMany
    <3> QED BY <2>6, <3>1
  <2>8. \A z \in Z : IsFiniteSet(z)
    BY <2>3, <2>5
  <2>9. IsFiniteSet(UNION Z)
    BY <2>7, <2>8, FS_UNION
  <2> QED BY <2>5, <2>9
<1>8. All # {}
  <2>1. projects # <<>> /\ projects = [i \in 1..Len(projects) |-> projects[i]] /\ Len(projects) \in Nat
    BY DEF CanMerge, AreProjects
  <2>2. 1 \in DOMAIN projects
    <3>1. projects \in Seq({projects[i] : i \in 1..Len(projects)})
      BY <2>1
    <3>2. Len(projects) # 0
      BY <2>1, <3>1
    <3> QED BY <2>1, <3>2
  <2>3. IsPlan(projects[1].plan)
    BY <2>2 DEF AreProjects
  <2>4. PICK a : a \in DOMAIN projects[1].plan.tasks
    BY <2>3, InPlan
  <2> QED BY <1>3, <2>2, <2>4
<1>9. M.tasks \in [DOMAIN M.tasks -> [dur : Nat, floor : Nat, code : Nat]]
  <2>1. DOMAIN M.tasks = All
    BY <1>2
  <2>2. \A key \in All : M.tasks[key] \in [dur : Nat, floor : Nat, code : Nat]
    BY <1>2, <1>6
  <2>3. M.tasks = [key \in All |-> M.tasks[key]]
    BY <1>2
  <2> HIDE DEF All
  <2> QED BY <2>1, <2>2, <2>3
<1>10. DOMAIN M.tasks = All
  BY <1>2
<1> HIDE DEF tasks, All
<1>11. \A i \in DOMAIN projects : \A a \in DOMAIN projects[i].plan.tasks :
         /\ Key(projects[i].id, a) \in DOMAIN M.tasks
         /\ M.tasks[Key(projects[i].id, a)] = projects[i].plan.tasks[a]
  BY <1>2, <1>3, <1>10
<1>12. \A key \in DOMAIN M.tasks : \E i \in DOMAIN projects :
         \E a \in DOMAIN projects[i].plan.tasks : key = Key(projects[i].id, a)
  BY <1>4, <1>10
<1> QED BY <1>1, <1>2, <1>7, <1>8, <1>9, <1>10, <1>11, <1>12

\* The links of a programme: those inside its projects and those between them.
Carried(projects, external, M) ==
  /\ \A m \in DOMAIN M.links :
       \/ \E i \in DOMAIN projects : \E k \in DOMAIN projects[i].plan.links :
            M.links[m] = Renamed(projects[i], k)
       \/ \E k \in DOMAIN external : M.links[m] = Across(external[k])
  /\ \A i \in DOMAIN projects : \A k \in DOMAIN projects[i].plan.links :
       \E m \in DOMAIN M.links : M.links[m] = Renamed(projects[i], k)
  /\ \A k \in DOMAIN external : \E m \in DOMAIN M.links : M.links[m] = Across(external[k])

\* None is lost in the merge and none is added.
LEMMA MergedLinks ==
  ASSUME NEW projects, NEW external, AreProjects(projects, external), CanMerge(projects, external),
         NEW M, M = Merged(projects, external)
  PROVE  /\ M.links \in Seq([pred : DOMAIN M.tasks, succ : DOMAIN M.tasks,
                             type : {"FS", "SS", "FF", "SF"}, lag : Int])
         /\ Carried(projects, external, M)
<1>1. /\ \A i \in DOMAIN projects : \A a \in DOMAIN projects[i].plan.tasks :
           Key(projects[i].id, a) \in DOMAIN M.tasks
  BY MergedTasks
<1> DEFINE X == [pred : DOMAIN M.tasks, succ : DOMAIN M.tasks,
                 type : {"FS", "SS", "FF", "SF"}, lag : Int]
<1>2. PICK s : s = [i \in DOMAIN projects |->
                      [k \in DOMAIN projects[i].plan.links |-> Renamed(projects[i], k)]]
  OBVIOUS
<1>3. PICK flat : flat = FlattenSeq(s)
  OBVIOUS
<1>4. PICK t : t = [k \in DOMAIN external |-> Across(external[k])]
  OBVIOUS
<1>5. M.links = flat \o t
  <2>1. s = [i \in DOMAIN projects |->
              [k \in DOMAIN projects[i].plan.links |->
                 LET l == projects[i].plan.links[k]
                 IN  [l EXCEPT !.pred = Key(projects[i].id, @), !.succ = Key(projects[i].id, @)]]]
    BY <1>2 DEF Renamed
  <2>2. M.links = FlattenSeq([i \in DOMAIN projects |->
              [k \in DOMAIN projects[i].plan.links |->
                 LET l == projects[i].plan.links[k]
                 IN  [l EXCEPT !.pred = Key(projects[i].id, @), !.succ = Key(projects[i].id, @)]]]) \o t
    BY <1>4 DEF Merged
  <2> QED BY <1>3, <2>1, <2>2
<1>6. ASSUME NEW i \in DOMAIN projects, NEW k \in DOMAIN projects[i].plan.links
      PROVE  Renamed(projects[i], k) \in X
  <2>1. IsPlan(projects[i].plan)
    BY DEF AreProjects
  <2>2. PICK l : l = projects[i].plan.links[k]
    OBVIOUS
  <2>3. /\ l \in [pred : DOMAIN projects[i].plan.tasks, succ : DOMAIN projects[i].plan.tasks,
                  type : {"FS", "SS", "FF", "SF"}, lag : Int]
        /\ l.pred \in DOMAIN projects[i].plan.tasks /\ l.succ \in DOMAIN projects[i].plan.tasks
    BY <2>1, <2>2, InPlan
  <2>4. Key(projects[i].id, l.pred) \in DOMAIN M.tasks /\ Key(projects[i].id, l.succ) \in DOMAIN M.tasks
    BY <1>1, <2>3
  <2>5. Renamed(projects[i], k) = [pred |-> Key(projects[i].id, l.pred), succ |-> Key(projects[i].id, l.succ),
                                   type |-> l.type, lag |-> l.lag]
    <3>1. PICK p, q : p = Key(projects[i].id, l.pred) /\ q = Key(projects[i].id, l.succ)
      OBVIOUS
    <3>2. Renamed(projects[i], k) = [[l EXCEPT !.pred = p] EXCEPT !.succ = q]
      <4>1. Renamed(projects[i], k) = [l EXCEPT !.pred = Key(projects[i].id, @), !.succ = Key(projects[i].id, @)]
        BY <2>2 DEF Renamed
      <4> QED BY <3>1, <4>1
    <3>3. [[l EXCEPT !.pred = p] EXCEPT !.succ = q] = [pred |-> p, succ |-> q, type |-> l.type, lag |-> l.lag]
      <4>1. l = [pred |-> l.pred, succ |-> l.succ, type |-> l.type, lag |-> l.lag]
        BY <2>3
      <4>2. PICK x, y, u, v : x = l.pred /\ y = l.succ /\ u = l.type /\ v = l.lag
        OBVIOUS
      <4>3. l = [pred |-> x, succ |-> y, type |-> u, lag |-> v]
        BY <4>1, <4>2
      <4>4. [[l EXCEPT !.pred = p] EXCEPT !.succ = q] = [pred |-> p, succ |-> q, type |-> u, lag |-> v]
        <5>1. PICK w : w = [l EXCEPT !.pred = p]
          OBVIOUS
        <5>2. w = [pred |-> p, succ |-> y, type |-> u, lag |-> v]
          BY <4>3, <5>1
        <5>3. [w EXCEPT !.succ = q] = [pred |-> p, succ |-> q, type |-> u, lag |-> v]
          BY <5>2
        <5> QED BY <5>1, <5>3
      <4> QED BY <4>2, <4>4
    <3> QED BY <3>1, <3>2, <3>3
  <2>6. l.type \in {"FS", "SS", "FF", "SF"} /\ l.lag \in Int
    BY <2>3
  <2> QED BY <2>4, <2>5, <2>6
<1>7. ASSUME NEW k \in DOMAIN external PROVE Across(external[k]) \in X
  <2>1. InProjects(projects, external[k].from) /\ InProjects(projects, external[k].to)
    BY DEF CanMerge
  <2>2. /\ Key(external[k].from[1], external[k].from[2]) \in DOMAIN M.tasks
        /\ Key(external[k].to[1], external[k].to[2]) \in DOMAIN M.tasks
    BY <1>1, <2>1 DEF InProjects
  <2>3. external[k].type \in {"FS", "SS", "FF", "SF"} /\ external[k].lag \in Int
    BY DEF AreProjects
  <2> QED BY <2>2, <2>3 DEF Across
<1> HIDE DEF X
<1>8. s \in Seq(Seq(X))
  <2>1. \A i \in DOMAIN projects : s[i] \in Seq(X)
    <3>1. SUFFICES ASSUME NEW i \in DOMAIN projects PROVE s[i] \in Seq(X)
      OBVIOUS
    <3>2. PICK p : p = s[i]
      OBVIOUS
    <3>3. p = [k \in DOMAIN projects[i].plan.links |-> Renamed(projects[i], k)]
      BY <1>2, <3>2
    <3>4. PICK n \in Nat : DOMAIN projects[i].plan.links = 1..n
      <4>1. PICK Y, links : links = projects[i].plan.links /\ links \in Seq(Y)
        BY DEF AreProjects, IsPlan
      <4>2. DOMAIN links = 1..Len(links) /\ Len(links) \in Nat
        BY <4>1
      <4> QED BY <4>1, <4>2
    <3>5. p \in [1..n -> X]
      BY <1>6, <3>3, <3>4
    <3>6. p \in Seq(X)
      BY <3>5
    <3> QED BY <3>2, <3>6
  <2>2. DOMAIN projects = 1..Len(projects) /\ Len(projects) \in Nat
    BY DEF AreProjects
  <2>3. s \in [1..Len(projects) -> Seq(X)]
    <3>1. s = [i \in 1..Len(projects) |-> s[i]]
      BY <1>2, <2>2
    <3> QED BY <2>1, <2>2, <3>1
  <2> QED BY <2>2, <2>3
<1>9. t \in Seq(X)
  <2>1. DOMAIN external = 1..Len(external) /\ Len(external) \in Nat
    BY DEF AreProjects
  <2>2. t \in [1..Len(external) -> X]
    BY <1>4, <1>7, <2>1
  <2> QED BY <2>1, <2>2
<1>10. /\ flat \in Seq(X)
       /\ \A m \in DOMAIN flat : \E i \in DOMAIN s : \E j \in DOMAIN s[i] : flat[m] = s[i][j]
       /\ \A i \in DOMAIN s : \A j \in DOMAIN s[i] : \E m \in DOMAIN flat : flat[m] = s[i][j]
  BY <1>3, <1>8, FlattenHas
<1>11. /\ M.links \in Seq(X) /\ Len(flat) \in Nat /\ Len(t) \in Nat
       /\ DOMAIN M.links = 1..(Len(flat) + Len(t))
       /\ DOMAIN flat = 1..Len(flat) /\ DOMAIN t = 1..Len(t)
  BY <1>5, <1>9, <1>10
<1>12. /\ \A m \in 1..Len(flat) : M.links[m] = flat[m]
       /\ \A m \in 1..Len(t) : M.links[Len(flat) + m] = t[m]
  BY <1>5, <1>9, <1>10
<1>13. /\ DOMAIN s = DOMAIN projects
       /\ \A i \in DOMAIN projects : /\ DOMAIN s[i] = DOMAIN projects[i].plan.links
                                     /\ \A k \in DOMAIN s[i] : s[i][k] = Renamed(projects[i], k)
  BY <1>2
<1>14. /\ DOMAIN t = DOMAIN external
       /\ \A k \in DOMAIN external : t[k] = Across(external[k])
  BY <1>4
<1>15. ASSUME NEW m \in DOMAIN M.links
       PROVE  \/ \E i \in DOMAIN projects : \E k \in DOMAIN projects[i].plan.links :
                   M.links[m] = Renamed(projects[i], k)
              \/ \E k \in DOMAIN external : M.links[m] = Across(external[k])
  <2>1. CASE m \in 1..Len(flat)
    <3>1. M.links[m] = flat[m] /\ m \in DOMAIN flat
      BY <1>11, <1>12, <2>1
    <3>2. PICK i \in DOMAIN s : \E j \in DOMAIN s[i] : flat[m] = s[i][j]
      BY <1>10, <3>1
    <3>3. PICK j \in DOMAIN s[i] : flat[m] = s[i][j]
      BY <3>2
    <3> QED BY <1>13, <3>1, <3>2, <3>3
  <2>2. CASE m \notin 1..Len(flat)
    <3>1. m - Len(flat) \in DOMAIN t /\ m = Len(flat) + (m - Len(flat))
      BY <1>11, <2>2
    <3>2. M.links[m] = t[m - Len(flat)]
      BY <1>11, <1>12, <3>1
    <3> QED BY <1>14, <3>1, <3>2
  <2> QED BY <2>1, <2>2
<1>16. ASSUME NEW i \in DOMAIN projects, NEW k \in DOMAIN projects[i].plan.links
       PROVE  \E m \in DOMAIN M.links : M.links[m] = Renamed(projects[i], k)
  <2>1. i \in DOMAIN s /\ k \in DOMAIN s[i] /\ s[i][k] = Renamed(projects[i], k)
    BY <1>13
  <2>2. PICK m \in DOMAIN flat : flat[m] = s[i][k]
    BY <1>10, <2>1
  <2>3. m \in 1..Len(flat)
    BY <1>11, <2>2
  <2>4. m \in DOMAIN M.links
    BY <1>11, <2>3
  <2> QED BY <1>12, <2>1, <2>2, <2>3, <2>4
<1>17. ASSUME NEW k \in DOMAIN external
       PROVE  \E m \in DOMAIN M.links : M.links[m] = Across(external[k])
  <2>1. k \in 1..Len(t) /\ t[k] = Across(external[k])
    BY <1>11, <1>14
  <2>2. Len(flat) + k \in DOMAIN M.links
    BY <1>11, <2>1
  <2> QED BY <1>12, <2>1, <2>2
<1> USE DEF X
<1>18. M.links \in Seq(X)
  BY <1>11
<1>19. Carried(projects, external, M)
  BY <1>15, <1>16, <1>17 DEF Carried
<1> QED BY <1>18, <1>19

\* The programme is a network the engine takes.
LEMMA MergedIsPlan ==
  ASSUME NEW projects, NEW external, AreProjects(projects, external), CanMerge(projects, external)
  PROVE  IsPlan(Merged(projects, external))
<1>1. PICK M : M = Merged(projects, external)
  OBVIOUS
<1>2. /\ M = [tasks |-> M.tasks, links |-> M.links]
      /\ IsFiniteSet(DOMAIN M.tasks) /\ DOMAIN M.tasks # {}
      /\ M.tasks \in [DOMAIN M.tasks -> [dur : Nat, floor : Nat, code : Nat]]
  BY <1>1, MergedTasks
<1>3. M.links \in Seq([pred : DOMAIN M.tasks, succ : DOMAIN M.tasks,
                       type : {"FS", "SS", "FF", "SF"}, lag : Int])
  BY <1>1, MergedLinks
<1>4. NoRing(M)
  BY <1>1 DEF CanMerge
<1>5. IsPlan(M)
  BY <1>2, <1>3, <1>4 DEF IsPlan
<1> QED BY <1>1, <1>5

\* A link inside a project asks in the programme what it asks in the project.
LEMMA MergedOffs ==
  ASSUME NEW projects, NEW external, AreProjects(projects, external), CanMerge(projects, external),
         NEW M, M = Merged(projects, external),
         NEW i \in DOMAIN projects, NEW k \in DOMAIN projects[i].plan.links,
         NEW m \in DOMAIN M.links, M.links[m] = Renamed(projects[i], k)
  PROVE  /\ Off(M, m) = Off(projects[i].plan, k)
         /\ M.links[m].pred = Key(projects[i].id, projects[i].plan.links[k].pred)
         /\ M.links[m].succ = Key(projects[i].id, projects[i].plan.links[k].succ)
<1>1. PICK l : l = projects[i].plan.links[k]
  OBVIOUS
<1>2. IsPlan(projects[i].plan)
  BY DEF AreProjects
<1>3. /\ l \in [pred : DOMAIN projects[i].plan.tasks, succ : DOMAIN projects[i].plan.tasks,
                type : {"FS", "SS", "FF", "SF"}, lag : Int]
      /\ l.pred \in DOMAIN projects[i].plan.tasks /\ l.succ \in DOMAIN projects[i].plan.tasks
  BY <1>1, <1>2, InPlan
<1>4. PICK n : n = M.links[m]
  OBVIOUS
<1>5. /\ n.pred = Key(projects[i].id, l.pred) /\ n.succ = Key(projects[i].id, l.succ)
      /\ n.type = l.type /\ n.lag = l.lag
  <2>1. n = [l EXCEPT !.pred = Key(projects[i].id, @), !.succ = Key(projects[i].id, @)]
    BY <1>1, <1>4 DEF Renamed
  <2>2. PICK p, q : p = Key(projects[i].id, l.pred) /\ q = Key(projects[i].id, l.succ)
    OBVIOUS
  <2>3. n = [[l EXCEPT !.pred = p] EXCEPT !.succ = q]
    BY <2>1, <2>2
  <2>4. n.pred = p /\ n.succ = q /\ n.type = l.type /\ n.lag = l.lag
    BY <1>3, <2>3
  <2> QED BY <2>2, <2>4
<1>6. /\ M.tasks[n.pred] = projects[i].plan.tasks[l.pred]
      /\ M.tasks[n.succ] = projects[i].plan.tasks[l.succ]
  <2>1. \A a \in DOMAIN projects[i].plan.tasks :
          M.tasks[Key(projects[i].id, a)] = projects[i].plan.tasks[a]
    BY MergedTasks
  <2> QED BY <1>3, <1>5, <2>1
<1>7. Off(M, m) = Off(projects[i].plan, k)
  BY <1>1, <1>4, <1>5, <1>6 DEF Off, StartBound
<1> QED BY <1>1, <1>4, <1>5, <1>7

\* In the programme a project keeps its own floors and links.
LEMMA ProjectsMeet ==
  ASSUME NEW projects, NEW external, AreProjects(projects, external), CanMerge(projects, external),
         NEW start, start = EarlyStarts(Merged(projects, external)),
         NEW i \in DOMAIN projects,
         NEW h, h = [a \in DOMAIN projects[i].plan.tasks |-> start[Key(projects[i].id, a)]]
  PROVE  Meets(projects[i].plan, h)
<1>0. PICK M : M = Merged(projects, external)
  OBVIOUS
<1>1. IsPlan(M) /\ IsPlan(projects[i].plan) /\ Meets(M, start)
  BY <1>0, MergedIsPlan, EarlyStartsAre DEF AreProjects
<1>2. \A a \in DOMAIN projects[i].plan.tasks :
        /\ Key(projects[i].id, a) \in DOMAIN M.tasks
        /\ M.tasks[Key(projects[i].id, a)] = projects[i].plan.tasks[a]
  BY <1>0, MergedTasks
<1>3. ASSUME NEW a \in DOMAIN projects[i].plan.tasks
      PROVE  h[a] \in Int /\ projects[i].plan.tasks[a].floor <= h[a]
  BY <1>1, <1>2 DEF Meets
<1>4. ASSUME NEW k \in DOMAIN projects[i].plan.links
      PROVE  h[projects[i].plan.links[k].pred] + Off(projects[i].plan, k)
               <= h[projects[i].plan.links[k].succ]
  <2>1. PICK m \in DOMAIN M.links : M.links[m] = Renamed(projects[i], k)
    <3>1. Carried(projects, external, M)
      BY <1>0, MergedLinks
    <3> QED BY <3>1 DEF Carried
  <2>2. /\ Off(M, m) = Off(projects[i].plan, k)
        /\ M.links[m].pred = Key(projects[i].id, projects[i].plan.links[k].pred)
        /\ M.links[m].succ = Key(projects[i].id, projects[i].plan.links[k].succ)
    BY <1>0, <2>1, MergedOffs
  <2>3. start[M.links[m].pred] + Off(M, m) <= start[M.links[m].succ]
    BY <1>1 DEF Meets
  <2>4. /\ projects[i].plan.links[k].pred \in DOMAIN projects[i].plan.tasks
        /\ projects[i].plan.links[k].succ \in DOMAIN projects[i].plan.tasks
    BY <1>1, InPlan
  <2>5. /\ h[projects[i].plan.links[k].pred] = start[M.links[m].pred]
        /\ h[projects[i].plan.links[k].succ] = start[M.links[m].succ]
    <3>1. \A a \in DOMAIN projects[i].plan.tasks : h[a] = start[Key(projects[i].id, a)]
      OBVIOUS
    <3> QED BY <2>2, <2>4, <3>1, Zenon
  <2> QED BY <2>2, <2>3, <2>5
<1> QED BY <1>3, <1>4 DEF Meets

\* A project nobody hands anything to is held by nothing else.
LEMMA ProjectsTight ==
  ASSUME NEW projects, NEW external, AreProjects(projects, external), CanMerge(projects, external),
         NEW start, start = EarlyStarts(Merged(projects, external)),
         NEW i \in DOMAIN projects,
         NEW h, h = [a \in DOMAIN projects[i].plan.tasks |-> start[Key(projects[i].id, a)]],
         \A k \in DOMAIN external : external[k].to[1] # projects[i].id
  PROVE  Tight(projects[i].plan, h)
<1>0. PICK M : M = Merged(projects, external)
  OBVIOUS
<1>1. IsPlan(M) /\ IsPlan(projects[i].plan) /\ Tight(M, start)
  BY <1>0, MergedIsPlan, EarlyStartsAre DEF AreProjects
<1>2. \A a \in DOMAIN projects[i].plan.tasks :
        /\ Key(projects[i].id, a) \in DOMAIN M.tasks
        /\ M.tasks[Key(projects[i].id, a)] = projects[i].plan.tasks[a]
  BY <1>0, MergedTasks
<1>3. ASSUME NEW a \in DOMAIN projects[i].plan.tasks
      PROVE  \/ h[a] = projects[i].plan.tasks[a].floor
             \/ \E k \in DOMAIN projects[i].plan.links :
                  /\ projects[i].plan.links[k].succ = a
                  /\ h[a] = h[projects[i].plan.links[k].pred] + Off(projects[i].plan, k)
  <2> DEFINE key == Key(projects[i].id, a)
  <2>1. h[a] = start[key] /\ key \in DOMAIN M.tasks /\ M.tasks[key] = projects[i].plan.tasks[a]
    BY <1>2
  <2>2. key[1] = projects[i].id /\ key[2] = a
    BY DEF Key
  <2> HIDE DEF key
  <2>3. CASE start[key] = M.tasks[key].floor
    BY <2>1, <2>3
  <2>4. CASE start[key] # M.tasks[key].floor
    <3>1. PICK m \in DOMAIN M.links : /\ M.links[m].succ = key
                                      /\ start[key] = start[M.links[m].pred] + Off(M, m)
      BY <1>1, <2>1, <2>4 DEF Tight
    <3>2. CASE \E k \in DOMAIN external : M.links[m] = Across(external[k])
      <4>1. PICK k \in DOMAIN external : M.links[m] = Across(external[k])
        BY <3>2
      <4>2. key = Key(external[k].to[1], external[k].to[2])
        BY <3>1, <4>1 DEF Across
      <4>3. key[1] = external[k].to[1]
        BY <4>2 DEF Key
      <4> QED BY <2>2, <4>3
    <3>3. CASE ~\E k \in DOMAIN external : M.links[m] = Across(external[k])
      <4>1. PICK j \in DOMAIN projects : \E k \in DOMAIN projects[j].plan.links :
                   M.links[m] = Renamed(projects[j], k)
        <5>1. Carried(projects, external, M)
          BY <1>0, MergedLinks
        <5> QED BY <3>3, <5>1 DEF Carried
      <4>2. PICK k \in DOMAIN projects[j].plan.links : M.links[m] = Renamed(projects[j], k)
        BY <4>1
      <4>3. /\ Off(M, m) = Off(projects[j].plan, k)
            /\ M.links[m].pred = Key(projects[j].id, projects[j].plan.links[k].pred)
            /\ M.links[m].succ = Key(projects[j].id, projects[j].plan.links[k].succ)
        BY <1>0, <4>2, MergedOffs
      <4>4. key[1] = projects[j].id /\ key[2] = projects[j].plan.links[k].succ
        BY <3>1, <4>3 DEF Key
      <4>5. j = i
        BY <2>2, <4>4 DEF CanMerge
      <4>6. projects[i].plan.links[k].pred \in DOMAIN projects[i].plan.tasks
        BY <1>1, <4>2, <4>5, InPlan
      <4>7. h[projects[i].plan.links[k].pred] = start[M.links[m].pred]
        <5>1. \A b \in DOMAIN projects[i].plan.tasks : h[b] = start[Key(projects[i].id, b)]
          OBVIOUS
        <5> QED BY <4>3, <4>5, <4>6, <5>1, Zenon
      <4>8. h[a] = h[projects[i].plan.links[k].pred] + Off(projects[i].plan, k)
        BY <2>1, <3>1, <4>3, <4>5, <4>7
      <4> QED BY <2>2, <4>2, <4>4, <4>5, <4>8
    <3> QED BY <3>2, <3>3
  <2> QED BY <2>3, <2>4
<1> QED BY <1>3 DEF Tight

\* What a programme answers agrees with what its projects would answer alone.
LEMMA ProgrammeAgrees ==
  ASSUME NEW projects, NEW external, AreProjects(projects, external), CanMerge(projects, external),
         NEW r, r = Programme(projects, external)
  PROVE  /\ \A i \in DOMAIN projects :
              /\ \A a \in DOMAIN Standalone(projects[i]) : Standalone(projects[i])[a] <= r.dates[i][a]
              /\ \/ \E k \in DOMAIN external : external[k].to[1] = projects[i].id
                 \/ r.dates[i] = Standalone(projects[i])
         /\ \A k \in DOMAIN external : \A i, j \in DOMAIN projects :
              external[k].from[1] = projects[i].id /\ external[k].to[1] = projects[j].id =>
                r.dates[i][external[k].from[2]]
                  + (IF external[k].type \in {"FS", "FF"}
                     THEN projects[i].plan.tasks[external[k].from[2]].dur ELSE 0)
                  + external[k].lag
                <= r.dates[j][external[k].to[2]]
                     + (IF external[k].type \in {"FF", "SF"}
                        THEN projects[j].plan.tasks[external[k].to[2]].dur ELSE 0)
         /\ r.end = Max({r.ends[i] : i \in DOMAIN r.ends})
<1> DEFINE M == Merged(projects, external)
           start == EarlyStarts(M)
           dates == [i \in DOMAIN projects |->
                       [a \in DOMAIN projects[i].plan.tasks |-> start[Key(projects[i].id, a)]]]
           ends == [i \in DOMAIN projects |-> ProjectEnd(projects[i].plan, dates[i])]
<1>1. r.dates = dates /\ r.ends = ends /\ r.end = ProjectEnd(M, start)
  BY DEF Programme
<1>2. IsPlan(M) /\ Meets(M, start) /\ \A i \in DOMAIN projects : IsPlan(projects[i].plan)
  <2>1. IsPlan(M)
    BY MergedIsPlan
  <2> HIDE DEF M
  <2> QED BY <2>1, EarlyStartsAre DEF AreProjects
<1>3. \A i \in DOMAIN projects : \A a \in DOMAIN projects[i].plan.tasks :
        /\ Key(projects[i].id, a) \in DOMAIN M.tasks
        /\ M.tasks[Key(projects[i].id, a)] = projects[i].plan.tasks[a]
  BY MergedTasks
<1>4. \A key \in DOMAIN M.tasks : \E i \in DOMAIN projects :
        \E a \in DOMAIN projects[i].plan.tasks : key = Key(projects[i].id, a)
  BY MergedTasks
<1>5. \A k \in DOMAIN external : \E m \in DOMAIN M.links : M.links[m] = Across(external[k])
  <2>1. PICK N : N = M
    OBVIOUS
  <2>2. Carried(projects, external, N)
    BY <2>1, MergedLinks
  <2> HIDE DEF M
  <2> QED BY <2>1, <2>2 DEF Carried
<1>6. ASSUME NEW i \in DOMAIN projects
      PROVE  /\ \A a \in DOMAIN projects[i].plan.tasks : dates[i][a] = start[Key(projects[i].id, a)]
             /\ dates[i] = [a \in DOMAIN projects[i].plan.tasks |-> dates[i][a]]
             /\ Meets(projects[i].plan, dates[i])
             /\ (\A k \in DOMAIN external : external[k].to[1] # projects[i].id)
                  => Tight(projects[i].plan, dates[i])
  <2>1. dates[i] = [a \in DOMAIN projects[i].plan.tasks |-> start[Key(projects[i].id, a)]]
    OBVIOUS
  <2>2. PICK s : s = EarlyStarts(Merged(projects, external))
    OBVIOUS
  <2>3. start = s
    BY <2>2
  <2> HIDE DEF start
  <2>4. PICK h : h = dates[i]
    OBVIOUS
  <2> HIDE DEF dates
  <2>5. h = [a \in DOMAIN projects[i].plan.tasks |-> s[Key(projects[i].id, a)]]
    BY <2>1, <2>3, <2>4
  <2>6. Meets(projects[i].plan, h)
    BY <2>2, <2>5, ProjectsMeet
  <2>7. ASSUME \A k \in DOMAIN external : external[k].to[1] # projects[i].id
        PROVE  Tight(projects[i].plan, h)
    BY <2>2, <2>5, <2>7, ProjectsTight
  <2> QED BY <2>1, <2>4, <2>6, <2>7
<1> HIDE DEF M
<1>7. start = [key \in DOMAIN M.tasks |-> start[key]] /\ \A key \in DOMAIN M.tasks : start[key] \in Int
  BY <1>2, EarlyStartsAre DEF Meets
<1> HIDE DEF start
<1> HIDE DEF dates
<1>8. ASSUME NEW i \in DOMAIN projects
      PROVE  /\ \A a \in DOMAIN Standalone(projects[i]) : Standalone(projects[i])[a] <= dates[i][a]
             /\ \/ \E k \in DOMAIN external : external[k].to[1] = projects[i].id
                \/ dates[i] = Standalone(projects[i])
  <2>1. PICK plan, alone, h : /\ plan = projects[i].plan /\ h = dates[i]
                              /\ alone = Standalone(projects[i])
    OBVIOUS
  <2>2. /\ IsPlan(plan)
        /\ alone = [a \in DOMAIN plan.tasks |-> alone[a]]
        /\ Meets(plan, alone) /\ Tight(plan, alone)
    BY <1>2, <2>1, EarlyStartsAre DEF Standalone
  <2>3. h = [a \in DOMAIN plan.tasks |-> h[a]] /\ Meets(plan, h)
    BY <1>6, <2>1
  <2>4. \A a \in DOMAIN plan.tasks : alone[a] \in Int /\ h[a] \in Int
    BY <2>2, <2>3 DEF Meets
  <2>5. \A a \in DOMAIN plan.tasks : alone[a] <= h[a]
    BY <2>2, <2>3, <2>4, TightIsLeast
  <2>6. ASSUME \A k \in DOMAIN external : external[k].to[1] # projects[i].id PROVE h = alone
    <3>1. Tight(plan, h)
      BY <1>6, <2>1, <2>6
    <3>2. \A a \in DOMAIN plan.tasks : h[a] <= alone[a]
      BY <2>2, <2>4, <3>1, TightIsLeast
    <3>3. \A a \in DOMAIN plan.tasks : h[a] = alone[a]
      BY <2>4, <2>5, <3>2
    <3> QED BY <2>2, <2>3, <3>3
  <2>7. DOMAIN alone = DOMAIN plan.tasks
    BY <2>2
  <2> QED BY <2>1, <2>5, <2>6, <2>7
<1>9. ASSUME NEW k \in DOMAIN external, NEW i \in DOMAIN projects, NEW j \in DOMAIN projects,
             external[k].from[1] = projects[i].id, external[k].to[1] = projects[j].id
      PROVE  dates[i][external[k].from[2]]
               + (IF external[k].type \in {"FS", "FF"}
                  THEN projects[i].plan.tasks[external[k].from[2]].dur ELSE 0)
               + external[k].lag
             <= dates[j][external[k].to[2]]
                  + (IF external[k].type \in {"FF", "SF"}
                     THEN projects[j].plan.tasks[external[k].to[2]].dur ELSE 0)
  <2>1. PICK m \in DOMAIN M.links : M.links[m] = Across(external[k])
    BY <1>5
  <2>2. PICK a, b, type, lag : /\ a = external[k].from[2] /\ b = external[k].to[2]
                               /\ type = external[k].type /\ lag = external[k].lag
    OBVIOUS
  <2>3. a \in DOMAIN projects[i].plan.tasks /\ b \in DOMAIN projects[j].plan.tasks
    <3>1. InProjects(projects, external[k].from) /\ InProjects(projects, external[k].to)
      BY DEF CanMerge
    <3>2. PICK x \in DOMAIN projects : projects[x].id = external[k].from[1] /\ a \in DOMAIN projects[x].plan.tasks
      BY <2>2, <3>1 DEF InProjects
    <3>3. PICK y \in DOMAIN projects : projects[y].id = external[k].to[1] /\ b \in DOMAIN projects[y].plan.tasks
      BY <2>2, <3>1 DEF InProjects
    <3>4. x = i /\ y = j
      BY <1>9, <3>2, <3>3 DEF CanMerge
    <3> QED BY <3>2, <3>3, <3>4
  <2>4. /\ M.links[m].pred = Key(projects[i].id, a) /\ M.links[m].succ = Key(projects[j].id, b)
        /\ M.links[m].type = type /\ M.links[m].lag = lag
    BY <1>9, <2>1, <2>2 DEF Across
  <2>5. /\ dates[i][a] = start[M.links[m].pred] /\ dates[j][b] = start[M.links[m].succ]
    <3>1. dates[i][a] = start[Key(projects[i].id, a)] /\ dates[j][b] = start[Key(projects[j].id, b)]
      BY <1>6, <2>3, Zenon
    <3> QED BY <2>4, <3>1
  <2>6. /\ M.tasks[M.links[m].pred].dur = projects[i].plan.tasks[a].dur
        /\ M.tasks[M.links[m].succ].dur = projects[j].plan.tasks[b].dur
    BY <1>3, <2>3, <2>4
  <2>7. PICK p, q, s, t : /\ p = projects[i].plan.tasks[a].dur /\ q = projects[j].plan.tasks[b].dur
                          /\ s = start[M.links[m].pred] /\ t = start[M.links[m].succ]
    OBVIOUS
  <2>8. /\ p \in Nat /\ q \in Nat /\ s \in Int /\ t \in Int /\ lag \in Int
    <3>1. p \in Nat /\ q \in Nat
      BY <1>2, <2>3, <2>7, InPlan
    <3>2. M.links[m].pred \in DOMAIN M.tasks /\ M.links[m].succ \in DOMAIN M.tasks /\ lag \in Int
      BY <1>2, <2>4, InPlan
    <3> QED BY <1>7, <2>7, <3>1, <3>2
  <2>9. s + Off(M, m) <= t
    BY <1>2, <2>7 DEF Meets
  <2>10. Off(M, m) = (IF type \in {"FS", "FF"} THEN p ELSE 0) + lag
                       - (IF type \in {"FF", "SF"} THEN q ELSE 0)
    BY <2>4, <2>6, <2>7, <2>8 DEF Off, StartBound
  <2>11. s + (IF type \in {"FS", "FF"} THEN p ELSE 0) + lag
           <= t + (IF type \in {"FF", "SF"} THEN q ELSE 0)
    BY <2>8, <2>9, <2>10
  <2> QED BY <2>2, <2>5, <2>7, <2>11
<1>10. r.end = Max({r.ends[i] : i \in DOMAIN r.ends})
  <2>1. PICK X : X = {ends[i] : i \in DOMAIN projects}
    OBVIOUS
  <2>2. PICK e : e = ProjectEnd(M, start)
    OBVIOUS
  <2>3. /\ e \in Int
        /\ \A key \in DOMAIN M.tasks : start[key] + M.tasks[key].dur <= e
        /\ \E key \in DOMAIN M.tasks : start[key] + M.tasks[key].dur = e
    BY <1>2, <1>7, <2>2, EndIs
  <2>4. ASSUME NEW i \in DOMAIN projects
        PROVE  /\ ends[i] \in Int /\ ends[i] <= e
               /\ \A a \in DOMAIN projects[i].plan.tasks :
                    dates[i][a] + projects[i].plan.tasks[a].dur <= ends[i]
    <3>1. PICK plan, h : plan = projects[i].plan /\ h = dates[i]
      OBVIOUS
    <3>2. IsPlan(plan) /\ \A a \in DOMAIN plan.tasks : h[a] \in Int
      BY <1>2, <1>6, <3>1 DEF Meets
    <3>3. PICK f : f = ProjectEnd(plan, h)
      OBVIOUS
    <3>4. /\ f \in Int
          /\ \A a \in DOMAIN plan.tasks : h[a] + plan.tasks[a].dur <= f
          /\ \E a \in DOMAIN plan.tasks : h[a] + plan.tasks[a].dur = f
      BY <3>2, <3>3, EndIs
    <3>5. ends[i] = f
      BY <3>1, <3>3
    <3>6. f <= e
      <4>1. PICK a \in DOMAIN plan.tasks : h[a] + plan.tasks[a].dur = f
        BY <3>4
      <4>2. /\ Key(projects[i].id, a) \in DOMAIN M.tasks
            /\ M.tasks[Key(projects[i].id, a)] = plan.tasks[a]
            /\ h[a] = start[Key(projects[i].id, a)]
        BY <1>3, <1>6, <3>1, <4>1
      <4> QED BY <2>3, <4>1, <4>2
    <3> HIDE DEF ends
    <3> QED BY <3>1, <3>4, <3>5, <3>6
  <2>5. e \in X
    <3>1. PICK key \in DOMAIN M.tasks : start[key] + M.tasks[key].dur = e
      BY <2>3
    <3>2. PICK i \in DOMAIN projects : \E a \in DOMAIN projects[i].plan.tasks : key = Key(projects[i].id, a)
      BY <1>4, <3>1
    <3>3. PICK a \in DOMAIN projects[i].plan.tasks : key = Key(projects[i].id, a)
      BY <3>2
    <3>4. dates[i][a] = start[key] /\ M.tasks[key] = projects[i].plan.tasks[a]
      BY <1>3, <1>6, <3>3
    <3>5. dates[i][a] + projects[i].plan.tasks[a].dur = e
      BY <3>1, <3>4
    <3>6. e <= ends[i] /\ ends[i] <= e /\ ends[i] \in Int
      BY <2>4, <3>3, <3>5
    <3>7. e = ends[i]
      <4> HIDE DEF ends
      <4> QED BY <2>3, <3>6
    <3> QED BY <2>1, <3>7
  <2>6. \A x \in X : x \in Int /\ x <= e
    BY <2>1, <2>4
  <2>7. Max(X) = e
    BY <2>3, <2>5, <2>6, MaxKnown
  <2>8. X = {r.ends[i] : i \in DOMAIN r.ends}
    BY <1>1, <2>1
  <2> QED BY <1>1, <2>2, <2>7, <2>8
<1> HIDE DEF ends
<1> QED BY <1>1, <1>8, <1>9, <1>10

\* A programme and its projects agree (portfolio.py:208-319).
THEOREM ProgrammesAgree ==
  StudiesSpec => []ProjectsAgree
<1>1. StudyInv => ProjectsAgree
  <2>1. SUFFICES ASSUME StudyInv, Answered("portfolio") PROVE ProjectsAgree
    BY DEF ProjectsAgree
  <2> DEFINE ps == request.projects
             ext == request.external
             r == answer.result
  <2>3. CanMerge(ps, ext) /\ r = Programme(ps, ext)
    BY <2>1 DEF StudyInv
  <2>4. AreProjects(ps, ext)
    <3>1. request.study = "portfolio"
      BY <2>1 DEF Answered
    <3>2. \E study \in DOMAIN Asked : request \in Asked[study]
      <4>1. request # NothingAsked
        BY <3>1 DEF NothingAsked
      <4> QED BY <2>1, <4>1 DEF StudyInv
    <3>3. IsRequest(request)
      BY <3>2, AskedAssumption
    <3> QED BY <3>1, <3>3 DEF IsRequest, AreProjects
  <2> HIDE DEF ps, ext, r
  <2>5. /\ \A i \in DOMAIN ps :
             /\ \A a \in DOMAIN Standalone(ps[i]) : Standalone(ps[i])[a] <= r.dates[i][a]
             /\ \/ \E k \in DOMAIN ext : ext[k].to[1] = ps[i].id
                \/ r.dates[i] = Standalone(ps[i])
        /\ r.end = Max({r.ends[i] : i \in DOMAIN r.ends})
    BY <2>3, <2>4, ProgrammeAgrees
  <2>6. \A k \in DOMAIN ext : \A i, j \in DOMAIN ps :
          ext[k].from[1] = ps[i].id /\ ext[k].to[1] = ps[j].id =>
            r.dates[i][ext[k].from[2]]
              + (IF ext[k].type \in {"FS", "FF"} THEN ps[i].plan.tasks[ext[k].from[2]].dur ELSE 0)
              + ext[k].lag
            <= r.dates[j][ext[k].to[2]]
                 + (IF ext[k].type \in {"FF", "SF"} THEN ps[j].plan.tasks[ext[k].to[2]].dur ELSE 0)
    BY <2>3, <2>4, ProgrammeAgrees
  <2> DEFINE index(p) == CHOOSE i \in DOMAIN ps : ps[i].id = p
  <2>7. \A i \in DOMAIN ps : index(ps[i].id) = i
    <3>1. SUFFICES ASSUME NEW i \in DOMAIN ps PROVE index(ps[i].id) = i
      OBVIOUS
    <3>2. \A j \in DOMAIN ps : ps[j].id = ps[i].id => j = i
      BY <2>3 DEF CanMerge
    <3> QED BY <3>2
  <2>8. \A k \in DOMAIN ext : \E i, j \in DOMAIN ps : ext[k].from[1] = ps[i].id /\ ext[k].to[1] = ps[j].id
    BY <2>3 DEF CanMerge, InProjects
  <2> HIDE DEF index
  <2> DEFINE at(e) == r.dates[index(e[1])][e[2]]
             dur(e) == ps[index(e[1])].plan.tasks[e[2]].dur
  <2>9. ASSUME NEW k \in DOMAIN ext
        PROVE  at(ext[k].from) + (IF ext[k].type \in {"FS", "FF"} THEN dur(ext[k].from) ELSE 0) + ext[k].lag
               <= at(ext[k].to) + (IF ext[k].type \in {"FF", "SF"} THEN dur(ext[k].to) ELSE 0)
    <3>1. PICK i, j \in DOMAIN ps : ext[k].from[1] = ps[i].id /\ ext[k].to[1] = ps[j].id
      BY <2>8
    <3>2. index(ext[k].from[1]) = i /\ index(ext[k].to[1]) = j
      BY <2>7, <3>1
    <3> QED BY <2>6, <3>1, <3>2
  <2>10. ASSUME NEW i \in DOMAIN ps
         PROVE  (\E k \in DOMAIN ext : index(ext[k].to[1]) = i) \/ r.dates[i] = Standalone(ps[i])
    <3>1. ASSUME NEW k \in DOMAIN ext, ext[k].to[1] = ps[i].id PROVE index(ext[k].to[1]) = i
      BY <2>7, <3>1
    <3> QED BY <2>5, <3>1
  <2>11. /\ \A k \in DOMAIN ext :
              at(ext[k].from) + (IF ext[k].type \in {"FS", "FF"} THEN dur(ext[k].from) ELSE 0) + ext[k].lag
                <= at(ext[k].to) + (IF ext[k].type \in {"FF", "SF"} THEN dur(ext[k].to) ELSE 0)
         /\ \A i \in DOMAIN ps :
              LET alone == Standalone(ps[i])
              IN  /\ \A a \in DOMAIN alone : alone[a] <= r.dates[i][a]
                  /\ (\E k \in DOMAIN ext : index(ext[k].to[1]) = i) \/ r.dates[i] = alone
         /\ r.end = Max({r.ends[i] : i \in DOMAIN r.ends})
    BY <2>5, <2>9, <2>10
  <2> QED BY <2>11 DEF ProjectsAgree, index, ps, ext, r
<1> QED BY <1>1, StudyInvHolds, PTL

-----------------------------------------------------------------------------
\* Sums of days.

\* A total is the sum of its numbers, in whatever order they are added.
LEMMA TotalIsASum ==
  ASSUME NEW of
  PROVE  Total(of) = SumOver(of, DOMAIN of)
BY DEF Total, MapThenSumSet, MapThenFoldSet, SumOver, IsTally, Chosen

\* One number is its own sum.
LEMMA SumOfOne ==
  ASSUME NEW w, NEW x, w[x] \in Int
  PROVE  SumOver(w, {x}) = w[x]
<1>1. IsFiniteSet({x}) /\ \A y \in {x} : w[y] \in Int
  BY FS_Singleton
<1>2. SumOver(w, {x}) = SumOver(w, {x} \ {x}) + w[x]
  BY <1>1, SumTakesAny
<1>3. SumOver(w, {x} \ {x}) = 0
  <2>1. {x} \ {x} = {}
    OBVIOUS
  <2> QED BY <2>1, SumOfNone
<1> QED BY <1>2, <1>3

\* The same numbers under other names have the same sum.
LEMMA SumUnderOtherNames ==
  ASSUME NEW w, NEW S, IsFiniteSet(S), \A x \in S : w[x] \in Int,
         NEW v, NEW T, NEW g, DOMAIN g = S, T = {g[x] : x \in S},
         \A x, y \in S : g[x] = g[y] => x = y,
         \A x \in S : v[g[x]] = w[x]
  PROVE  SumOver(v, T) = SumOver(w, S) /\ IsFiniteSet(T)
<1>1. IsFiniteSet(T)
  <2>1. IsFiniteSet({g[x] : x \in S})
    BY FinitelyMany
  <2> QED BY <2>1
<1>2. PICK class : class = [c \in T |-> {x \in S : g[x] = c}]
  OBVIOUS
<1>3. \A c \in T : \A x : x \in class[c] <=> x \in S /\ g[x] = c
  BY <1>2
<1>4. \A c \in T : v[c] = SumOver(w, class[c])
  <2>1. SUFFICES ASSUME NEW c \in T PROVE v[c] = SumOver(w, class[c])
    OBVIOUS
  <2>2. PICK x \in S : c = g[x]
    OBVIOUS
  <2>3. class[c] = {x}
    BY <1>3, <2>2
  <2>4. SumOver(w, {x}) = w[x]
    BY SumOfOne
  <2> QED BY <2>2, <2>3, <2>4
<1>5. \A x \in S : g[x] \in T
  OBVIOUS
<1>6. SumOver(v, T) = SumOver(w, S)
  BY <1>1, <1>3, <1>4, <1>5, SumByParts
<1> QED BY <1>1, <1>6

-----------------------------------------------------------------------------
\* What a move of the finish is put down to.

\* The entries whose current activity is on the driving path and had a counterpart.
Walked(pairs, path) ==
  {e \in pairs : /\ \E i \in DOMAIN path : e.key = <<"plain", path[i]>>
                 /\ e.base # Absent /\ e.curr # Absent}

\* What is found on the path.
FoundOn(base, curr, pairs, path) ==
  UNION {FromActivity(base, curr, e) \cup FromLinks(base, curr, e, path) : e \in Walked(pairs, path)}

\* The contribution of a cause: an activity's, or a link's into it.
Contribution(base, curr, b, c, cause, k) ==
  [act |-> c, cause |-> cause, link |-> k,
   days |-> IF cause = "duration_growth" THEN curr.tasks[c].dur - base.tasks[b].dur
            ELSE IF cause = "lag_growth"
            THEN curr.links[k].lag - (CHOOSE lag \in BaseLag(base, b, curr.links[k]) : TRUE)
            ELSE 0]

Causes == {"duration_growth", "constraint_imposed", "lag_growth", "logic_added"}

\* Attribution is what is found and what is left over.
LEMMA AttributionIs ==
  ASSUME NEW old, NEW new, NEW pairs, NEW was, NEW path
  PROVE  \E switched :
           Attribution(old, new, pairs, was, path)
             = FoundOn(old.plan, new.plan, pairs, path)
               \cup Residual(new.end - old.end, FoundOn(old.plan, new.plan, pairs, path), switched)
<1> DEFINE elements(p) == {p[i] : i \in DOMAIN p}
           switched == elements(was) # elements(path)
           onPath(e) == \E i \in DOMAIN path : e.key = <<"plain", path[i]>>
<1>1. {e \in pairs : onPath(e) /\ e.base # Absent /\ e.curr # Absent} = Walked(pairs, path)
  BY DEF Walked
<1>2. UNION {FromActivity(old.plan, new.plan, e) \cup FromLinks(old.plan, new.plan, e, path) :
               e \in {e \in pairs : onPath(e) /\ e.base # Absent /\ e.curr # Absent}}
      = FoundOn(old.plan, new.plan, pairs, path)
  <2> HIDE DEF onPath
  <2> QED BY <1>1 DEF FoundOn
<1>3. Attribution(old, new, pairs, was, path)
        = FoundOn(old.plan, new.plan, pairs, path)
          \cup Residual(new.end - old.end, FoundOn(old.plan, new.plan, pairs, path), switched)
  BY <1>2 DEF Attribution
<1> QED BY <1>3

\* An entry names an activity of a side or none.
LEMMA EntryEnds ==
  ASSUME NEW base, NEW curr, NEW match, NEW e \in Pairs(base, curr, match)
  PROVE  /\ e.base # Absent => e.base \in DOMAIN base.tasks
         /\ e.curr # Absent => e.curr \in DOMAIN curr.tasks
<1>1. PICK i : e \in EntriesOf(base, curr, match, i)
  BY DEF Pairs
<1>2. PICK olds, news : olds = Holders(base, match, i) /\ news = Holders(curr, match, i)
  OBVIOUS
<1>3. olds \subseteq DOMAIN base.tasks /\ news \subseteq DOMAIN curr.tasks
  BY <1>2 DEF Holders
<1>4. PICK b, c : b = Only(olds) /\ c = Only(news)
  OBVIOUS
<1>5. b = Absent \/ b \in olds
  BY <1>4 DEF Only
<1>6. c = Absent \/ c \in news
  BY <1>4 DEF Only
<1>7. \/ \E a \in olds : e = [key |-> <<"baseline", a>>, identity |-> i, base |-> a, curr |-> Absent]
      \/ \E a \in news : e = [key |-> <<"current", a>>, identity |-> i, base |-> Absent, curr |-> a]
      \/ e = [key |-> <<"plain", IF c # Absent THEN c ELSE b>>, identity |-> i, base |-> b, curr |-> c]
  BY <1>1, <1>2, <1>4 DEF EntriesOf
<1>8. \/ e.base \in olds /\ e.curr = Absent
      \/ e.base = Absent /\ e.curr \in news
      \/ e.base = b /\ e.curr = c
  <2>1. ASSUME NEW a \in olds,
               e = [key |-> <<"baseline", a>>, identity |-> i, base |-> a, curr |-> Absent]
        PROVE  e.base \in olds /\ e.curr = Absent
    BY <2>1
  <2>2. ASSUME NEW a \in news,
               e = [key |-> <<"current", a>>, identity |-> i, base |-> Absent, curr |-> a]
        PROVE  e.base = Absent /\ e.curr \in news
    BY <2>2
  <2>3. ASSUME e = [key |-> <<"plain", IF c # Absent THEN c ELSE b>>, identity |-> i, base |-> b, curr |-> c]
        PROVE  e.base = b /\ e.curr = c
    BY <2>3
  <2> QED BY <1>7, <2>1, <2>2, <2>3
<1> QED BY <1>3, <1>5, <1>6, <1>8

\* A lag of the baseline is a number.
LEMMA LagIs ==
  ASSUME NEW base, IsPlan(base), NEW b, NEW l, BaseLag(base, b, l) # {}
  PROVE  (CHOOSE lag \in BaseLag(base, b, l) : TRUE) \in Int
<1>1. PICK alike : alike = {k \in Into(base, b) : base.links[k].pred = l.pred /\ base.links[k].type = l.type}
  OBVIOUS
<1>2. alike \in SUBSET DOMAIN base.links /\ IsFiniteSet(DOMAIN base.links)
  BY <1>1, InPlan DEF Into
<1>3. DOMAIN base.links \in SUBSET Int
  <2>1. PICK Y, s : s = base.links /\ s \in Seq(Y)
    BY DEF IsPlan
  <2> QED BY <2>1
<1>4. alike # {} /\ BaseLag(base, b, l) = {base.links[Max(alike)].lag}
  BY <1>1 DEF BaseLag
<1>5. Max(alike) \in alike
  BY <1>2, <1>3, <1>4, FS_Subset, MaxIs
<1>6. base.links[Max(alike)].lag \in Int
  BY <1>2, <1>5, InPlan
<1> QED BY <1>4, <1>6

\* What an activity of the path contributes.
LEMMA ContributionIs ==
  ASSUME NEW base, NEW curr, IsPlan(base), IsPlan(curr), NEW path,
         NEW e, e.base \in DOMAIN base.tasks, e.curr \in DOMAIN curr.tasks,
         NEW x \in FromActivity(base, curr, e) \cup FromLinks(base, curr, e, path)
  PROVE  /\ x = Contribution(base, curr, e.base, e.curr, x.cause, x.link)
         /\ x.act = e.curr /\ x.days \in Int /\ x.cause \in Causes
         /\ x.link \in DOMAIN curr.links \cup {0}
<1>1. CASE x \in FromActivity(base, curr, e)
  <2>1. PICK c \in {"duration_growth", "constraint_imposed"} :
          x = [act |-> e.curr, cause |-> c, link |-> 0,
               days |-> IF c = "duration_growth"
                        THEN curr.tasks[e.curr].dur - base.tasks[e.base].dur ELSE 0]
    BY <1>1 DEF FromActivity
  <2>2. curr.tasks[e.curr].dur \in Int /\ base.tasks[e.base].dur \in Int
    BY InPlan
  <2>3. x.act = e.curr /\ x.cause = c /\ x.link = 0
    BY <2>1
  <2>4. x = Contribution(base, curr, e.base, e.curr, c, 0)
    BY <2>1 DEF Contribution
  <2>5. x.days \in Int
    BY <2>1, <2>2
  <2> QED BY <2>3, <2>4, <2>5 DEF Causes
<1>2. CASE x \notin FromActivity(base, curr, e)
  <2>0. x \in FromLinks(base, curr, e, path)
    BY <1>2
  <2>1. \/ \E k \in Into(curr, e.curr) :
             /\ \E lag \in BaseLag(base, e.base, curr.links[k]) : lag # curr.links[k].lag
             /\ x = [act |-> e.curr, cause |-> "lag_growth", link |-> k,
                     days |-> curr.links[k].lag
                                - (CHOOSE lag \in BaseLag(base, e.base, curr.links[k]) : TRUE)]
        \/ \E k \in Into(curr, e.curr) :
             x = [act |-> e.curr, cause |-> "logic_added", link |-> k, days |-> 0]
    BY <2>0 DEF FromLinks
  <2>2. CASE \E k \in Into(curr, e.curr) :
             x = [act |-> e.curr, cause |-> "logic_added", link |-> k, days |-> 0]
    <3>1. PICK k \in Into(curr, e.curr) :
             x = [act |-> e.curr, cause |-> "logic_added", link |-> k, days |-> 0]
      BY <2>2
    <3>2. x.act = e.curr /\ x.cause = "logic_added" /\ x.link = k /\ x.days = 0
      BY <3>1
    <3>3. x = Contribution(base, curr, e.base, e.curr, "logic_added", k)
      BY <3>1 DEF Contribution
    <3> QED BY <3>2, <3>3 DEF Causes, Into
  <2>3. CASE ~\E k \in Into(curr, e.curr) :
             x = [act |-> e.curr, cause |-> "logic_added", link |-> k, days |-> 0]
    <3>1. PICK k \in Into(curr, e.curr) :
             /\ \E lag \in BaseLag(base, e.base, curr.links[k]) : lag # curr.links[k].lag
             /\ x = [act |-> e.curr, cause |-> "lag_growth", link |-> k,
                     days |-> curr.links[k].lag
                                - (CHOOSE lag \in BaseLag(base, e.base, curr.links[k]) : TRUE)]
      BY <2>1, <2>3
    <3>2. PICK lag : lag = (CHOOSE was \in BaseLag(base, e.base, curr.links[k]) : TRUE)
      OBVIOUS
    <3>3. lag \in Int
      BY <3>1, <3>2, LagIs
    <3>4. k \in DOMAIN curr.links /\ curr.links[k].lag \in Int
      BY <3>1, InPlan DEF Into
    <3>5. x = [act |-> e.curr, cause |-> "lag_growth", link |-> k, days |-> curr.links[k].lag - lag]
      BY <3>1, <3>2
    <3>6. x.act = e.curr /\ x.cause = "lag_growth" /\ x.link = k /\ x.days \in Int
      BY <3>3, <3>4, <3>5
    <3>7. x = Contribution(base, curr, e.base, e.curr, "lag_growth", k)
      BY <3>2, <3>5 DEF Contribution
    <3> QED BY <3>4, <3>6, <3>7 DEF Causes
  <2> QED BY <2>2, <2>3
<1> QED BY <1>1, <1>2

\* There are finitely many of them, and each has its days.
LEMMA FoundIs ==
  ASSUME NEW base, NEW curr, IsPlan(base), IsPlan(curr), NEW match, NEW path,
         NEW found, found = FoundOn(base, curr, Pairs(base, curr, match), path)
  PROVE  /\ IsFiniteSet(found)
         /\ \A x \in found :
              /\ x.days \in Int /\ x.cause \in Causes /\ x.act \in DOMAIN curr.tasks
              /\ \E e \in Walked(Pairs(base, curr, match), path) :
                   /\ e.base \in DOMAIN base.tasks /\ e.curr = x.act
                   /\ x \in FromActivity(base, curr, e) \cup FromLinks(base, curr, e, path)
<1> DEFINE pairs == Pairs(base, curr, match)
<1>1. ASSUME NEW x \in found
      PROVE  \E e \in Walked(pairs, path) :
               /\ e.base \in DOMAIN base.tasks /\ e.curr \in DOMAIN curr.tasks
               /\ x \in FromActivity(base, curr, e) \cup FromLinks(base, curr, e, path)
  <2>1. PICK e \in Walked(pairs, path) :
               x \in FromActivity(base, curr, e) \cup FromLinks(base, curr, e, path)
    BY DEF FoundOn
  <2>2. e \in pairs /\ e.base # Absent /\ e.curr # Absent
    BY DEF Walked
  <2>3. e.base \in DOMAIN base.tasks /\ e.curr \in DOMAIN curr.tasks
    BY <2>2, EntryEnds
  <2> QED BY <2>1, <2>3
<1> HIDE DEF pairs
<1>2. ASSUME NEW x \in found
      PROVE  /\ x.days \in Int /\ x.cause \in Causes /\ x.act \in DOMAIN curr.tasks
             /\ \E e \in Walked(pairs, path) :
                  /\ e.base \in DOMAIN base.tasks /\ e.curr = x.act
                  /\ x \in FromActivity(base, curr, e) \cup FromLinks(base, curr, e, path)
             /\ \E b \in DOMAIN base.tasks : \E k \in DOMAIN curr.links \cup {0} :
                  x = Contribution(base, curr, b, x.act, x.cause, k)
  <2>1. PICK e \in Walked(pairs, path) :
               /\ e.base \in DOMAIN base.tasks /\ e.curr \in DOMAIN curr.tasks
               /\ x \in FromActivity(base, curr, e) \cup FromLinks(base, curr, e, path)
    BY <1>1
  <2>2. /\ x = Contribution(base, curr, e.base, e.curr, x.cause, x.link)
        /\ x.act = e.curr /\ x.days \in Int /\ x.cause \in Causes
        /\ x.link \in DOMAIN curr.links \cup {0}
    BY <2>1, ContributionIs
  <2> QED BY <2>1, <2>2
<1>3. IsFiniteSet(found)
  <2>1. PICK K : K = DOMAIN curr.links \cup {0}
    OBVIOUS
  <2>2. PICK D : D = (((DOMAIN base.tasks) \X (DOMAIN curr.tasks)) \X Causes) \X K
    OBVIOUS
  <2>3. IsFiniteSet(D)
    <3>1. IsFiniteSet(DOMAIN base.tasks) /\ IsFiniteSet(DOMAIN curr.tasks) /\ IsFiniteSet(DOMAIN curr.links)
      BY InPlan
    <3>2. IsFiniteSet(K)
      BY <2>1, <3>1, FS_AddElement
    <3>3. IsFiniteSet(Causes)
      <4>1. IsFiniteSet({"duration_growth"} \cup {"constraint_imposed"})
        BY FS_Singleton, FS_AddElement
      <4>2. IsFiniteSet(({"duration_growth"} \cup {"constraint_imposed"}) \cup {"lag_growth"})
        BY <4>1, FS_AddElement
      <4>3. IsFiniteSet((({"duration_growth"} \cup {"constraint_imposed"}) \cup {"lag_growth"})
                          \cup {"logic_added"})
        BY <4>2, FS_AddElement
      <4>4. Causes = (({"duration_growth"} \cup {"constraint_imposed"}) \cup {"lag_growth"})
                       \cup {"logic_added"}
        BY DEF Causes
      <4> QED BY <4>3, <4>4
    <3>4. IsFiniteSet((DOMAIN base.tasks) \X (DOMAIN curr.tasks))
      BY <3>1, FS_Product
    <3>5. IsFiniteSet(((DOMAIN base.tasks) \X (DOMAIN curr.tasks)) \X Causes)
      BY <3>3, <3>4, FS_Product
    <3> QED BY <2>2, <3>2, <3>5, FS_Product
  <2>4. PICK F : F = [d \in D |-> Contribution(base, curr, d[1][1][1], d[1][1][2], d[1][2], d[2])]
    OBVIOUS
  <2>5. IsFiniteSet({F[d] : d \in D})
    BY <2>3, <2>4, FinitelyMany
  <2>6. found \subseteq {F[d] : d \in D}
    <3>1. SUFFICES ASSUME NEW x \in found PROVE \E d \in D : x = F[d]
      OBVIOUS
    <3>2. PICK b \in DOMAIN base.tasks, k \in K : x = Contribution(base, curr, b, x.act, x.cause, k)
      BY <1>2, <2>1
    <3>3. PICK c, cause : c = x.act /\ cause = x.cause /\ c \in DOMAIN curr.tasks /\ cause \in Causes
      BY <1>2
    <3>4. PICK d : d = <<<<<<b, c>>, cause>>, k>>
      OBVIOUS
    <3>5. d \in D
      BY <2>2, <3>2, <3>3, <3>4
    <3>6. d[1][1][1] = b /\ d[1][1][2] = c /\ d[1][2] = cause /\ d[2] = k
      BY <3>4
    <3>7. F[d] = Contribution(base, curr, b, c, cause, k)
      BY <2>4, <3>5, <3>6
    <3> QED BY <3>2, <3>3, <3>5, <3>7
  <2> QED BY <2>5, <2>6, FS_Subset
<1> QED BY <1>2, <1>3 DEF pairs

\* A move of the finish is put down to what was found and to one thing more at most.
PutDown(attr, found, move) ==
  /\ IsFiniteSet(attr) /\ attr # {} /\ \A x \in attr : x.days \in Int
  /\ DaysIn(attr) = move
  /\ found \subseteq attr
  /\ \A x \in attr : x \in found \/ x.cause \in {"path_switch", "unexplained"}
  /\ \A x, y \in attr : x \in found \/ y \in found \/ x = y

\* The days put down to causes add up to the move, and what no cause explains is
\* one contribution.
LEMMA AttributionAddsUp ==
  ASSUME NEW old, NEW new, IsListed(old.plan), IsListed(new.plan),
         old.end \in Int, new.end \in Int, NEW match, NEW was, NEW path,
         NEW attr, attr = Attribution(old, new, Pairs(old.plan, new.plan, match), was, path),
         NEW found, found = FoundOn(old.plan, new.plan, Pairs(old.plan, new.plan, match), path)
  PROVE  PutDown(attr, found, new.end - old.end)
<1> DEFINE move == new.end - old.end
<1>0. move \in Int
  OBVIOUS
<1>1. PICK switched : attr = found \cup Residual(move, found, switched)
  BY AttributionIs
<1> HIDE DEF move
<1>2. IsPlan(old.plan) /\ IsPlan(new.plan) /\ Absent \notin DOMAIN new.plan.tasks
  BY DEF IsListed
<1>3. /\ IsFiniteSet(found)
      /\ \A x \in found : x.days \in Int /\ x.cause \in Causes /\ x.act \in DOMAIN new.plan.tasks
  BY <1>2, FoundIs
<1>4. DaysIn(found) = SumOver([c \in found |-> c.days], found) /\ DaysIn(found) \in Int
  <2>1. PICK w : w = [c \in found |-> c.days]
    OBVIOUS
  <2>2. DaysIn(found) = SumOver(w, DOMAIN w) /\ DOMAIN w = found
    BY <2>1, TotalIsASum DEF DaysIn
  <2>3. \A x \in found : w[x] \in Int
    BY <1>3, <2>1
  <2>4. SumOver(w, found) \in Int
    BY <1>3, <2>3, SumIsWhole
  <2> QED BY <2>1, <2>2, <2>4
<1>5. PICK w : w = [c \in attr |-> c.days]
  OBVIOUS
<1>6. DaysIn(attr) = SumOver(w, attr)
  BY <1>5, TotalIsASum DEF DaysIn
<1>7. SumOver(w, found) = DaysIn(found)
  <2>1. PICK v : v = [c \in found |-> c.days]
    OBVIOUS
  <2>2. \A x \in found : w[x] = v[x]
    BY <1>1, <1>5, <2>1
  <2> QED BY <1>3, <1>4, <2>1, <2>2, SumAgrees
<1>8. CASE move # DaysIn(found) \/ found = {}
  <2>1. PICK x : x = [act |-> Absent, cause |-> IF switched THEN "path_switch" ELSE "unexplained",
                      link |-> 0, days |-> move - DaysIn(found)]
    OBVIOUS
  <2>2. Residual(move, found, switched) = {x}
    BY <1>8, <2>1 DEF Residual
  <2>3. /\ x.act = Absent /\ x.days = move - DaysIn(found)
        /\ x.cause = IF switched THEN "path_switch" ELSE "unexplained"
    BY <2>1
  <2>4. x.cause \in {"path_switch", "unexplained"}
    BY <2>3
  <2>5. attr = found \cup {x} /\ x \notin found
    BY <1>1, <1>2, <1>3, <2>2, <2>3
  <2>6. IsFiniteSet(attr)
    BY <1>3, <2>5, FS_AddElement
  <2>7. \A y \in attr : y.days \in Int /\ w[y] \in Int /\ w[y] = y.days
    BY <1>0, <1>3, <1>4, <1>5, <2>3, <2>5
  <2>8. SumOver(w, attr) = SumOver(w, attr \ {x}) + w[x]
    BY <2>5, <2>6, <2>7, SumTakesAny
  <2>9. attr \ {x} = found /\ w[x] = move - DaysIn(found)
    BY <2>3, <2>5, <2>7
  <2>10. SumOver(w, attr) = DaysIn(found) + (move - DaysIn(found))
    BY <1>7, <2>8, <2>9
  <2>11. SumOver(w, attr) = move
    BY <1>0, <1>4, <2>10
  <2>12. \A y \in attr : y \in found \/ y = x
    BY <2>5
  <2>13. DaysIn(attr) = move /\ found \subseteq attr /\ attr # {}
    BY <1>6, <2>5, <2>11
  <2>14. \A y \in attr : y \in found \/ y.cause \in {"path_switch", "unexplained"}
    BY <2>4, <2>12
  <2>15. \A y, z \in attr : y \in found \/ z \in found \/ y = z
    BY <2>12
  <2>16. PutDown(attr, found, move)
    BY <2>6, <2>7, <2>13, <2>14, <2>15 DEF PutDown
  <2> QED BY <2>16 DEF move
<1>9. CASE ~(move # DaysIn(found) \/ found = {})
  <2>1. attr = found /\ found # {} /\ move = DaysIn(found)
    BY <1>1, <1>9 DEF Residual
  <2>2. PutDown(attr, found, move)
    BY <1>3, <2>1 DEF PutDown
  <2> QED BY <2>2 DEF move
<1> QED BY <1>8, <1>9

-----------------------------------------------------------------------------
\* Windows.

\* By cause and by window the same days are added up.
LEMMA CausesAddUp ==
  ASSUME NEW w, NEW n \in Nat, DOMAIN w = 1..n,
         \A i \in 1..n : /\ IsFiniteSet(w[i].attribution) /\ w[i].slip \in Int
                         /\ \A c \in w[i].attribution : c.days \in Int
                         /\ DaysIn(w[i].attribution) = w[i].slip,
         NEW slips, \A i \in 1..n : slips[i] = w[i].slip
  PROVE  Total(ByCause(w)) = SumOver(slips, 1..n)
<1> DEFINE all == {<<i, c>> : i \in DOMAIN w, c \in UNION {w[j].attribution : j \in DOMAIN w}}
           counted == {ic \in all : ic[2] \in w[ic[1]].attribution}
           K == {ic[2].cause : ic \in counted}
           by == [cause \in K |-> Total([ic \in {ic \in counted : ic[2].cause = cause} |-> ic[2].days])]
<1>0. ByCause(w) = by
  BY DEF ByCause
<1>1. \A x : x \in counted <=> \E i \in 1..n : \E c \in w[i].attribution : x = <<i, c>>
  <2>1. ASSUME NEW i \in 1..n, NEW c \in w[i].attribution PROVE <<i, c>> \in counted
    <3>1. c \in UNION {w[j].attribution : j \in DOMAIN w}
      OBVIOUS
    <3>2. <<i, c>> \in all
      BY <3>1
    <3> HIDE DEF all
    <3> QED BY <3>2
  <2>2. ASSUME NEW x \in counted PROVE \E i \in 1..n : \E c \in w[i].attribution : x = <<i, c>>
    <3>1. PICK i \in DOMAIN w, c \in UNION {w[j].attribution : j \in DOMAIN w} : x = <<i, c>>
      OBVIOUS
    <3>2. x[2] \in w[x[1]].attribution
      OBVIOUS
    <3> HIDE DEF counted
    <3> QED BY <3>1, <3>2
  <2> HIDE DEF counted
  <2> QED BY <2>1, <2>2
<1>2. IsFiniteSet(counted)
  <2>1. PICK U : U = UNION {w[j].attribution : j \in DOMAIN w}
    OBVIOUS
  <2>2. PICK N : N = DOMAIN w
    OBVIOUS
  <2>3. IsFiniteSet(N)
    <3>1. 1 \in Int /\ n \in Int
      OBVIOUS
    <3> QED BY <2>2, <3>1, FS_Interval
  <2>4. IsFiniteSet(U)
    <3>1. PICK f : f = [j \in N |-> w[j].attribution]
      OBVIOUS
    <3>2. IsFiniteSet({f[j] : j \in N})
      BY <2>3, <3>1, FinitelyMany
    <3>3. U = UNION {f[j] : j \in N}
      BY <2>1, <2>2, <3>1
    <3>4. \A z \in {f[j] : j \in N} : IsFiniteSet(z)
      BY <2>2, <3>1
    <3> QED BY <3>2, <3>3, <3>4, FS_UNION
  <2>5. IsFiniteSet(N \X U)
    BY <2>3, <2>4, FS_Product
  <2>6. counted \in SUBSET (N \X U)
    <3>1. SUFFICES ASSUME NEW x \in counted PROVE x \in N \X U
      OBVIOUS
    <3> HIDE DEF counted
    <3>2. PICK i \in 1..n : \E c \in w[i].attribution : x = <<i, c>>
      BY <1>1
    <3>3. PICK c \in w[i].attribution : x = <<i, c>>
      BY <3>2
    <3> QED BY <2>1, <2>2, <3>3
  <2> HIDE DEF counted
  <2> QED BY <2>5, <2>6, FS_Subset
<1> HIDE DEF counted
<1>3. PICK d : d = [x \in counted |-> x[2].days]
  OBVIOUS
<1>4. \A x \in counted : /\ d[x] = x[2].days /\ d[x] \in Int
                         /\ x[1] \in 1..n /\ x[2] \in w[x[1]].attribution /\ x = <<x[1], x[2]>>
  <2>1. SUFFICES ASSUME NEW x \in counted
                 PROVE  /\ d[x] = x[2].days /\ d[x] \in Int
                        /\ x[1] \in 1..n /\ x[2] \in w[x[1]].attribution /\ x = <<x[1], x[2]>>
    OBVIOUS
  <2>2. PICK i \in 1..n : \E c \in w[i].attribution : x = <<i, c>>
    BY <1>1
  <2>3. PICK c \in w[i].attribution : x = <<i, c>>
    BY <2>2
  <2>4. x[1] = i /\ x[2] = c
    BY <2>3
  <2> QED BY <1>3, <2>3, <2>4
<1>5. DOMAIN by = K /\ \A x : x \in K <=> \E ic \in counted : x = ic[2].cause
  OBVIOUS
<1>6. PICK class : class = [c \in K |-> {x \in counted : x[2].cause = c}]
  <2> HIDE DEF K
  <2> QED OBVIOUS
<1>7. ASSUME NEW c \in K PROVE by[c] = SumOver(d, class[c])
  <2>1. PICK P : P = {ic \in counted : ic[2].cause = c}
    OBVIOUS
  <2>2. by[c] = Total([ic \in P |-> ic[2].days])
    BY <2>1
  <2>3. P \in SUBSET counted /\ class[c] = P
    BY <1>6, <2>1
  <2>4. IsFiniteSet(P)
    BY <1>2, <2>3, FS_Subset
  <2>5. PICK v : v = [ic \in P |-> ic[2].days]
    OBVIOUS
  <2>6. Total(v) = SumOver(v, P)
    BY <2>5, TotalIsASum
  <2>7. \A x \in P : v[x] = d[x]
    BY <1>3, <2>3, <2>5
  <2>8. SumOver(v, P) = SumOver(d, P)
    BY <2>4, <2>7, SumAgrees
  <2> HIDE DEF by, K
  <2> QED BY <2>2, <2>3, <2>5, <2>6, <2>8
<1>8. IsFiniteSet(K)
  <2>1. PICK f : f = [ic \in counted |-> ic[2].cause]
    OBVIOUS
  <2>2. IsFiniteSet({f[ic] : ic \in counted})
    BY <1>2, <2>1, FinitelyMany
  <2>3. K = {f[ic] : ic \in counted}
    BY <2>1
  <2> QED BY <2>2, <2>3
<1>9. PICK g : g = [x \in counted |-> x[2].cause]
  OBVIOUS
<1>10. /\ \A x \in counted : g[x] \in K
       /\ \A c \in K : \A x : x \in class[c] <=> x \in counted /\ g[x] = c
  BY <1>6, <1>9
<1> HIDE DEF by, K
<1>11. SumOver(by, K) = SumOver(d, counted)
  <2>1. \A x \in counted : d[x] \in Int
    BY <1>4
  <2> QED BY <1>2, <1>7, <1>8, <1>10, <2>1, SumByParts
<1>12. PICK h, window : /\ h = [x \in counted |-> x[1]]
                        /\ window = [i \in 1..n |-> {x \in counted : x[1] = i}]
  OBVIOUS
<1>13. /\ \A x \in counted : h[x] \in 1..n
       /\ \A i \in 1..n : \A x : x \in window[i] <=> x \in counted /\ h[x] = i
  BY <1>4, <1>12
<1>14. ASSUME NEW i \in 1..n PROVE slips[i] = SumOver(d, window[i])
  <2>1. PICK S, v, name, T : /\ S = w[i].attribution /\ v = [c \in w[i].attribution |-> c.days]
                             /\ name = [c \in w[i].attribution |-> <<i, c>>] /\ T = window[i]
    OBVIOUS
  <2>2. IsFiniteSet(S) /\ \A c \in S : v[c] \in Int
    BY <2>1
  <2>3. SumOver(v, S) = slips[i]
    <3>1. DaysIn(S) = Total(v) /\ DOMAIN v = S
      BY <2>1 DEF DaysIn
    <3>2. Total(v) = SumOver(v, S)
      BY <3>1, TotalIsASum
    <3>3. DaysIn(S) = slips[i]
      BY <2>1
    <3> QED BY <3>1, <3>2, <3>3
  <2>4. DOMAIN name = S /\ \A c \in S : name[c] = <<i, c>>
    BY <2>1
  <2>5. T = {name[c] : c \in S}
    <3>1. ASSUME NEW c \in S PROVE name[c] \in T
      <4>1. <<i, c>> \in counted /\ <<i, c>>[1] = i
        BY <1>1, <2>1
      <4> QED BY <1>12, <2>1, <2>4, <4>1
    <3>2. ASSUME NEW x \in T PROVE \E c \in S : x = name[c]
      <4>1. x \in counted /\ x[1] = i
        BY <1>12, <2>1
      <4>2. x[2] \in S /\ x = <<i, x[2]>>
        BY <1>4, <2>1, <4>1
      <4> QED BY <2>4, <4>2
    <3> QED BY <3>1, <3>2
  <2>6. \A x, y \in S : name[x] = name[y] => x = y
    BY <2>4
  <2>7. \A c \in S : d[name[c]] = v[c]
    <3>1. SUFFICES ASSUME NEW c \in S PROVE d[name[c]] = v[c]
      OBVIOUS
    <3>2. <<i, c>> \in counted /\ <<i, c>>[2] = c
      BY <1>1, <2>1
    <3> QED BY <1>4, <2>1, <2>4, <3>2
  <2>8. SumOver(d, T) = SumOver(v, S)
    BY <2>2, <2>4, <2>5, <2>6, <2>7, SumUnderOtherNames
  <2> QED BY <2>1, <2>3, <2>8
<1>15. SumOver(slips, 1..n) = SumOver(d, counted)
  <2>1. \A x \in counted : d[x] \in Int
    BY <1>4
  <2>2. IsFiniteSet(1..n)
    <3>1. 1 \in Int /\ n \in Int
      OBVIOUS
    <3> QED BY <3>1, FS_Interval
  <2>3. PICK N : N = 1..n
    OBVIOUS
  <2>4. /\ IsFiniteSet(N)
        /\ \A x \in counted : h[x] \in N
        /\ \A i \in N : \A x : x \in window[i] <=> x \in counted /\ h[x] = i
        /\ \A i \in N : slips[i] = SumOver(d, window[i])
    <3>1. \A i \in 1..n : slips[i] = SumOver(d, window[i])
      BY <1>14
    <3> QED BY <1>13, <2>2, <2>3, <3>1, Zenon
  <2>5. SumOver(slips, N) = SumOver(d, counted)
    <3>1. IsFiniteSet(N)
      BY <2>4
    <3>2. \A x \in counted : h[x] \in N
      BY <2>4
    <3>3. \A i \in N : \A x : x \in window[i] <=> x \in counted /\ h[x] = i
      BY <2>4
    <3>4. \A i \in N : slips[i] = SumOver(d, window[i])
      BY <2>4
    <3> QED BY <1>2, <2>1, <3>1, <3>2, <3>3, <3>4, SumByParts
  <2> QED BY <2>3, <2>5
<1>16. Total(by) = SumOver(by, K)
  BY <1>5, TotalIsASum
<1> QED BY <1>0, <1>11, <1>15, <1>16

\* The steps of a sequence that ends later than it began are not all backward.
LEMMA SomeStepForward ==
  ASSUME NEW f, NEW n \in Nat \ {0}, \A i \in 1..n : f[i] \in Int, f[n] > f[1]
  PROVE  \E i \in 1..(n - 1) : f[i + 1] > f[i]
<1>1. SUFFICES ASSUME \A i \in 1..(n - 1) : f[i + 1] <= f[i] PROVE FALSE
  <2>1. \A i \in 1..(n - 1) : i \in 1..n /\ i + 1 \in 1..n
    OBVIOUS
  <2>2. \A i \in 1..(n - 1) : f[i] \in Int /\ f[i + 1] \in Int
    BY <2>1
  <2> QED BY <2>2
<1> DEFINE B == {i \in 1..n : f[i] > f[1]}
<1>2. IsFiniteSet(B) /\ B \in SUBSET Int /\ n \in B
  <2>1. 1 \in Int /\ n \in Int /\ n \in 1..n
    OBVIOUS
  <2>2. IsFiniteSet(1..n)
    BY <2>1, FS_Interval
  <2>3. B \in SUBSET (1..n)
    OBVIOUS
  <2>4. B \in SUBSET Int
    OBVIOUS
  <2>5. n \in B
    BY <2>1
  <2> HIDE DEF B
  <2> QED BY <2>2, <2>3, <2>4, <2>5, FS_Subset
<1>3. PICK i \in B : \A j \in B : i <= j
  <2> HIDE DEF B
  <2> QED BY <1>2, HasLeast
<1>4. i \in 1..n /\ f[i] > f[1]
  OBVIOUS
<1>5. i # 1
  <2>1. 1 \in 1..n
    OBVIOUS
  <2>2. f[1] \in Int
    BY <2>1
  <2> QED BY <1>4, <2>2
<1>6. i - 1 \in 1..(n - 1) /\ i - 1 \in 1..n /\ (i - 1) + 1 = i /\ ~(i <= i - 1)
  BY <1>4, <1>5
<1>7. i - 1 \notin B
  <2> HIDE DEF B
  <2> QED BY <1>3, <1>6
<1>8. ~(f[i - 1] > f[1])
  BY <1>6, <1>7
<1>9. f[i] <= f[i - 1]
  BY <1>1, <1>6
<1>10. f[i] \in Int /\ f[i - 1] \in Int /\ f[1] \in Int
  <2>1. 1 \in 1..n
    OBVIOUS
  <2> QED BY <1>4, <1>6, <2>1
<1> QED BY <1>4, <1>8, <1>9, <1>10

\* The window that lost most, when one did.
LEMMA WorstIs ==
  ASSUME NEW w, NEW n \in Nat, DOMAIN w = 1..n, \A i \in 1..n : w[i].slip \in Int
  PROVE  /\ (\E i \in 1..n : w[i].slip > 0) => WorstWindow(w) # 0
         /\ WorstWindow(w) # 0 => \A i \in 1..n : w[i].slip <= w[WorstWindow(w)].slip
<1> DEFINE lost == {i \in DOMAIN w : w[i].slip > 0}
           Most(i) == \A j \in lost : w[j].slip < w[i].slip \/ (w[j].slip = w[i].slip /\ i <= j)
<1>1. WorstWindow(w) = IF lost = {} THEN 0 ELSE CHOOSE i \in lost : Most(i)
  BY DEF WorstWindow
<1>2. CASE lost = {}
  <2>1. WorstWindow(w) = 0 /\ ~\E i \in 1..n : w[i].slip > 0
    BY <1>1, <1>2
  <2> QED BY <2>1
<1>3. CASE lost # {}
  <2>1. IsFiniteSet(lost) /\ lost \in SUBSET Int
    <3>1. 1 \in Int /\ n \in Int
      OBVIOUS
    <3>2. IsFiniteSet(1..n)
      BY <3>1, FS_Interval
    <3>3. lost \in SUBSET (1..n)
      OBVIOUS
    <3>4. lost \in SUBSET Int
      BY <3>3
    <3> HIDE DEF lost
    <3> QED BY <3>2, <3>3, <3>4, FS_Subset
  <2>2. \E i \in lost : Most(i)
    <3>1. PICK s : s = [i \in lost |-> w[i].slip]
      OBVIOUS
    <3>2. PICK S : S = {s[i] : i \in lost}
      OBVIOUS
    <3>3. \A i \in lost : s[i] = w[i].slip /\ s[i] \in Int
      BY <3>1
    <3> HIDE DEF lost
    <3>4. IsFiniteSet(S) /\ S \in SUBSET Int /\ S # {}
      <4>1. DOMAIN s = lost
        BY <3>1
      <4>2. IsFiniteSet({s[i] : i \in lost})
        BY <2>1, <4>1, FinitelyMany
      <4> QED BY <1>3, <3>2, <3>3, <4>2
    <3>5. PICK m \in S : \A x \in S : x <= m
      BY <3>4, HasGreatest
    <3>6. PICK T : T = {i \in lost : s[i] = m}
      OBVIOUS
    <3>7. IsFiniteSet(T) /\ T \in SUBSET Int /\ T # {}
      <4>1. T \in SUBSET lost
        BY <3>6
      <4>2. T # {}
        BY <3>2, <3>5, <3>6
      <4> QED BY <2>1, <4>1, <4>2, FS_Subset
    <3>8. PICK i \in T : \A j \in T : i <= j
      BY <3>7, HasLeast
    <3>9. i \in lost /\ s[i] = m
      BY <3>6, <3>8
    <3>10. ASSUME NEW j \in lost PROVE w[j].slip < w[i].slip \/ (w[j].slip = w[i].slip /\ i <= j)
      <4>1. s[j] \in S /\ s[j] <= m /\ s[j] \in Int /\ m \in Int
        BY <3>2, <3>3, <3>4, <3>5
      <4>2. s[j] = m => j \in T
        BY <3>6
      <4>3. s[j] < m \/ (s[j] = m /\ i <= j)
        BY <3>8, <4>1, <4>2
      <4> QED BY <3>3, <3>9, <4>3
    <3> QED BY <3>9, <3>10
  <2>3. PICK k : k = (CHOOSE i \in lost : Most(i))
    OBVIOUS
  <2>4. k \in lost /\ Most(k)
    <3> HIDE DEF lost, Most
    <3> QED BY <2>2, <2>3
  <2>5. WorstWindow(w) = k
    <3> HIDE DEF lost, Most
    <3> QED BY <1>1, <1>3, <2>3
  <2>6. k \in 1..n /\ w[k].slip > 0 /\ w[k].slip \in Int
    BY <2>4
  <2>7. ASSUME NEW i \in 1..n PROVE w[i].slip <= w[k].slip
    <3>1. CASE i \in lost
      <4>1. w[i].slip < w[k].slip \/ w[i].slip = w[k].slip
        BY <2>4, <3>1
      <4>2. w[i].slip \in Int
        OBVIOUS
      <4> QED BY <2>6, <4>1, <4>2
    <3>2. CASE i \notin lost
      <4>1. ~(w[i].slip > 0)
        BY <3>2
      <4>2. w[i].slip \in Int
        OBVIOUS
      <4> QED BY <2>6, <4>1, <4>2
    <3> QED BY <3>1, <3>2
  <2>8. k # 0
    BY <2>6
  <2> QED BY <2>5, <2>7, <2>8
<1> QED BY <1>2, <1>3

\* The windows of a series slip what the last update is later than the first,
\* together and by cause.
LEMMA SeriesAddsUp ==
  ASSUME NEW updates, NEW n \in Nat, n >= 2, Len(updates) = n, DOMAIN updates = 1..n,
         \A i \in 1..n : IsListed(updates[i].plan),
         NEW paths, NEW match, NEW w, w = Windows(Outs(updates), paths, match),
         NEW slip, slip = FinishDay(updates[n].plan) - FinishDay(updates[1].plan)
  PROVE  /\ SlipOf(w) = slip /\ Total(ByCause(w)) = slip
         /\ slip > 0 => WorstWindow(w) # 0
         /\ WorstWindow(w) # 0 => \A i \in DOMAIN w : w[i].slip <= w[WorstWindow(w)].slip
<1>1. PICK outs : outs = Outs(updates)
  OBVIOUS
<1>2. /\ DOMAIN outs = 1..n /\ Len(outs) = n
      /\ \A i \in 1..n : outs[i].out = Scheduled(updates[i].plan)
  <2>1. outs = [i \in 1..n |-> [date |-> updates[i].date, out |-> Scheduled(updates[i].plan)]]
    BY <1>1 DEF Outs
  <2>2. PICK f : f = [i \in 1..n |-> Scheduled(updates[i].plan)]
    OBVIOUS
  <2>3. outs = [i \in 1..n |-> [date |-> updates[i].date, out |-> f[i]]]
    BY <2>1, <2>2
  <2>4. DOMAIN outs = 1..n /\ \A i \in 1..n : outs[i].out = f[i]
    BY <2>3
  <2>5. Len(outs) = n
    BY <2>3
  <2> QED BY <2>2, <2>4, <2>5
<1>3. PICK end : end = [i \in 1..n |-> FinishDay(updates[i].plan)]
  OBVIOUS
<1>4. \A i \in 1..n : /\ end[i] \in Int /\ end[i] = FinishDay(updates[i].plan)
                      /\ outs[i].out.end = end[i] /\ outs[i].out.plan = updates[i].plan
  <2>1. SUFFICES ASSUME NEW i \in 1..n
                 PROVE  /\ end[i] \in Int /\ end[i] = FinishDay(updates[i].plan)
                        /\ outs[i].out.end = end[i] /\ outs[i].out.plan = updates[i].plan
    OBVIOUS
  <2>2. PICK plan : plan = updates[i].plan
    OBVIOUS
  <2>3. IsPlan(plan)
    BY <2>2 DEF IsListed
  <2>4. FinishDay(plan) \in Int /\ end[i] = FinishDay(plan)
    BY <1>3, <2>2, <2>3, FinishIs
  <2>5. Scheduled(plan).plan = plan /\ Scheduled(plan).end = FinishDay(plan)
    BY DEF Scheduled, FinishDay
  <2>6. outs[i].out = Scheduled(plan)
    BY <1>2, <2>2
  <2> QED BY <2>2, <2>4, <2>5, <2>6
<1>5. /\ DOMAIN w = 1..(n - 1)
      /\ \A i \in 1..(n - 1) : w[i] = Window(outs, paths, match, i)
  BY <1>1, <1>2 DEF Windows
<1>6. ASSUME NEW i \in 1..(n - 1)
      PROVE  /\ w[i].slip = end[i + 1] - end[i] /\ w[i].slip \in Int
             /\ IsFiniteSet(w[i].attribution)
             /\ \A c \in w[i].attribution : c.days \in Int
             /\ DaysIn(w[i].attribution) = w[i].slip
  <2>1. i \in 1..n /\ i + 1 \in 1..n
    OBVIOUS
  <2>2. PICK old, new, was, is : /\ old = outs[i].out /\ new = outs[i + 1].out
                                 /\ was = paths[i] /\ is = paths[i + 1]
    OBVIOUS
  <2>3. /\ IsListed(old.plan) /\ IsListed(new.plan)
        /\ old.end = end[i] /\ new.end = end[i + 1] /\ end[i] \in Int /\ end[i + 1] \in Int
    BY <1>4, <2>1, <2>2
  <2>4. PICK attr : attr = Attribution(old, new, Pairs(old.plan, new.plan, match), was, is)
    OBVIOUS
  <2>5. PICK c : c = Compared(old, new, match, was, is)
    OBVIOUS
  <2>6. c.move = new.end - old.end /\ c.attribution = attr
    BY <2>4, <2>5 DEF Compared
  <2>7. w[i] = [slip |-> c.move, attribution |-> c.attribution, pathChanged |-> c.oldPath # c.newPath]
    BY <1>5, <2>2, <2>5 DEF Window, OpeningOf
  <2>8. w[i].slip = end[i + 1] - end[i] /\ w[i].attribution = attr
    BY <2>3, <2>6, <2>7
  <2>9. PICK found : found = FoundOn(old.plan, new.plan, Pairs(old.plan, new.plan, match), is)
    OBVIOUS
  <2>10. PutDown(attr, found, new.end - old.end)
    BY <2>3, <2>4, <2>9, AttributionAddsUp
  <2>11. /\ IsFiniteSet(attr) /\ \A x \in attr : x.days \in Int
         /\ DaysIn(attr) = new.end - old.end
    BY <2>10 DEF PutDown
  <2> QED BY <2>3, <2>8, <2>11
<1>7. PICK slips : slips = [i \in 1..(n - 1) |-> w[i].slip]
  OBVIOUS
<1>8. \A i \in 1..(n - 1) : slips[i] = w[i].slip
  BY <1>7
<1>9. slip = end[n] - end[1] /\ end[n] \in Int /\ end[1] \in Int
  <2>1. n \in 1..n /\ 1 \in 1..n
    OBVIOUS
  <2> QED BY <1>4, <2>1
<1>10. SumOver(slips, 1..(n - 1)) = slip
  <2>1. \A i \in 1..(n - 1) : slips[i] = end[i + 1] - end[i]
    BY <1>6, <1>8
  <2>2. n \in Nat \ {0} /\ \A i \in 1..n : end[i] \in Int
    BY <1>4
  <2>3. SumOver(slips, 1..(n - 1)) = end[n] - end[1]
    BY <2>1, <2>2, SumOfSteps
  <2> QED BY <1>9, <2>3
<1>11. SlipOf(w) = slip
  <2>1. SlipOf(w) = Total(slips)
    BY <1>5, <1>7 DEF SlipOf
  <2>2. DOMAIN slips = 1..(n - 1)
    BY <1>7
  <2>3. Total(slips) = SumOver(slips, 1..(n - 1))
    BY <2>2, TotalIsASum
  <2> QED BY <1>10, <2>1, <2>3
<1>12. Total(ByCause(w)) = slip
  <2>1. PICK m : m = n - 1
    OBVIOUS
  <2>2. /\ m \in Nat /\ DOMAIN w = 1..m /\ \A i \in 1..m : slips[i] = w[i].slip
    BY <1>5, <1>8, <2>1
  <2>3. \A i \in 1..m : /\ IsFiniteSet(w[i].attribution) /\ w[i].slip \in Int
                        /\ \A c \in w[i].attribution : c.days \in Int
                        /\ DaysIn(w[i].attribution) = w[i].slip
    BY <1>6, <2>1
  <2>4. Total(ByCause(w)) = SumOver(slips, 1..m)
    BY <2>2, <2>3, CausesAddUp
  <2> QED BY <1>10, <2>1, <2>4
<1>13. /\ (\E i \in 1..(n - 1) : w[i].slip > 0) => WorstWindow(w) # 0
       /\ WorstWindow(w) # 0 => \A i \in 1..(n - 1) : w[i].slip <= w[WorstWindow(w)].slip
  <2>1. PICK m : m = n - 1
    OBVIOUS
  <2>2. m \in Nat /\ DOMAIN w = 1..m /\ \A i \in 1..m : w[i].slip \in Int
    BY <1>5, <1>6, <2>1
  <2>3. /\ (\E i \in 1..m : w[i].slip > 0) => WorstWindow(w) # 0
        /\ WorstWindow(w) # 0 => \A i \in 1..m : w[i].slip <= w[WorstWindow(w)].slip
    BY <2>2, WorstIs
  <2> QED BY <2>1, <2>3
<1>14. ASSUME slip > 0 PROVE \E i \in 1..(n - 1) : w[i].slip > 0
  <2>1. n \in Nat \ {0} /\ (\A i \in 1..n : end[i] \in Int) /\ end[n] > end[1]
    BY <1>4, <1>9, <1>14
  <2>2. PICK i \in 1..(n - 1) : end[i + 1] > end[i]
    BY <2>1, SomeStepForward
  <2>3. i \in 1..n /\ i + 1 \in 1..n
    BY <2>2
  <2>4. end[i + 1] \in Int /\ end[i] \in Int
    BY <1>4, <2>3
  <2> QED BY <1>6, <2>2, <2>4
<1> QED BY <1>5, <1>11, <1>12, <1>13, <1>14

-----------------------------------------------------------------------------
\* A delay put in or taken out.

\* A plan within another: some of its activities as they are, and some of its links.
Within(small, big) ==
  /\ DOMAIN small.tasks \subseteq DOMAIN big.tasks
  /\ \A a \in DOMAIN small.tasks : small.tasks[a] = big.tasks[a]
  /\ \A k \in DOMAIN small.links : \E m \in DOMAIN big.links : big.links[m] = small.links[k]

\* The same link asks the same of the same activities.
LEMMA SameOff ==
  ASSUME NEW small, NEW big, IsPlan(small), Within(small, big),
         NEW k \in DOMAIN small.links, NEW m \in DOMAIN big.links, big.links[m] = small.links[k]
  PROVE  Off(big, m) = Off(small, k)
<1>1. small.links[k].pred \in DOMAIN small.tasks /\ small.links[k].succ \in DOMAIN small.tasks
  BY InPlan
<1>2. /\ small.tasks[small.links[k].pred] = big.tasks[small.links[k].pred]
      /\ small.tasks[small.links[k].succ] = big.tasks[small.links[k].succ]
  BY <1>1 DEF Within
<1> QED BY <1>2 DEF Off, StartBound

\* It has no ring either.
LEMMA PartHasNoRing ==
  ASSUME NEW small, NEW big, NoRing(big), Within(small, big)
  PROVE  NoRing(small)
<1>1. SUFFICES ASSUME NEW some \in SUBSET DOMAIN small.tasks, some # {}
               PROVE  \E a \in some : \A k \in Into(small, a) : small.links[k].pred \notin some
  BY DEF NoRing
<1>2. some \in SUBSET DOMAIN big.tasks
  BY DEF Within
<1>3. PICK a \in some : \A k \in Into(big, a) : big.links[k].pred \notin some
  BY <1>1, <1>2 DEF NoRing
<1>4. ASSUME NEW k \in Into(small, a) PROVE small.links[k].pred \notin some
  <2>1. k \in DOMAIN small.links /\ small.links[k].succ = a
    BY DEF Into
  <2>2. PICK m \in DOMAIN big.links : big.links[m] = small.links[k]
    BY <2>1 DEF Within
  <2>3. m \in Into(big, a)
    BY <2>1, <2>2 DEF Into
  <2> QED BY <1>3, <2>2, <2>3
<1> QED BY <1>4

\* It starts no later and finishes no later.
LEMMA PartFinishesFirst ==
  ASSUME NEW small, NEW big, IsPlan(small), IsPlan(big), Within(small, big)
  PROVE  FinishDay(small) <= FinishDay(big)
<1>1. PICK g : g = EarlyStarts(big)
  OBVIOUS
<1>2. Meets(big, g)
  BY <1>1, EarlyStartsAre
<1>3. Meets(small, g)
  <2>1. ASSUME NEW a \in DOMAIN small.tasks PROVE g[a] \in Int /\ small.tasks[a].floor <= g[a]
    BY <1>2 DEF Meets, Within
  <2>2. ASSUME NEW k \in DOMAIN small.links
        PROVE  g[small.links[k].pred] + Off(small, k) <= g[small.links[k].succ]
    <3>1. PICK m \in DOMAIN big.links : big.links[m] = small.links[k]
      BY DEF Within
    <3>2. Off(big, m) = Off(small, k)
      BY <3>1, SameOff
    <3>3. g[big.links[m].pred] + Off(big, m) <= g[big.links[m].succ]
      BY <1>2 DEF Meets
    <3> QED BY <3>1, <3>2, <3>3
  <2> QED BY <2>1, <2>2 DEF Meets
<1>4. PICK f : f = FinishDay(big)
  OBVIOUS
<1>5. f \in Int /\ \A a \in DOMAIN big.tasks : g[a] + big.tasks[a].dur <= f
  BY <1>1, <1>4, FinishIs
<1>6. \A a \in DOMAIN small.tasks : g[a] + small.tasks[a].dur <= f
  BY <1>5 DEF Within
<1>7. FinishDay(small) <= f
  BY <1>3, <1>5, <1>6, FinishesBy
<1> QED BY <1>4, <1>7

\* Links between activities A.
LinkLists(A) == Seq([pred : A, succ : A, type : {"FS", "SS", "FF", "SF"}, lag : Int])

\* The links of a plan with both ends in kept, and no others.
ThoseAmong(plan, kept, links) ==
  /\ links \in LinkLists(kept)
  /\ \A m \in DOMAIN links : \E k \in DOMAIN plan.links : links[m] = plan.links[k]
  /\ \A k \in DOMAIN plan.links :
       plan.links[k].pred \in kept /\ plan.links[k].succ \in kept =>
         \E m \in DOMAIN links : links[m] = plan.links[k]

\* The links between what is left are those of the plan with both ends left.
LEMMA LinksAmongAre ==
  ASSUME NEW plan, NEW kept, NEW tasks, plan.links \in LinkLists(tasks),
         NEW links, links = LinksAmong(plan, kept)
  PROVE  ThoseAmong(plan, kept, links)
<1> DEFINE Y == [pred : kept, succ : kept, type : {"FS", "SS", "FF", "SF"}, lag : Int]
           Z == [pred : tasks, succ : tasks, type : {"FS", "SS", "FF", "SF"}, lag : Int]
<1>1. PICK l : l = plan.links
  OBVIOUS
<1>2. l \in Seq(Z) /\ DOMAIN l = 1..Len(l) /\ Len(l) \in Nat /\ \A k \in DOMAIN l : l[k] \in Z
  <2>1. l \in Seq(Z)
    BY <1>1 DEF LinkLists
  <2> HIDE DEF Z
  <2> QED BY <2>1
<1>3. PICK s : s = [k \in DOMAIN l |-> IF l[k].pred \in kept /\ l[k].succ \in kept THEN <<l[k]>> ELSE <<>>]
  OBVIOUS
<1>4. links = FlattenSeq(s)
  BY <1>1, <1>3 DEF LinksAmong
<1>5. ASSUME NEW k \in DOMAIN l, l[k].pred \in kept, l[k].succ \in kept
      PROVE  /\ s[k] \in Seq(Y) /\ DOMAIN s[k] = {1} /\ s[k][1] = l[k]
  <2>1. l[k] \in Y
    BY <1>2, <1>5
  <2>2. s[k] = <<l[k]>>
    BY <1>3, <1>5
  <2> HIDE DEF Y
  <2> QED BY <2>1, <2>2
<1>6. ASSUME NEW k \in DOMAIN l, ~(l[k].pred \in kept /\ l[k].succ \in kept)
      PROVE  s[k] \in Seq(Y) /\ DOMAIN s[k] = {}
  <2>1. s[k] = <<>>
    BY <1>3, <1>6
  <2> HIDE DEF Y
  <2> QED BY <2>1
<1> HIDE DEF Y, Z
<1>7. s \in Seq(Seq(Y)) /\ DOMAIN s = DOMAIN l
  <2>1. \A k \in DOMAIN l : s[k] \in Seq(Y)
    BY <1>5, <1>6
  <2>2. DOMAIN s = DOMAIN l /\ s = [k \in 1..Len(l) |-> s[k]]
    BY <1>2, <1>3
  <2>3. s \in [1..Len(l) -> Seq(Y)]
    BY <1>2, <2>1, <2>2
  <2> QED BY <1>2, <2>2, <2>3
<1>8. /\ links \in Seq(Y)
      /\ \A m \in DOMAIN links : \E i \in DOMAIN s : \E j \in DOMAIN s[i] : links[m] = s[i][j]
      /\ \A i \in DOMAIN s : \A j \in DOMAIN s[i] : \E m \in DOMAIN links : links[m] = s[i][j]
  BY <1>4, <1>7, FlattenHas
<1>9. ASSUME NEW m \in DOMAIN links PROVE \E k \in DOMAIN plan.links : links[m] = plan.links[k]
  <2>1. PICK i \in DOMAIN l : \E j \in DOMAIN s[i] : links[m] = s[i][j]
    BY <1>7, <1>8
  <2>2. PICK j \in DOMAIN s[i] : links[m] = s[i][j]
    BY <2>1
  <2>3. l[i].pred \in kept /\ l[i].succ \in kept
    BY <1>6, <2>2
  <2>4. j = 1 /\ s[i][1] = l[i]
    BY <1>5, <2>2, <2>3
  <2> QED BY <1>1, <2>2, <2>4
<1>10. ASSUME NEW k \in DOMAIN plan.links, plan.links[k].pred \in kept, plan.links[k].succ \in kept
       PROVE  \E m \in DOMAIN links : links[m] = plan.links[k]
  <2>1. k \in DOMAIN s /\ 1 \in DOMAIN s[k] /\ s[k][1] = plan.links[k]
    BY <1>1, <1>5, <1>7, <1>10
  <2>2. PICK m \in DOMAIN links : links[m] = s[k][1]
    BY <1>8, <2>1
  <2> QED BY <2>1, <2>2
<1> QED BY <1>8, <1>9, <1>10 DEF Y, LinkLists, ThoseAmong

\* What is left when some of the work goes is a plan, and within the one there was.
LEMMA WhatIsLeft ==
  ASSUME NEW plan, IsPlan(plan), NEW kept \in SUBSET DOMAIN plan.tasks, kept # {},
         NEW left, left = [tasks |-> [a \in kept |-> plan.tasks[a]], links |-> LinksAmong(plan, kept)]
  PROVE  /\ IsPlan(left) /\ Within(left, plan) /\ DOMAIN left.tasks = kept
         /\ \A k \in DOMAIN plan.links :
              plan.links[k].pred \in kept /\ plan.links[k].succ \in kept =>
                \E m \in DOMAIN left.links : left.links[m] = plan.links[k]
<1>1. PICK tasks, links : tasks = [a \in kept |-> plan.tasks[a]] /\ links = LinksAmong(plan, kept)
  OBVIOUS
<1>2. left = [tasks |-> tasks, links |-> links] /\ left.tasks = tasks /\ left.links = links
  BY <1>1
<1>3. /\ plan.links \in LinkLists(DOMAIN plan.tasks)
      /\ plan.tasks \in [DOMAIN plan.tasks -> [dur : Nat, floor : Nat, code : Nat]]
      /\ NoRing(plan) /\ IsFiniteSet(DOMAIN plan.tasks)
  BY DEF IsPlan, LinkLists
<1>4. /\ links \in LinkLists(kept)
      /\ \A m \in DOMAIN links : \E k \in DOMAIN plan.links : links[m] = plan.links[k]
      /\ \A k \in DOMAIN plan.links :
           plan.links[k].pred \in kept /\ plan.links[k].succ \in kept =>
             \E m \in DOMAIN links : links[m] = plan.links[k]
  <2>1. plan.links \in LinkLists(DOMAIN plan.tasks)
    BY <1>3
  <2>2. links = LinksAmong(plan, kept)
    BY <1>1
  <2>3. ThoseAmong(plan, kept, links)
    BY ONLY <2>1, <2>2, LinksAmongAre
  <2> QED BY <2>3 DEF ThoseAmong
<1>5. /\ tasks \in [kept -> [dur : Nat, floor : Nat, code : Nat]] /\ DOMAIN tasks = kept
      /\ \A a \in kept : tasks[a] = plan.tasks[a]
  BY <1>1, <1>3
<1>6. IsFiniteSet(kept)
  BY <1>3, FS_Subset
<1>7. Within(left, plan)
  <2>1. \A m \in DOMAIN left.links : \E k \in DOMAIN plan.links : plan.links[k] = left.links[m]
    BY <1>2, <1>4
  <2> QED BY <1>2, <1>5, <2>1 DEF Within
<1>8. NoRing(left)
  BY <1>3, <1>7, PartHasNoRing
<1>9. IsPlan(left)
  BY <1>2, <1>4, <1>5, <1>6, <1>8 DEF IsPlan, LinkLists
<1> QED BY <1>2, <1>4, <1>5, <1>7, <1>9

\* The work that stays when events go.
Staying(plan, events) == DOMAIN plan.tasks \ UNION {Names(events[i]) : i \in DOMAIN events}

\* Taking delays out, one is worth no less than nothing and no more than all.
LEMMA CollapsedIsBound ==
  ASSUME NEW plan, IsPlan(plan), NEW events, CanCollapse(plan, events),
         NEW r, r = CollapsedAsBuilt(plan, events)
  PROVE  EventsBound(r)
<1>1. PICK all, each : /\ all = Without(plan, events)
                       /\ each = [i \in DOMAIN events |-> Without(plan, <<events[i]>>)]
  OBVIOUS
<1>2. Staying(plan, events) # {}
  BY DEF CanCollapse, Staying
<1>3. all = [tasks |-> [a \in Staying(plan, events) |-> plan.tasks[a]],
             links |-> LinksAmong(plan, Staying(plan, events))]
  BY <1>1 DEF Without, Staying
<1>4. IsPlan(all) /\ Within(all, plan) /\ DOMAIN all.tasks = Staying(plan, events)
  <2>1. Staying(plan, events) \in SUBSET DOMAIN plan.tasks
    BY DEF Staying
  <2> QED BY <1>2, <1>3, <2>1, WhatIsLeft
<1>5. FinishDay(all) <= FinishDay(plan) /\ FinishDay(all) \in Int /\ FinishDay(plan) \in Int
  BY <1>4, PartFinishesFirst, FinishIs
<1>6. ASSUME NEW i \in DOMAIN events
      PROVE  /\ FinishDay(each[i]) \in Int
             /\ FinishDay(all) <= FinishDay(each[i]) /\ FinishDay(each[i]) <= FinishDay(plan)
  <2>1. PICK one, stay : one = <<events[i]>> /\ stay = Staying(plan, one)
    OBVIOUS
  <2>2. DOMAIN one = {1} /\ one[1] = events[i]
    BY <2>1
  <2>3. stay = DOMAIN plan.tasks \ Names(events[i])
    BY <2>1, <2>2 DEF Staying
  <2>4. Staying(plan, events) \in SUBSET stay /\ stay \in SUBSET DOMAIN plan.tasks /\ stay # {}
    BY <1>2, <2>3 DEF Staying
  <2>5. each[i] = [tasks |-> [a \in stay |-> plan.tasks[a]], links |-> LinksAmong(plan, stay)]
    <3>1. each[i] = Without(plan, one)
      BY <1>1, <2>1
    <3> QED BY <2>1, <3>1 DEF Without, Staying
  <2>6. PICK part : part = each[i]
    OBVIOUS
  <2>7. /\ IsPlan(part) /\ Within(part, plan) /\ DOMAIN part.tasks = stay
        /\ \A k \in DOMAIN plan.links :
             plan.links[k].pred \in stay /\ plan.links[k].succ \in stay =>
               \E m \in DOMAIN part.links : part.links[m] = plan.links[k]
    BY <2>4, <2>5, <2>6, WhatIsLeft
  <2>8. Within(all, part)
    <3>1. \A a \in DOMAIN all.tasks : a \in DOMAIN part.tasks /\ all.tasks[a] = part.tasks[a]
      BY <1>4, <2>4, <2>7 DEF Within
    <3>2. ASSUME NEW k \in DOMAIN all.links
          PROVE  \E m \in DOMAIN part.links : part.links[m] = all.links[k]
      <4>1. PICK l \in DOMAIN plan.links : plan.links[l] = all.links[k]
        BY <1>4 DEF Within
      <4>2. all.links[k].pred \in DOMAIN all.tasks /\ all.links[k].succ \in DOMAIN all.tasks
        BY <1>4, InPlan
      <4>3. plan.links[l].pred \in stay /\ plan.links[l].succ \in stay
        BY <1>4, <2>4, <4>1, <4>2
      <4> QED BY <2>7, <4>1, <4>3
    <3> QED BY <3>1, <3>2 DEF Within
  <2>9. FinishDay(all) <= FinishDay(part)
    BY <1>4, <2>7, <2>8, PartFinishesFirst
  <2>10. FinishDay(part) <= FinishDay(plan) /\ FinishDay(part) \in Int
    BY <2>7, PartFinishesFirst, FinishIs
  <2> QED BY <2>6, <2>9, <2>10
<1>7. PICK f, F, g : f = FinishDay(all) /\ F = FinishDay(plan)
                     /\ g = [i \in DOMAIN events |-> F - FinishDay(Without(plan, <<events[i]>>))]
  OBVIOUS
<1>8. r = Modelled(f, F, g)
  BY <1>1, <1>7 DEF CollapsedAsBuilt
<1>9. r.each = g /\ r.total = F - f /\ r.before = f /\ r.after = F
  BY <1>8 DEF Modelled
<1>10. ASSUME NEW i \in DOMAIN g PROVE 0 <= g[i] /\ g[i] <= F - f
  <2>1. i \in DOMAIN events /\ g[i] = F - FinishDay(Without(plan, <<events[i]>>))
    BY <1>7
  <2>2. FinishDay(Without(plan, <<events[i]>>)) = FinishDay(each[i])
    BY <1>1, <2>1
  <2> QED BY <1>5, <1>6, <1>7, <2>1, <2>2
<1> QED BY <1>5, <1>7, <1>9, <1>10 DEF EventsBound

\* The members of a finite set of integers are numbered by how many come up to them.
LEMMA Numbered ==
  ASSUME NEW T \in SUBSET Int, IsFiniteSet(T),
         NEW upTo, \A i \in T : \A j : j \in upTo[i] <=> j \in T /\ j <= i
  PROVE  /\ Cardinality(T) \in Nat
         /\ \A i \in T : Cardinality(upTo[i]) \in 1..Cardinality(T)
         /\ \A i, j \in T : Cardinality(upTo[i]) = Cardinality(upTo[j]) => i = j
         /\ \A n \in 1..Cardinality(T) : \E i \in T : Cardinality(upTo[i]) = n
<1>1. Cardinality(T) \in Nat
  BY FS_CardinalityType
<1>2. ASSUME NEW i \in T
      PROVE  upTo[i] \in SUBSET T /\ IsFiniteSet(upTo[i]) /\ Cardinality(upTo[i]) \in 1..Cardinality(T)
  <2>1. upTo[i] \in SUBSET T /\ i \in upTo[i]
    OBVIOUS
  <2>2. IsFiniteSet(upTo[i]) /\ Cardinality(upTo[i]) <= Cardinality(T)
    BY <2>1, FS_Subset
  <2>3. Cardinality(upTo[i]) \in Nat /\ Cardinality(upTo[i]) # 0
    BY <2>1, <2>2, FS_CardinalityType, FS_EmptySet
  <2> QED BY <1>1, <2>1, <2>2, <2>3
<1>3. ASSUME NEW i \in T, NEW j \in T, i < j PROVE Cardinality(upTo[i]) # Cardinality(upTo[j])
  <2>0. i \in Int /\ j \in Int /\ ~(j <= i)
    BY <1>3
  <2>1. upTo[i] \in SUBSET upTo[j] /\ j \in upTo[j] /\ j \notin upTo[i]
    <3>1. ASSUME NEW x \in upTo[i] PROVE x \in T /\ x <= j
      <4>1. x \in T /\ x <= i
        OBVIOUS
      <4>2. x \in Int
        BY <4>1
      <4> QED BY <1>3, <2>0, <4>1, <4>2
    <3>2. j \in upTo[j] /\ j \notin upTo[i]
      BY <2>0
    <3> QED BY <3>1, <3>2
  <2>2. Cardinality(upTo[j]) = Cardinality(upTo[i]) => upTo[j] = upTo[i]
    BY <1>2, <2>1, FS_Subset
  <2> QED BY <2>1, <2>2
<1>4. ASSUME NEW i \in T, NEW j \in T, Cardinality(upTo[i]) = Cardinality(upTo[j]) PROVE i = j
  <2>1. ~(i < j) /\ ~(j < i)
    BY <1>3, <1>4
  <2> QED BY <2>1
<1> DEFINE U == 1..Cardinality(T)
           f == [i \in T |-> Cardinality(upTo[i])]
<1>5. IsFiniteSet(U) /\ Cardinality(U) = Cardinality(T)
  <2>1. 1 \in Int /\ Cardinality(T) \in Int
    BY <1>1
  <2> QED BY <1>1, <2>1, FS_Interval
<1>6. f \in [T -> U] /\ \A i, j \in T : f[i] = f[j] => i = j
  BY <1>2, <1>4
<1>7. \A i \in T : f[i] = Cardinality(upTo[i])
  OBVIOUS
<1> HIDE DEF f
<1>8. f \in Injection(T, U)
  BY <1>6 DEF Injection, IsInjective
<1>9. f \in Surjection(T, U)
  BY <1>5, <1>8, FS_Injection
<1>10. \A n \in U : \E i \in T : f[i] = n
  BY <1>9 DEF Surjection
<1> QED BY <1>1, <1>2, <1>4, <1>7, <1>10

-----------------------------------------------------------------------------
\* A delay put in.

LinksIn(A) == [pred : A, succ : A, type : {"FS", "SS", "FF", "SF"}, lag : Int]

\* The link l once it goes to event i, and the one from the event to the work it holds up.
Diverted(events, l, i) == [l EXCEPT !.succ = ActivityOf(events[i])]
Handed(events, i) == FS(ActivityOf(events[i]), events[i].impacts, 0)

Holding(events, b) == {i \in DOMAIN events : events[i].impacts = b}

IsDiverted(events, l) == l.type = "FS" /\ Holding(events, l.succ) # {}

\* What becomes of one link.
Becomes(events, l) ==
  IF IsDiverted(events, l)
  THEN [n \in 1..Cardinality(Holding(events, l.succ)) |->
          [l EXCEPT !.succ = ActivityOf(events[
             CHOOSE i \in Holding(events, l.succ) :
               Cardinality({j \in Holding(events, l.succ) : j <= i}) = n])]]
  ELSE <<l>>

IsBecome(events, A, l, s) ==
  /\ s \in Seq(LinksIn(A))
  /\ ~IsDiverted(events, l) => DOMAIN s = {1} /\ s[1] = l
  /\ IsDiverted(events, l) =>
       /\ \A n \in DOMAIN s : \E i \in Holding(events, l.succ) : s[n] = Diverted(events, l, i)
       /\ \A i \in Holding(events, l.succ) : \E n \in DOMAIN s : s[n] = Diverted(events, l, i)

\* It is led to each of the events that hold its work up, or stays as it was.
LEMMA BecomesIs ==
  ASSUME NEW events, IsFiniteSet(DOMAIN events), DOMAIN events \in SUBSET Int,
         NEW A, NEW l \in LinksIn(A), \A i \in DOMAIN events : ActivityOf(events[i]) \in A,
         NEW s, s = Becomes(events, l)
  PROVE  IsBecome(events, A, l, s)
<1>1. CASE ~IsDiverted(events, l)
  <2>1. s = <<l>>
    BY <1>1 DEF Becomes
  <2>2. s \in Seq(LinksIn(A)) /\ DOMAIN s = {1} /\ s[1] = l
    BY <2>1
  <2> QED BY <1>1, <2>2 DEF IsBecome
<1>2. CASE IsDiverted(events, l)
  <2>1. PICK T, upTo : T = Holding(events, l.succ) /\ upTo = [i \in T |-> {j \in T : j <= i}]
    OBVIOUS
  <2>2. T \in SUBSET Int /\ T \in SUBSET DOMAIN events /\ IsFiniteSet(T)
    <3>1. T \in SUBSET DOMAIN events
      BY <2>1 DEF Holding
    <3> QED BY <3>1, FS_Subset
  <2>3. \A i \in T : upTo[i] = {j \in T : j <= i}
    BY <2>1
  <2>4. \A i \in T : \A j : j \in upTo[i] <=> j \in T /\ j <= i
    BY <2>3
  <2>5. /\ Cardinality(T) \in Nat
        /\ \A i \in T : Cardinality(upTo[i]) \in 1..Cardinality(T)
        /\ \A i, j \in T : Cardinality(upTo[i]) = Cardinality(upTo[j]) => i = j
        /\ \A n \in 1..Cardinality(T) : \E i \in T : Cardinality(upTo[i]) = n
    BY <2>2, <2>4, Numbered
  <2> DEFINE at(n) == CHOOSE i \in T : Cardinality({j \in T : j <= i}) = n
  <2>6. ASSUME NEW n \in 1..Cardinality(T) PROVE at(n) \in T /\ Cardinality(upTo[at(n)]) = n
    <3>1. \E i \in T : Cardinality({j \in T : j <= i}) = n
      BY <2>3, <2>5
    <3>2. at(n) \in T /\ Cardinality({j \in T : j <= at(n)}) = n
      BY <3>1
    <3> HIDE DEF at
    <3> QED BY <2>3, <3>2
  <2>7. s = [n \in 1..Cardinality(T) |-> [l EXCEPT !.succ = ActivityOf(events[at(n)])]]
    BY <1>2, <2>1 DEF Becomes
  <2> HIDE DEF at
  <2>8. DOMAIN s = 1..Cardinality(T) /\ \A n \in DOMAIN s : s[n] = Diverted(events, l, at(n))
    BY <2>7 DEF Diverted
  <2>9. \A n \in DOMAIN s : s[n] \in LinksIn(A)
    <3>1. TAKE n \in DOMAIN s
    <3>2. at(n) \in DOMAIN events
      BY <2>2, <2>6, <2>8
    <3>3. ActivityOf(events[at(n)]) \in A
      BY <3>2
    <3> QED BY <2>8, <3>3 DEF Diverted, LinksIn
  <2>10. s \in Seq(LinksIn(A))
    <3>1. s = [n \in 1..Cardinality(T) |-> s[n]]
      BY <2>7, <2>8
    <3> QED BY <2>5, <2>8, <2>9, <3>1
  <2>11. \A n \in DOMAIN s : \E i \in T : s[n] = Diverted(events, l, i)
    BY <2>6, <2>8
  <2>12. ASSUME NEW i \in T PROVE \E n \in DOMAIN s : s[n] = Diverted(events, l, i)
    <3>1. PICK n : n = Cardinality(upTo[i])
      OBVIOUS
    <3>2. n \in 1..Cardinality(T)
      BY <2>5, <3>1
    <3>3. at(n) = i
      BY <2>5, <2>6, <3>1, <3>2
    <3> QED BY <2>8, <3>2, <3>3
  <2> QED BY <1>2, <2>1, <2>10, <2>11, <2>12 DEF IsBecome
<1> QED BY <1>1, <1>2

\* The links R are the links L led through the events.
Reroutes(events, L, R) ==
  /\ \A m \in DOMAIN R : \E k \in DOMAIN L :
       \/ ~IsDiverted(events, L[k]) /\ R[m] = L[k]
       \/ IsDiverted(events, L[k]) /\ \E i \in Holding(events, L[k].succ) : R[m] = Diverted(events, L[k], i)
  /\ \A k \in DOMAIN L :
       /\ ~IsDiverted(events, L[k]) => \E m \in DOMAIN R : R[m] = L[k]
       /\ IsDiverted(events, L[k]) =>
            \A i \in Holding(events, L[k].succ) : \E m \in DOMAIN R : R[m] = Diverted(events, L[k], i)

\* ... and so all of them are.
LEMMA ReroutedIs ==
  ASSUME NEW events, IsFiniteSet(DOMAIN events), DOMAIN events \in SUBSET Int,
         NEW A, NEW L \in Seq(LinksIn(A)), \A i \in DOMAIN events : ActivityOf(events[i]) \in A,
         NEW R, R = Rerouted(L, events)
  PROVE  R \in Seq(LinksIn(A)) /\ Reroutes(events, L, R)
<1>1. PICK s : s = [k \in DOMAIN L |-> Becomes(events, L[k])]
  OBVIOUS
<1>2. R = FlattenSeq(s)
  BY <1>1 DEF Rerouted, Becomes, IsDiverted, Holding
<1>3. DOMAIN L = 1..Len(L) /\ Len(L) \in Nat /\ \A k \in DOMAIN L : L[k] \in LinksIn(A)
  OBVIOUS
<1>4. ASSUME NEW k \in DOMAIN L
      PROVE  /\ s[k] \in Seq(LinksIn(A))
             /\ ~IsDiverted(events, L[k]) => DOMAIN s[k] = {1} /\ s[k][1] = L[k]
             /\ IsDiverted(events, L[k]) =>
                  /\ \A n \in DOMAIN s[k] : \E i \in Holding(events, L[k].succ) :
                       s[k][n] = Diverted(events, L[k], i)
                  /\ \A i \in Holding(events, L[k].succ) : \E n \in DOMAIN s[k] :
                       s[k][n] = Diverted(events, L[k], i)
  <2>1. s[k] = Becomes(events, L[k])
    BY <1>1
  <2>2. L[k] \in LinksIn(A)
    BY <1>3
  <2>3. IsBecome(events, A, L[k], s[k])
    BY <2>1, <2>2, BecomesIs
  <2> QED BY <2>3 DEF IsBecome
<1>5. s \in Seq(Seq(LinksIn(A))) /\ DOMAIN s = DOMAIN L
  <2>1. DOMAIN s = 1..Len(L) /\ s = [k \in 1..Len(L) |-> s[k]]
    BY <1>1, <1>3
  <2>2. \A k \in 1..Len(L) : s[k] \in Seq(LinksIn(A))
    BY <1>3, <1>4
  <2>3. s \in [1..Len(L) -> Seq(LinksIn(A))]
    BY <2>1, <2>2
  <2> QED BY <1>3, <2>1, <2>3
<1>6. /\ R \in Seq(LinksIn(A))
      /\ \A m \in DOMAIN R : \E k \in DOMAIN s : \E n \in DOMAIN s[k] : R[m] = s[k][n]
      /\ \A k \in DOMAIN s : \A n \in DOMAIN s[k] : \E m \in DOMAIN R : R[m] = s[k][n]
  BY <1>2, <1>5, FlattenHas
<1>7. ASSUME NEW m \in DOMAIN R
      PROVE  \E k \in DOMAIN L :
               \/ ~IsDiverted(events, L[k]) /\ R[m] = L[k]
               \/ /\ IsDiverted(events, L[k])
                  /\ \E i \in Holding(events, L[k].succ) : R[m] = Diverted(events, L[k], i)
  <2>1. PICK k \in DOMAIN L : \E n \in DOMAIN s[k] : R[m] = s[k][n]
    BY <1>5, <1>6
  <2>2. PICK n \in DOMAIN s[k] : R[m] = s[k][n]
    BY <2>1
  <2>3. CASE ~IsDiverted(events, L[k])
    <3>1. n = 1 /\ s[k][1] = L[k]
      BY <1>4, <2>2, <2>3
    <3> QED BY <2>2, <2>3, <3>1
  <2>4. CASE IsDiverted(events, L[k])
    <3>1. \E i \in Holding(events, L[k].succ) : s[k][n] = Diverted(events, L[k], i)
      BY <1>4, <2>2, <2>4
    <3> QED BY <2>2, <2>4, <3>1
  <2> QED BY <2>3, <2>4
<1>8. ASSUME NEW k \in DOMAIN L, ~IsDiverted(events, L[k])
      PROVE  \E m \in DOMAIN R : R[m] = L[k]
  <2>1. 1 \in DOMAIN s[k] /\ s[k][1] = L[k] /\ k \in DOMAIN s
    BY <1>4, <1>5, <1>8
  <2> QED BY <1>6, <2>1
<1>9. ASSUME NEW k \in DOMAIN L, IsDiverted(events, L[k]), NEW i \in Holding(events, L[k].succ)
      PROVE  \E m \in DOMAIN R : R[m] = Diverted(events, L[k], i)
  <2>1. PICK n \in DOMAIN s[k] : s[k][n] = Diverted(events, L[k], i)
    BY <1>4, <1>9
  <2>2. k \in DOMAIN s
    BY <1>5
  <2>3. PICK m \in DOMAIN R : R[m] = s[k][n]
    BY <1>6, <2>2
  <2> QED BY <2>1, <2>3
<1> QED BY <1>6, <1>7, <1>8, <1>9 DEF Reroutes

HasBoth(X, p, q, r) ==
  /\ r \in Seq(X)
  /\ \A m \in DOMAIN r : (\E i \in DOMAIN p : r[m] = p[i]) \/ (\E i \in DOMAIN q : r[m] = q[i])
  /\ \A i \in DOMAIN p : \E m \in DOMAIN r : r[m] = p[i]
  /\ \A i \in DOMAIN q : \E m \in DOMAIN r : r[m] = q[i]

\* Two lists put together have the members of both, and no others.
LEMMA BothLists ==
  ASSUME NEW X, NEW p \in Seq(X), NEW q \in Seq(X), NEW r, r = p \o q
  PROVE  HasBoth(X, p, q, r)
<1>1. /\ r \in Seq(X) /\ Len(p) \in Nat /\ Len(q) \in Nat
      /\ DOMAIN r = 1..(Len(p) + Len(q)) /\ DOMAIN p = 1..Len(p) /\ DOMAIN q = 1..Len(q)
  OBVIOUS
<1>2. /\ \A m \in 1..Len(p) : r[m] = p[m]
      /\ \A m \in 1..Len(q) : r[Len(p) + m] = q[m]
  OBVIOUS
<1>3. ASSUME NEW m \in DOMAIN r
      PROVE  (\E i \in DOMAIN p : r[m] = p[i]) \/ (\E i \in DOMAIN q : r[m] = q[i])
  <2>1. CASE m \in 1..Len(p)
    BY <1>1, <1>2, <2>1
  <2>2. CASE m \notin 1..Len(p)
    <3>1. m - Len(p) \in DOMAIN q /\ m = Len(p) + (m - Len(p))
      BY <1>1, <2>2
    <3> QED BY <1>1, <1>2, <3>1
  <2> QED BY <2>1, <2>2
<1>4. \A i \in DOMAIN p : i \in DOMAIN r /\ r[i] = p[i]
  BY <1>1, <1>2
<1>5. \A i \in DOMAIN q : Len(p) + i \in DOMAIN r /\ r[Len(p) + i] = q[i]
  BY <1>1, <1>2
<1> QED BY <1>1, <1>3, <1>4, <1>5 DEF HasBoth

\* What a client sends of delays, when they can be put in.
AreDelays(plan, events) ==
  /\ events \in Seq([id : Nat, dur : Int, impacts : Nat, onset : Nat])
  /\ CanImpose(plan, events)

LEMMA DelaysAre ==
  ASSUME NEW plan, IsPlan(plan), NEW events, AreDelays(plan, events)
  PROVE  /\ DOMAIN events = 1..Len(events) /\ Len(events) \in Nat
         /\ IsFiniteSet(DOMAIN events) /\ DOMAIN events \in SUBSET Int /\ DOMAIN events # {}
         /\ \A i \in DOMAIN events :
              /\ events[i].id \in Nat /\ events[i].dur \in Nat /\ events[i].onset \in Nat
              /\ events[i].impacts \in DOMAIN plan.tasks
              /\ ActivityOf(events[i]) \notin DOMAIN plan.tasks
              /\ \A j \in DOMAIN events : ActivityOf(events[j]) = ActivityOf(events[i]) => i = j
<1> DEFINE X == [id : Nat, dur : Int, impacts : Nat, onset : Nat]
<1>1. events \in Seq(X)
  BY DEF AreDelays
<1>2. DOMAIN events = 1..Len(events) /\ Len(events) \in Nat /\ \A i \in DOMAIN events : events[i] \in X
  <2> HIDE DEF X
  <2> QED BY <1>1
<1>3. IsFiniteSet(DOMAIN events) /\ DOMAIN events \in SUBSET Int
  <2>1. 1 \in Int /\ Len(events) \in Int
    BY <1>2
  <2> HIDE DEF X
  <2> QED BY <1>2, <2>1, FS_Interval
<1>4. DOMAIN events # {}
  <2>1. events # <<>>
    BY DEF AreDelays, CanImpose, AreEvents
  <2>2. Len(events) # 0
    <3> HIDE DEF X
    <3> QED BY <1>1, <2>1, EmptySeq
  <2>3. 1 \in DOMAIN events
    <3> HIDE DEF X
    <3> QED BY <1>2, <2>2
  <2> QED BY <2>3
<1>5. ASSUME NEW i \in DOMAIN events
      PROVE  events[i].id \in Nat /\ events[i].dur \in Int /\ events[i].onset \in Nat
  BY <1>2
<1>6. \A i \in DOMAIN events :
        /\ events[i].dur >= 0 /\ events[i].impacts \in DOMAIN plan.tasks
        /\ ActivityOf(events[i]) \notin DOMAIN plan.tasks
        /\ \A j \in DOMAIN events : events[i].id = events[j].id => i = j
  BY DEF AreDelays, CanImpose, AreEvents
<1>7. ASSUME NEW i \in DOMAIN events, NEW j \in DOMAIN events,
             ActivityOf(events[j]) = ActivityOf(events[i])
      PROVE  i = j
  <2>1. events[i].id = events[j].id
    BY <1>5, <1>7 DEF ActivityOf, EventPrefix
  <2> QED BY <1>6, <2>1
<1>8. \A i \in DOMAIN events : events[i].dur \in Nat
  BY <1>5, <1>6
<1> QED BY <1>2, <1>3, <1>4, <1>5, <1>6, <1>7, <1>8

\* Events have names of their own.
LEMMA EventsAreNamed ==
  ASSUME NEW plan, IsPlan(plan), NEW events, AreDelays(plan, events),
         NEW i \in DOMAIN events, NEW j \in DOMAIN events, ActivityOf(events[i]) = ActivityOf(events[j])
  PROVE  i = j
BY DelaysAre

\* The plan I is the plan with the events put in.
Imposed(plan, events, I) ==
  /\ \A a : a \in DOMAIN I.tasks <=>
              a \in DOMAIN plan.tasks \/ \E i \in DOMAIN events : a = ActivityOf(events[i])
  /\ \A a \in DOMAIN plan.tasks : I.tasks[a] = plan.tasks[a]
  /\ \A i \in DOMAIN events : I.tasks[ActivityOf(events[i])] = AsActivity(events[i])
  /\ \A m \in DOMAIN I.links :
       \/ \E k \in DOMAIN plan.links : ~IsDiverted(events, plan.links[k]) /\ I.links[m] = plan.links[k]
       \/ \E k \in DOMAIN plan.links : /\ IsDiverted(events, plan.links[k])
                                       /\ \E i \in Holding(events, plan.links[k].succ) :
                                            I.links[m] = Diverted(events, plan.links[k], i)
       \/ \E i \in DOMAIN events : I.links[m] = Handed(events, i)
  /\ \A k \in DOMAIN plan.links :
       /\ ~IsDiverted(events, plan.links[k]) => \E m \in DOMAIN I.links : I.links[m] = plan.links[k]
       /\ IsDiverted(events, plan.links[k]) =>
            \A i \in Holding(events, plan.links[k].succ) :
              \E m \in DOMAIN I.links : I.links[m] = Diverted(events, plan.links[k], i)
  /\ \A i \in DOMAIN events : \E m \in DOMAIN I.links : I.links[m] = Handed(events, i)

\* Events make no ring: of any activities the one of the plan, or the event before
\* it, that the plan has waiting for none of the others.
LEMMA ImposedHasNoRing ==
  ASSUME NEW plan, IsPlan(plan), NEW events, AreDelays(plan, events), NEW I, Imposed(plan, events, I)
  PROVE  NoRing(I)
<1>1. SUFFICES ASSUME NEW some \in SUBSET DOMAIN I.tasks, some # {}
               PROVE  \E a \in some : \A m \in Into(I, a) : I.links[m].pred \notin some
  BY DEF NoRing
<1> DEFINE A == DOMAIN plan.tasks
           U == {a \in A : a \in some \/ \E i \in DOMAIN events :
                                           events[i].impacts = a /\ ActivityOf(events[i]) \in some}
<1>2. U \in SUBSET A /\ U # {}
  <2>1. PICK a \in some : TRUE
    BY <1>1
  <2>2. a \in A \/ \E i \in DOMAIN events : a = ActivityOf(events[i])
    BY <1>1, <2>1 DEF Imposed
  <2>3. \A i \in DOMAIN events : events[i].impacts \in A
    BY DelaysAre
  <2> QED BY <2>1, <2>2, <2>3
<1>3. PICK u \in U : \A k \in Into(plan, u) : plan.links[k].pred \notin U
  <2> HIDE DEF U
  <2> QED BY <1>2 DEF IsPlan, NoRing
<1>4. \A k \in DOMAIN plan.links : plan.links[k].succ = u => plan.links[k].pred \notin some
  <2>1. SUFFICES ASSUME NEW k \in DOMAIN plan.links, plan.links[k].succ = u, plan.links[k].pred \in some
                 PROVE  FALSE
    OBVIOUS
  <2>2. plan.links[k].pred \in A
    BY InPlan
  <2>3. plan.links[k].pred \in U
    BY <2>1, <2>2
  <2>4. k \in Into(plan, u)
    BY <2>1 DEF Into
  <2> HIDE DEF U
  <2> QED BY <1>3, <2>3, <2>4
<1>5. ASSUME NEW m \in DOMAIN I.links
      PROVE  \/ \E k \in DOMAIN plan.links : I.links[m] = plan.links[k]
             \/ \E k \in DOMAIN plan.links : \E i \in DOMAIN events :
                  /\ events[i].impacts = plan.links[k].succ
                  /\ I.links[m].succ = ActivityOf(events[i]) /\ I.links[m].pred = plan.links[k].pred
             \/ \E i \in DOMAIN events : /\ I.links[m].pred = ActivityOf(events[i])
                                         /\ I.links[m].succ = events[i].impacts
  <2>1. CASE \E k \in DOMAIN plan.links : ~IsDiverted(events, plan.links[k]) /\ I.links[m] = plan.links[k]
    BY <2>1
  <2>2. CASE \E k \in DOMAIN plan.links : \E i \in Holding(events, plan.links[k].succ) :
               I.links[m] = Diverted(events, plan.links[k], i)
    <3>0. PICK k \in DOMAIN plan.links : \E i \in Holding(events, plan.links[k].succ) :
            I.links[m] = Diverted(events, plan.links[k], i)
      BY <2>2
    <3>1. PICK i \in Holding(events, plan.links[k].succ) :
            I.links[m] = Diverted(events, plan.links[k], i)
      BY <3>0
    <3>2. PICK l : l = plan.links[k]
      OBVIOUS
    <3>3. l \in LinksIn(A)
      BY <3>2, InPlan DEF LinksIn
    <3>4. I.links[m].succ = ActivityOf(events[i]) /\ I.links[m].pred = l.pred
      BY <3>1, <3>2, <3>3 DEF Diverted, LinksIn
    <3>5. i \in DOMAIN events /\ events[i].impacts = plan.links[k].succ
      BY <3>1 DEF Holding
    <3> QED BY <3>2, <3>4, <3>5
  <2>3. CASE \E i \in DOMAIN events : I.links[m] = Handed(events, i)
    <3>1. PICK i \in DOMAIN events : I.links[m] = Handed(events, i)
      BY <2>3
    <3>2. I.links[m].pred = ActivityOf(events[i]) /\ I.links[m].succ = events[i].impacts
      BY <3>1 DEF Handed, FS
    <3> QED BY <3>2
  <2> QED BY <2>1, <2>2, <2>3 DEF Imposed
<1>6. CASE \E i \in DOMAIN events : events[i].impacts = u /\ ActivityOf(events[i]) \in some
  <2>1. PICK i \in DOMAIN events : events[i].impacts = u /\ ActivityOf(events[i]) \in some
    BY <1>6
  <2>2. ASSUME NEW m \in Into(I, ActivityOf(events[i])) PROVE I.links[m].pred \notin some
    <3>1. m \in DOMAIN I.links /\ I.links[m].succ = ActivityOf(events[i])
      BY DEF Into
    <3>2. ActivityOf(events[i]) \notin A
      BY DelaysAre
    <3>3. \A k \in DOMAIN plan.links : I.links[m] # plan.links[k]
      BY <3>1, <3>2, InPlan
    <3>4. \A j \in DOMAIN events : I.links[m].succ # events[j].impacts
      BY <3>1, <3>2, DelaysAre
    <3>5. PICK k \in DOMAIN plan.links, j \in DOMAIN events :
            /\ events[j].impacts = plan.links[k].succ
            /\ I.links[m].succ = ActivityOf(events[j]) /\ I.links[m].pred = plan.links[k].pred
      BY <1>5, <3>1, <3>3, <3>4
    <3>6. ActivityOf(events[i]) = ActivityOf(events[j]) => i = j
      BY EventsAreNamed
    <3> HIDE DEF U
    <3>7. plan.links[k].succ = u
      BY <2>1, <3>1, <3>5, <3>6
    <3> QED BY <1>4, <3>5, <3>7
  <2> QED BY <2>1, <2>2
<1>7. CASE ~ \E i \in DOMAIN events : events[i].impacts = u /\ ActivityOf(events[i]) \in some
  <2>1. u \in some /\ u \in A
    BY <1>7
  <2>2. ASSUME NEW m \in Into(I, u) PROVE I.links[m].pred \notin some
    <3>1. m \in DOMAIN I.links /\ I.links[m].succ = u
      BY DEF Into
    <3>2. \A i \in DOMAIN events : ActivityOf(events[i]) # u
      BY <2>1, DelaysAre
    <3>3. CASE \E k \in DOMAIN plan.links : I.links[m] = plan.links[k]
      BY <1>4, <3>1, <3>3
    <3>4. CASE \E i \in DOMAIN events : /\ I.links[m].pred = ActivityOf(events[i])
                                         /\ I.links[m].succ = events[i].impacts
      <4> HIDE DEF U
      <4> QED BY <1>7, <3>1, <3>4
    <3> HIDE DEF U
    <3> QED BY <1>5, <3>1, <3>2, <3>3, <3>4
  <2> QED BY <2>1, <2>2
<1> QED BY <1>6, <1>7

\* With the events put in, a plan is a plan.
LEMMA ImposeIs ==
  ASSUME NEW plan, IsPlan(plan), NEW events, AreDelays(plan, events), NEW I, I = Impose(plan, events)
  PROVE  Imposed(plan, events, I) /\ IsPlan(I)
<1> DEFINE T == [dur : Nat, floor : Nat, code : Nat]
<1>1. PICK A, added, B : /\ A = DOMAIN plan.tasks
                         /\ added = {ActivityOf(events[i]) : i \in DOMAIN events}
                         /\ B = A \cup added
  OBVIOUS
<1>2. PICK tasks : tasks = [a \in B |->
                      IF a \in added
                      THEN AsActivity(events[CHOOSE i \in DOMAIN events : ActivityOf(events[i]) = a])
                      ELSE plan.tasks[a]]
  OBVIOUS
<1>3. PICK R, H, links : /\ R = Rerouted(plan.links, events)
                         /\ H = [i \in DOMAIN events |-> FS(ActivityOf(events[i]), events[i].impacts, 0)]
                         /\ links = R \o H
  OBVIOUS
<1>4. I = [tasks |-> tasks, links |-> links] /\ I.tasks = tasks /\ I.links = links
  <2>1. I = [tasks |-> tasks, links |-> links]
    BY <1>1, <1>2, <1>3 DEF Impose
  <2> QED BY <2>1
<1>5. /\ DOMAIN tasks = B
      /\ \A a : a \in B <=> a \in A \/ \E i \in DOMAIN events : a = ActivityOf(events[i])
  BY <1>1, <1>2
<1>6. \A a \in A : tasks[a] = plan.tasks[a] /\ a \in B
  <2>1. SUFFICES ASSUME NEW a \in A PROVE tasks[a] = plan.tasks[a] /\ a \in B
    OBVIOUS
  <2>2. a \notin added
    BY <1>1, DelaysAre
  <2> QED BY <1>1, <1>2, <2>2
<1>7. ASSUME NEW i \in DOMAIN events PROVE tasks[ActivityOf(events[i])] = AsActivity(events[i])
  <2>1. ActivityOf(events[i]) \in added /\ ActivityOf(events[i]) \in B
    BY <1>1
  <2>2. PICK j : j = (CHOOSE n \in DOMAIN events : ActivityOf(events[n]) = ActivityOf(events[i]))
    OBVIOUS
  <2>3. j \in DOMAIN events /\ ActivityOf(events[j]) = ActivityOf(events[i])
    BY <2>2
  <2>4. j = i
    BY <2>3, EventsAreNamed
  <2>5. tasks[ActivityOf(events[i])] = AsActivity(events[j])
    BY <1>2, <2>1, <2>2
  <2> QED BY <2>4, <2>5
<1>8. plan.links \in Seq(LinksIn(B))
  <2>1. plan.links \in Seq(LinksIn(A))
    BY <1>1 DEF IsPlan, LinksIn
  <2>2. \A l \in LinksIn(A) : l \in LinksIn(B)
    BY <1>1 DEF LinksIn
  <2> QED BY <2>1, <2>2
<1>9. R \in Seq(LinksIn(B)) /\ Reroutes(events, plan.links, R)
  <2>1. IsFiniteSet(DOMAIN events) /\ DOMAIN events \in SUBSET Int
    BY DelaysAre
  <2>2. \A i \in DOMAIN events : ActivityOf(events[i]) \in B
    BY <1>5
  <2>3. R = Rerouted(plan.links, events)
    BY <1>3
  <2> QED BY <1>8, <2>1, <2>2, <2>3, ReroutedIs
<1>10. H \in Seq(LinksIn(B)) /\ DOMAIN H = DOMAIN events /\ \A i \in DOMAIN events : H[i] = Handed(events, i)
  <2>1. DOMAIN H = DOMAIN events /\ \A i \in DOMAIN events : H[i] = Handed(events, i)
    BY <1>3 DEF Handed
  <2>2. ASSUME NEW i \in DOMAIN events PROVE H[i] \in LinksIn(B)
    <3>1. ActivityOf(events[i]) \in B /\ events[i].impacts \in B
      BY <1>1, <1>5, DelaysAre
    <3> QED BY <2>1, <3>1 DEF Handed, FS, LinksIn
  <2>3. DOMAIN events = 1..Len(events) /\ Len(events) \in Nat
    BY DelaysAre
  <2>4. H = [i \in 1..Len(events) |-> H[i]]
    BY <1>3, <2>1, <2>3
  <2>5. H \in [1..Len(events) -> LinksIn(B)]
    BY <2>2, <2>3, <2>4
  <2>6. H \in Seq(LinksIn(B))
    BY <2>3, <2>5
  <2> QED BY <2>1, <2>6
<1>11. /\ links \in Seq(LinksIn(B))
       /\ \A m \in DOMAIN links : (\E i \in DOMAIN R : links[m] = R[i]) \/ (\E i \in DOMAIN H : links[m] = H[i])
       /\ \A i \in DOMAIN R : \E m \in DOMAIN links : links[m] = R[i]
       /\ \A i \in DOMAIN H : \E m \in DOMAIN links : links[m] = H[i]
  <2>1. R \in Seq(LinksIn(B)) /\ H \in Seq(LinksIn(B)) /\ links = R \o H
    BY <1>3, <1>9, <1>10
  <2>2. HasBoth(LinksIn(B), R, H, links)
    BY <2>1, BothLists
  <2> QED BY <2>2 DEF HasBoth
<1>12. Imposed(plan, events, I)
  <2>1. ASSUME NEW m \in DOMAIN links
        PROVE  \/ \E k \in DOMAIN plan.links : ~IsDiverted(events, plan.links[k]) /\ links[m] = plan.links[k]
               \/ \E k \in DOMAIN plan.links : /\ IsDiverted(events, plan.links[k])
                                               /\ \E i \in Holding(events, plan.links[k].succ) :
                                                    links[m] = Diverted(events, plan.links[k], i)
               \/ \E i \in DOMAIN events : links[m] = Handed(events, i)
    <3>1. CASE \E i \in DOMAIN R : links[m] = R[i]
      <4>1. PICK n \in DOMAIN R : links[m] = R[n]
        BY <3>1
      <4>2. PICK k \in DOMAIN plan.links :
              \/ ~IsDiverted(events, plan.links[k]) /\ R[n] = plan.links[k]
              \/ /\ IsDiverted(events, plan.links[k])
                 /\ \E i \in Holding(events, plan.links[k].succ) : R[n] = Diverted(events, plan.links[k], i)
        BY <1>9 DEF Reroutes
      <4> QED BY <4>1, <4>2
    <3>2. CASE \E i \in DOMAIN H : links[m] = H[i]
      BY <1>10, <3>2
    <3> QED BY <1>11, <3>1, <3>2
  <2>2. ASSUME NEW k \in DOMAIN plan.links, ~IsDiverted(events, plan.links[k])
        PROVE  \E m \in DOMAIN links : links[m] = plan.links[k]
    BY <1>9, <1>11, <2>2 DEF Reroutes
  <2>3. ASSUME NEW k \in DOMAIN plan.links, IsDiverted(events, plan.links[k]),
               NEW i \in Holding(events, plan.links[k].succ)
        PROVE  \E m \in DOMAIN links : links[m] = Diverted(events, plan.links[k], i)
    <3>1. PICK n \in DOMAIN R : R[n] = Diverted(events, plan.links[k], i)
      BY <1>9, <2>3 DEF Reroutes
    <3> QED BY <1>11, <3>1
  <2>4. \A i \in DOMAIN events : \E m \in DOMAIN links : links[m] = Handed(events, i)
    BY <1>10, <1>11
  <2>5. \A a \in DOMAIN plan.tasks : tasks[a] = plan.tasks[a]
    BY <1>1, <1>6
  <2>6. \A a : a \in DOMAIN tasks <=>
               a \in DOMAIN plan.tasks \/ \E i \in DOMAIN events : a = ActivityOf(events[i])
    BY <1>1, <1>5
  <2> QED BY <1>4, <1>7, <2>1, <2>2, <2>3, <2>4, <2>5, <2>6 DEF Imposed
<1>13. IsPlan(I)
  <2>1. IsFiniteSet(B) /\ B # {}
    <3>1. IsFiniteSet(A) /\ A # {} /\ IsFiniteSet(DOMAIN events)
      BY <1>1, InPlan, DelaysAre
    <3> DEFINE f == [i \in DOMAIN events |-> ActivityOf(events[i])]
    <3>2. added = {f[i] : i \in DOMAIN events} /\ DOMAIN f = DOMAIN events
      BY <1>1
    <3> HIDE DEF f
    <3>3. IsFiniteSet(added)
      BY <3>1, <3>2, FinitelyMany
    <3> QED BY <1>1, <3>1, <3>3, FS_Union
  <2>2. tasks \in [B -> T]
    <3>1. ASSUME NEW a \in B PROVE tasks[a] \in T
      <4>1. CASE a \in A
        BY <1>1, <1>6, <4>1, InPlan
      <4>2. CASE a \notin A
        <5>1. PICK i \in DOMAIN events : a = ActivityOf(events[i])
          BY <1>5, <4>2
        <5>2. events[i].dur \in Nat /\ events[i].onset \in Nat
          BY DelaysAre
        <5>3. tasks[a] = [dur |-> events[i].dur, floor |-> events[i].onset, code |-> 0]
          BY <1>7, <5>1 DEF AsActivity
        <5> QED BY <5>2, <5>3
      <4> QED BY <4>1, <4>2
    <3>2. tasks = [a \in B |-> tasks[a]]
      BY <1>2
    <3> HIDE DEF T
    <3> QED BY <3>1, <3>2
  <2>3. NoRing(I)
    BY <1>12, ImposedHasNoRing
  <2> QED BY <1>4, <1>5, <1>11, <2>1, <2>2, <2>3 DEF IsPlan, LinksIn
<1> QED BY <1>12, <1>13

\* The starts h keep the plan with the events put in.
MeetsDelayed(plan, events, h) ==
  /\ \A a \in DOMAIN plan.tasks : h[a] \in Int /\ plan.tasks[a].floor <= h[a]
  /\ \A i \in DOMAIN events :
       /\ h[ActivityOf(events[i])] \in Int /\ events[i].onset <= h[ActivityOf(events[i])]
       /\ h[ActivityOf(events[i])] + events[i].dur <= h[events[i].impacts]
  /\ \A k \in DOMAIN plan.links :
       /\ ~IsDiverted(events, plan.links[k]) =>
            h[plan.links[k].pred] + Off(plan, k) <= h[plan.links[k].succ]
       /\ IsDiverted(events, plan.links[k]) =>
            \A i \in Holding(events, plan.links[k].succ) :
              h[plan.links[k].pred] + Off(plan, k) <= h[ActivityOf(events[i])]

\* An event takes its days, from its onset on.
LEMMA EventIs ==
  ASSUME NEW plan, NEW events, NEW I, Imposed(plan, events, I), NEW i \in DOMAIN events
  PROVE  /\ ActivityOf(events[i]) \in DOMAIN I.tasks
         /\ I.tasks[ActivityOf(events[i])].dur = events[i].dur
         /\ I.tasks[ActivityOf(events[i])].floor = events[i].onset
<1>1. ActivityOf(events[i]) \in DOMAIN I.tasks /\ I.tasks[ActivityOf(events[i])] = AsActivity(events[i])
  BY Zenon DEF Imposed
<1>2. AsActivity(events[i]).dur = events[i].dur /\ AsActivity(events[i]).floor = events[i].onset
  BY DEF AsActivity
<1> QED BY <1>1, <1>2

\* A link left where it was asks what it asked.
LEMMA KeptOff ==
  ASSUME NEW plan, IsPlan(plan), NEW events, NEW I, Imposed(plan, events, I),
         NEW m \in DOMAIN I.links, NEW k \in DOMAIN plan.links, I.links[m] = plan.links[k]
  PROVE  /\ I.links[m].pred = plan.links[k].pred /\ I.links[m].succ = plan.links[k].succ
         /\ Off(I, m) = Off(plan, k)
<1>1. plan.links[k].pred \in DOMAIN plan.tasks /\ plan.links[k].succ \in DOMAIN plan.tasks
  BY InPlan
<1>2. /\ I.tasks[plan.links[k].pred] = plan.tasks[plan.links[k].pred]
      /\ I.tasks[plan.links[k].succ] = plan.tasks[plan.links[k].succ]
  BY <1>1 DEF Imposed
<1> QED BY <1>2 DEF Off, StartBound

\* A link led through an event asks the same of the event.
LEMMA DivertedOff ==
  ASSUME NEW plan, IsPlan(plan), NEW events, NEW I, Imposed(plan, events, I),
         NEW m \in DOMAIN I.links, NEW k \in DOMAIN plan.links, IsDiverted(events, plan.links[k]),
         NEW i \in DOMAIN events, I.links[m] = Diverted(events, plan.links[k], i)
  PROVE  /\ I.links[m].pred = plan.links[k].pred /\ I.links[m].succ = ActivityOf(events[i])
         /\ Off(I, m) = Off(plan, k)
<1>1. PICK l : l = plan.links[k]
  OBVIOUS
<1>2. l \in LinksIn(DOMAIN plan.tasks) /\ l.pred \in DOMAIN plan.tasks /\ l.lag \in Int
  BY <1>1, InPlan DEF LinksIn
<1>3. l.type = "FS"
  BY <1>1 DEF IsDiverted
<1>4. PICK d : d = I.links[m]
  OBVIOUS
<1>5. d.pred = l.pred /\ d.succ = ActivityOf(events[i]) /\ d.type = "FS" /\ d.lag = l.lag
  BY <1>1, <1>2, <1>3, <1>4 DEF Diverted, LinksIn
<1>6. I.tasks[l.pred] = plan.tasks[l.pred] /\ plan.tasks[l.pred].dur \in Int
  BY <1>2, InPlan DEF Imposed
<1>7. Off(plan, k) = 0 + plan.tasks[l.pred].dur + l.lag - 0
  BY <1>1, <1>3 DEF Off, StartBound
<1>8. Off(I, m) = 0 + plan.tasks[l.pred].dur + l.lag - 0
  BY <1>4, <1>5, <1>6 DEF Off, StartBound
<1> QED BY <1>1, <1>4, <1>5, <1>7, <1>8

\* From an event to the work it holds up pass its days.
LEMMA HandedOff ==
  ASSUME NEW plan, IsPlan(plan), NEW events, AreDelays(plan, events), NEW I, Imposed(plan, events, I),
         NEW m \in DOMAIN I.links, NEW i \in DOMAIN events, I.links[m] = Handed(events, i)
  PROVE  /\ I.links[m].pred = ActivityOf(events[i]) /\ I.links[m].succ = events[i].impacts
         /\ Off(I, m) = events[i].dur
<1>1. PICK l : l = I.links[m]
  OBVIOUS
<1>2. l.pred = ActivityOf(events[i]) /\ l.succ = events[i].impacts /\ l.type = "FS" /\ l.lag = 0
  BY <1>1 DEF Handed, FS
<1>3. I.tasks[l.pred].dur = events[i].dur
  BY <1>2, EventIs
<1>4. Off(I, m) = 0 + events[i].dur + 0 - 0
  BY <1>1, <1>2, <1>3 DEF Off, StartBound
<1>5. events[i].dur \in Int
  BY DelaysAre
<1> QED BY <1>1, <1>2, <1>4, <1>5

\* What keeping the plan with the events put in comes to.
LEMMA MeetingDelays ==
  ASSUME NEW plan, IsPlan(plan), NEW events, AreDelays(plan, events), NEW I, Imposed(plan, events, I),
         NEW h
  PROVE  Meets(I, h) <=> MeetsDelayed(plan, events, h)
<1>1. ASSUME Meets(I, h) PROVE MeetsDelayed(plan, events, h)
  <2>1. ASSUME NEW a \in DOMAIN plan.tasks PROVE h[a] \in Int /\ plan.tasks[a].floor <= h[a]
    <3>1. a \in DOMAIN I.tasks /\ I.tasks[a] = plan.tasks[a]
      BY DEF Imposed
    <3> QED BY <1>1, <3>1 DEF Meets
  <2>2. ASSUME NEW i \in DOMAIN events
        PROVE  /\ h[ActivityOf(events[i])] \in Int /\ events[i].onset <= h[ActivityOf(events[i])]
               /\ h[ActivityOf(events[i])] + events[i].dur <= h[events[i].impacts]
    <3>1. ActivityOf(events[i]) \in DOMAIN I.tasks /\ I.tasks[ActivityOf(events[i])].floor = events[i].onset
      BY EventIs
    <3>2. PICK m \in DOMAIN I.links : I.links[m] = Handed(events, i)
      BY DEF Imposed
    <3>3. /\ I.links[m].pred = ActivityOf(events[i]) /\ I.links[m].succ = events[i].impacts
          /\ Off(I, m) = events[i].dur
      BY <3>2, HandedOff
    <3> QED BY <1>1, <3>1, <3>3 DEF Meets
  <2>3. ASSUME NEW k \in DOMAIN plan.links, ~IsDiverted(events, plan.links[k])
        PROVE  h[plan.links[k].pred] + Off(plan, k) <= h[plan.links[k].succ]
    <3>1. PICK m \in DOMAIN I.links : I.links[m] = plan.links[k]
      BY <2>3 DEF Imposed
    <3>2. /\ I.links[m].pred = plan.links[k].pred /\ I.links[m].succ = plan.links[k].succ
          /\ Off(I, m) = Off(plan, k)
      BY <3>1, KeptOff
    <3>3. h[I.links[m].pred] + Off(I, m) <= h[I.links[m].succ]
      BY <1>1 DEF Meets
    <3> QED BY <3>2, <3>3
  <2>4. ASSUME NEW k \in DOMAIN plan.links, IsDiverted(events, plan.links[k]),
               NEW i \in Holding(events, plan.links[k].succ)
        PROVE  h[plan.links[k].pred] + Off(plan, k) <= h[ActivityOf(events[i])]
    <3>1. PICK m \in DOMAIN I.links : I.links[m] = Diverted(events, plan.links[k], i)
      BY <2>4 DEF Imposed
    <3>2. i \in DOMAIN events
      BY DEF Holding
    <3>3. /\ I.links[m].pred = plan.links[k].pred /\ I.links[m].succ = ActivityOf(events[i])
          /\ Off(I, m) = Off(plan, k)
      BY <2>4, <3>1, <3>2, DivertedOff
    <3>4. h[I.links[m].pred] + Off(I, m) <= h[I.links[m].succ]
      BY <1>1 DEF Meets
    <3> QED BY <3>3, <3>4
  <2> QED BY <2>1, <2>2, <2>3, <2>4 DEF MeetsDelayed
<1>2. ASSUME MeetsDelayed(plan, events, h) PROVE Meets(I, h)
  <2>1. ASSUME NEW a \in DOMAIN I.tasks PROVE h[a] \in Int /\ I.tasks[a].floor <= h[a]
    <3>1. CASE a \in DOMAIN plan.tasks
      <4>1. I.tasks[a] = plan.tasks[a]
        BY <3>1 DEF Imposed
      <4> QED BY <1>2, <3>1, <4>1 DEF MeetsDelayed
    <3>2. CASE a \notin DOMAIN plan.tasks
      <4>1. PICK i \in DOMAIN events : a = ActivityOf(events[i])
        BY <3>2 DEF Imposed
      <4>2. I.tasks[a].floor = events[i].onset
        BY <4>1, EventIs
      <4> QED BY <1>2, <4>1, <4>2 DEF MeetsDelayed
    <3> QED BY <3>1, <3>2
  <2>2. ASSUME NEW m \in DOMAIN I.links
        PROVE  h[I.links[m].pred] + Off(I, m) <= h[I.links[m].succ]
    <3>1. CASE \E k \in DOMAIN plan.links : ~IsDiverted(events, plan.links[k]) /\ I.links[m] = plan.links[k]
      <4>1. PICK k \in DOMAIN plan.links : ~IsDiverted(events, plan.links[k]) /\ I.links[m] = plan.links[k]
        BY <3>1
      <4>2. /\ I.links[m].pred = plan.links[k].pred /\ I.links[m].succ = plan.links[k].succ
            /\ Off(I, m) = Off(plan, k)
        BY <4>1, KeptOff
      <4> QED BY <1>2, <4>1, <4>2 DEF MeetsDelayed
    <3>2. CASE \E k \in DOMAIN plan.links : /\ IsDiverted(events, plan.links[k])
                                            /\ \E i \in Holding(events, plan.links[k].succ) :
                                                 I.links[m] = Diverted(events, plan.links[k], i)
      <4>1. PICK k \in DOMAIN plan.links : /\ IsDiverted(events, plan.links[k])
                                           /\ \E i \in Holding(events, plan.links[k].succ) :
                                                I.links[m] = Diverted(events, plan.links[k], i)
        BY <3>2
      <4>2. PICK i \in Holding(events, plan.links[k].succ) : I.links[m] = Diverted(events, plan.links[k], i)
        BY <4>1
      <4>3. i \in DOMAIN events
        BY DEF Holding
      <4>4. /\ I.links[m].pred = plan.links[k].pred /\ I.links[m].succ = ActivityOf(events[i])
            /\ Off(I, m) = Off(plan, k)
        BY <4>1, <4>2, <4>3, DivertedOff
      <4> QED BY <1>2, <4>1, <4>4 DEF MeetsDelayed
    <3>3. CASE \E i \in DOMAIN events : I.links[m] = Handed(events, i)
      <4>1. PICK i \in DOMAIN events : I.links[m] = Handed(events, i)
        BY <3>3
      <4>2. /\ I.links[m].pred = ActivityOf(events[i]) /\ I.links[m].succ = events[i].impacts
            /\ Off(I, m) = events[i].dur
        BY <4>1, HandedOff
      <4> QED BY <1>2, <4>2 DEF MeetsDelayed
    <3> QED BY <3>1, <3>2, <3>3 DEF Imposed
  <2> QED BY <2>1, <2>2 DEF Meets
<1> QED BY <1>1, <1>2

\* Starts that keep the plan with events put in keep the plan.
LEMMA DelayedStillMeets ==
  ASSUME NEW plan, IsPlan(plan), NEW events, AreDelays(plan, events), NEW h, MeetsDelayed(plan, events, h)
  PROVE  Meets(plan, h)
<1>1. ASSUME NEW k \in DOMAIN plan.links
      PROVE  h[plan.links[k].pred] + Off(plan, k) <= h[plan.links[k].succ]
  <2>1. CASE ~IsDiverted(events, plan.links[k])
    BY <2>1 DEF MeetsDelayed
  <2>2. CASE IsDiverted(events, plan.links[k])
    <3>1. PICK i \in Holding(events, plan.links[k].succ) : TRUE
      BY <2>2 DEF IsDiverted
    <3>2. i \in DOMAIN events /\ events[i].impacts = plan.links[k].succ
      BY DEF Holding
    <3>3. /\ h[plan.links[k].pred] + Off(plan, k) <= h[ActivityOf(events[i])]
          /\ h[ActivityOf(events[i])] \in Int
          /\ h[ActivityOf(events[i])] + events[i].dur <= h[plan.links[k].succ]
      BY <2>2, <3>2 DEF MeetsDelayed
    <3>4. /\ h[plan.links[k].pred] \in Int /\ h[plan.links[k].succ] \in Int /\ Off(plan, k) \in Int
          /\ events[i].dur \in Nat
      <4>1. /\ plan.links[k].pred \in DOMAIN plan.tasks /\ plan.links[k].succ \in DOMAIN plan.tasks
            /\ Off(plan, k) \in Int
        BY InPlan
      <4>2. events[i].dur \in Nat
        BY <3>2, DelaysAre
      <4> QED BY <4>1, <4>2 DEF MeetsDelayed
    <3> QED BY <3>3, <3>4
  <2> QED BY <2>1, <2>2
<1> QED BY <1>1 DEF Meets, MeetsDelayed

\* The early starts with the events put in.
LEMMA DelayedStarts ==
  ASSUME NEW plan, IsPlan(plan), NEW events, AreDelays(plan, events),
         NEW I, I = Impose(plan, events), NEW h, h = EarlyStarts(I)
  PROVE  /\ MeetsDelayed(plan, events, h) /\ FinishDay(I) \in Int
         /\ \A a \in DOMAIN plan.tasks : h[a] + plan.tasks[a].dur <= FinishDay(I)
<1>1. Imposed(plan, events, I) /\ IsPlan(I)
  BY ImposeIs
<1>2. Meets(I, h)
  BY <1>1, EarlyStartsAre
<1>3. MeetsDelayed(plan, events, h)
  BY <1>1, <1>2, MeetingDelays
<1>4. FinishDay(I) \in Int /\ \A a \in DOMAIN I.tasks : h[a] + I.tasks[a].dur <= FinishDay(I)
  BY <1>1, FinishIs
<1>5. \A a \in DOMAIN plan.tasks : a \in DOMAIN I.tasks /\ I.tasks[a] = plan.tasks[a]
  BY <1>1 DEF Imposed
<1> QED BY <1>3, <1>4, <1>5

\* No starts that keep the plan with the events put in finish it earlier.
LEMMA DelayedFinishesBy ==
  ASSUME NEW plan, IsPlan(plan), NEW events, AreDelays(plan, events),
         NEW I, I = Impose(plan, events), NEW g, MeetsDelayed(plan, events, g),
         NEW m \in Int, \A a \in DOMAIN plan.tasks : g[a] + plan.tasks[a].dur <= m
  PROVE  FinishDay(I) <= m
<1>1. Imposed(plan, events, I) /\ IsPlan(I)
  BY ImposeIs
<1>2. Meets(I, g)
  BY <1>1, MeetingDelays
<1>3. ASSUME NEW a \in DOMAIN I.tasks PROVE g[a] + I.tasks[a].dur <= m
  <2>1. CASE a \in DOMAIN plan.tasks
    <3>1. I.tasks[a] = plan.tasks[a]
      BY <1>1, <2>1 DEF Imposed
    <3> QED BY <2>1, <3>1
  <2>2. CASE a \notin DOMAIN plan.tasks
    <3>1. PICK i \in DOMAIN events : a = ActivityOf(events[i])
      BY <1>1, <2>2 DEF Imposed
    <3>2. I.tasks[a].dur = events[i].dur
      BY <1>1, <3>1, EventIs
    <3>3. PICK b : b = events[i].impacts
      OBVIOUS
    <3>4. b \in DOMAIN plan.tasks /\ plan.tasks[b].dur \in Nat /\ events[i].dur \in Nat
      BY <3>3, DelaysAre, InPlan
    <3>5. g[a] \in Int /\ g[a] + events[i].dur <= g[b] /\ g[b] \in Int
      BY <3>1, <3>3, <3>4 DEF MeetsDelayed
    <3>6. g[b] + plan.tasks[b].dur <= m
      BY <3>4
    <3> QED BY <3>2, <3>4, <3>5, <3>6
  <2> QED BY <2>1, <2>2
<1> QED BY <1>1, <1>2, <1>3, FinishesBy

\* Of the events put in, each can be put in alone,
LEMMA OneDelay ==
  ASSUME NEW plan, IsPlan(plan), NEW events, AreDelays(plan, events),
         NEW i \in DOMAIN events, NEW one, one = <<events[i]>>
  PROVE  DOMAIN one = {1} /\ one[1] = events[i] /\ AreDelays(plan, one)
<1> DEFINE X == [id : Nat, dur : Int, impacts : Nat, onset : Nat]
<1>1. events \in Seq(X)
  BY DEF AreDelays
<1>2. events[i] \in X
  <2>1. i \in 1..Len(events)
    BY DelaysAre
  <2> HIDE DEF X
  <2> QED BY <1>1, <2>1
<1> HIDE DEF X
<1>3. one \in Seq(X) /\ DOMAIN one = {1} /\ one[1] = events[i] /\ one # <<>>
  <2>1. DOMAIN one = {1} /\ one[1] = events[i] /\ one # <<>>
    OBVIOUS
  <2>2. one \in Seq(X)
    BY <1>2
  <2> QED BY <2>1, <2>2
<1>4. /\ events[i].dur >= 0 /\ events[i].impacts \in DOMAIN plan.tasks
      /\ ActivityOf(events[i]) \notin DOMAIN plan.tasks
  <2>1. /\ events[i].dur \in Nat /\ events[i].impacts \in DOMAIN plan.tasks
        /\ ActivityOf(events[i]) \notin DOMAIN plan.tasks
    BY DelaysAre
  <2> QED BY <2>1
<1>5. CanImpose(plan, one)
  BY <1>3, <1>4 DEF CanImpose, AreEvents
<1> QED BY <1>3, <1>5 DEF AreDelays, X

\* ... and starts that keep the plan with all of them keep it with one.
LEMMA OneIsMet ==
  ASSUME NEW plan, IsPlan(plan), NEW events, AreDelays(plan, events), NEW h, MeetsDelayed(plan, events, h),
         NEW i \in DOMAIN events, NEW one, one = <<events[i]>>
  PROVE  MeetsDelayed(plan, one, h)
<1>1. DOMAIN one = {1} /\ one[1] = events[i]
  BY OneDelay
<1>2. Meets(plan, h)
  BY DelayedStillMeets
<1>3. ASSUME NEW k \in DOMAIN plan.links, IsDiverted(one, plan.links[k])
      PROVE  h[plan.links[k].pred] + Off(plan, k) <= h[ActivityOf(events[i])]
  <2>1. plan.links[k].type = "FS" /\ events[i].impacts = plan.links[k].succ
    BY <1>1, <1>3 DEF IsDiverted, Holding
  <2>2. i \in Holding(events, plan.links[k].succ)
    BY <2>1 DEF Holding
  <2>3. IsDiverted(events, plan.links[k])
    BY <2>1, <2>2 DEF IsDiverted
  <2> QED BY <2>2, <2>3 DEF MeetsDelayed
<1>4. \A k \in DOMAIN plan.links : \A j \in Holding(one, plan.links[k].succ) : one[j] = events[i]
  BY <1>1 DEF Holding
<1> QED BY <1>1, <1>2, <1>3, <1>4 DEF MeetsDelayed, Meets

\* Putting delays in, one costs no less than nothing and no more than all.
LEMMA ImpactedIsBound ==
  ASSUME NEW plan, IsPlan(plan), NEW events, AreDelays(plan, events),
         NEW r, r = ImpactedAsPlanned(plan, events)
  PROVE  /\ EventsBound(r)
         /\ r.total = FinishDay(Impose(plan, events)) - FinishDay(plan)
         /\ DOMAIN r.each = DOMAIN events
         /\ \A i \in DOMAIN events : r.each[i] = FinishDay(Impose(plan, <<events[i]>>)) - FinishDay(plan)
<1>1. PICK f, F, g : /\ f = FinishDay(plan) /\ F = FinishDay(Impose(plan, events))
                     /\ g = [i \in DOMAIN events |-> FinishDay(Impose(plan, <<events[i]>>)) - f]
  OBVIOUS
<1>2. r = Modelled(f, F, g)
  BY <1>1 DEF ImpactedAsPlanned
<1>3. r.each = g /\ r.total = F - f /\ r.before = f /\ r.after = F
  BY <1>2 DEF Modelled
<1>4. f \in Int
  BY <1>1, FinishIs
<1>5. F \in Int
  BY <1>1, DelayedStarts
<1>6. ASSUME NEW i \in DOMAIN events
      PROVE  /\ FinishDay(Impose(plan, <<events[i]>>)) \in Int
             /\ f <= FinishDay(Impose(plan, <<events[i]>>))
             /\ FinishDay(Impose(plan, <<events[i]>>)) <= F
  <2>1. PICK one, I, J : one = <<events[i]>> /\ I = Impose(plan, one) /\ J = Impose(plan, events)
    OBVIOUS
  <2>2. AreDelays(plan, one)
    BY <2>1, OneDelay
  <2>3. PICK h : h = EarlyStarts(I)
    OBVIOUS
  <2>4. /\ MeetsDelayed(plan, one, h) /\ FinishDay(I) \in Int
        /\ \A a \in DOMAIN plan.tasks : h[a] + plan.tasks[a].dur <= FinishDay(I)
    BY <2>1, <2>2, <2>3, DelayedStarts
  <2>5. Meets(plan, h)
    BY <2>2, <2>4, DelayedStillMeets
  <2>6. f <= FinishDay(I)
    BY <1>1, <2>4, <2>5, FinishesBy
  <2>7. PICK g2 : g2 = EarlyStarts(J)
    OBVIOUS
  <2>8. /\ MeetsDelayed(plan, events, g2)
        /\ \A a \in DOMAIN plan.tasks : g2[a] + plan.tasks[a].dur <= F
    BY <1>1, <2>1, <2>7, DelayedStarts
  <2>9. MeetsDelayed(plan, one, g2)
    BY <2>1, <2>8, OneIsMet
  <2>10. FinishDay(I) <= F
    BY <1>5, <2>1, <2>2, <2>8, <2>9, DelayedFinishesBy
  <2> QED BY <2>1, <2>4, <2>6, <2>10
<1>7. \A i \in DOMAIN events : g[i] = FinishDay(Impose(plan, <<events[i]>>)) - f
  BY <1>1
<1>8. DOMAIN g = DOMAIN events
  BY <1>1
<1>9. ASSUME NEW i \in DOMAIN g PROVE 0 <= g[i] /\ g[i] <= F - f
  <2>1. i \in DOMAIN events
    BY <1>8
  <2>2. PICK x : x = FinishDay(Impose(plan, <<events[i]>>))
    OBVIOUS
  <2>3. x \in Int /\ f <= x /\ x <= F
    BY <1>6, <2>1, <2>2
  <2>4. g[i] = x - f
    BY <1>7, <2>1, <2>2
  <2> QED BY <1>4, <1>5, <2>3, <2>4
<1>10. EventsBound(r)
  BY <1>3, <1>4, <1>5, <1>9 DEF EventsBound
<1> QED BY <1>1, <1>3, <1>7, <1>8, <1>10

\* The early starts, the late ones, and what lies between them.
LEMMA EarlyAndLate ==
  ASSUME NEW plan, IsPlan(plan), NEW F, F = FinishDay(plan),
         NEW early, early = EarlyStarts(plan), NEW late, late = LateStarts(plan, F)
  PROVE  /\ F \in Int
         /\ \A a \in DOMAIN plan.tasks :
              /\ early[a] \in Int /\ plan.tasks[a].floor <= early[a] /\ late[a] \in Int
              /\ early[a] <= late[a] /\ late[a] + plan.tasks[a].dur <= F
         /\ \A k \in DOMAIN plan.links :
              /\ early[plan.links[k].pred] + Off(plan, k) <= early[plan.links[k].succ]
              /\ late[plan.links[k].pred] + Off(plan, k) <= late[plan.links[k].succ]
<1>1. F \in Int /\ \A a \in DOMAIN plan.tasks : early[a] + plan.tasks[a].dur <= F
  BY FinishIs
<1>2. Meets(plan, early)
  BY EarlyStartsAre
<1>3. LateMeets(plan, F, late)
  BY <1>1, LateStartsAre
<1>4. \A a \in DOMAIN plan.tasks : early[a] - LateStarts(plan, F)[a] <= F - F
  <2>1. \A a \in DOMAIN plan.tasks : early[a] \in Int /\ early[a] + plan.tasks[a].dur <= F
    BY <1>1, <1>2 DEF Meets
  <2>2. \A k \in DOMAIN plan.links : early[plan.links[k].pred] + Off(plan, k) <= early[plan.links[k].succ]
    BY <1>2 DEF Meets
  <2> QED BY <1>1, <2>1, <2>2, LateIsLatest
<1>5. ASSUME NEW a \in DOMAIN plan.tasks
      PROVE  /\ early[a] \in Int /\ plan.tasks[a].floor <= early[a] /\ late[a] \in Int
             /\ early[a] <= late[a] /\ late[a] + plan.tasks[a].dur <= F
  <2>1. early[a] \in Int /\ plan.tasks[a].floor <= early[a]
    BY <1>2 DEF Meets
  <2>2. late[a] \in Int /\ late[a] + plan.tasks[a].dur <= F
    BY <1>3 DEF LateMeets
  <2>3. early[a] - late[a] <= F - F
    BY <1>4
  <2> QED BY <1>1, <2>1, <2>2, <2>3
<1> QED BY <1>1, <1>2, <1>3, <1>5 DEF Meets, LateMeets

\* One event: the list of it alone.
IsOneDelay(plan, one, e) == AreDelays(plan, one) /\ DOMAIN one = {1} /\ one[1] = e

\* An event moves the finish by no more than float does not absorb: work of a lower
\* rank than the work held up stays at its early start, all else moves to its late
\* one and as much further as that.
LEMMA DelayCostsAtMost ==
  ASSUME NEW plan, IsPlan(plan), NEW one, NEW e, IsOneDelay(plan, one, e),
         e.onset = 0, StartsFreely(plan, e.impacts),
         NEW d \in Nat, e.dur - FloatOf(plan, e.impacts) <= d
  PROVE  FinishDay(Impose(plan, one)) <= FinishDay(plan) + d
<1> DEFINE A == DOMAIN plan.tasks
           b == e.impacts
           ev == ActivityOf(e)
<1>1. PICK F, early, late : /\ F = FinishDay(plan) /\ early = EarlyStarts(plan)
                            /\ late = LateStarts(plan, F)
  OBVIOUS
<1>2. /\ F \in Int
      /\ \A a \in A : /\ early[a] \in Int /\ plan.tasks[a].floor <= early[a] /\ late[a] \in Int
                      /\ early[a] <= late[a] /\ late[a] + plan.tasks[a].dur <= F
      /\ \A k \in DOMAIN plan.links :
           /\ early[plan.links[k].pred] + Off(plan, k) <= early[plan.links[k].succ]
           /\ late[plan.links[k].pred] + Off(plan, k) <= late[plan.links[k].succ]
  BY <1>1, EarlyAndLate
<1>3. /\ AreDelays(plan, one) /\ DOMAIN one = {1} /\ one[1] = e
      /\ e.dur \in Nat /\ b \in A /\ ev \notin A
  <2>1. AreDelays(plan, one) /\ DOMAIN one = {1} /\ one[1] = e
    BY DEF IsOneDelay
  <2>2. 1 \in DOMAIN one
    BY <2>1
  <2> QED BY <2>1, <2>2, DelaysAre
<1>4. FloatOf(plan, b) = late[b] - early[b]
  BY <1>1 DEF FloatOf
<1>5. early[b] + e.dur <= late[b] + d
  BY <1>2, <1>3, <1>4
<1>6. PICK r : /\ \A a \in A : r[a] \in Int
               /\ \A k \in DOMAIN plan.links : r[plan.links[k].pred] < r[plan.links[k].succ]
  BY PlanRanked
<1>7. PICK g : g = [a \in A \cup {ev} |->
                      IF a = ev THEN early[b] ELSE IF r[a] < r[b] THEN early[a] ELSE late[a] + d]
  OBVIOUS
<1>8. /\ g[ev] = early[b]
      /\ \A a \in A : /\ r[a] < r[b] => g[a] = early[a]
                      /\ ~(r[a] < r[b]) => g[a] = late[a] + d
  BY <1>3, <1>7
<1> HIDE DEF b, ev, A
<1>9. \A a \in A : g[a] \in Int /\ early[a] <= g[a] /\ g[a] <= late[a] + d
  <2>1. SUFFICES ASSUME NEW a \in A PROVE g[a] \in Int /\ early[a] <= g[a] /\ g[a] <= late[a] + d
    OBVIOUS
  <2>2. early[a] \in Int /\ late[a] \in Int /\ early[a] <= late[a]
    BY <1>2
  <2> QED BY <1>8, <2>2
<1>10. g[b] = late[b] + d
  BY <1>3, <1>6, <1>8
<1>11. MeetsDelayed(plan, one, g)
  <2>1. ASSUME NEW a \in A PROVE g[a] \in Int /\ plan.tasks[a].floor <= g[a]
    <3>1. plan.tasks[a].floor \in Int
      BY InPlan DEF A
    <3>2. early[a] \in Int /\ plan.tasks[a].floor <= early[a] /\ g[a] \in Int /\ early[a] <= g[a]
      BY <1>2, <1>9
    <3> QED BY <3>1, <3>2
  <2>2. /\ g[ActivityOf(e)] \in Int /\ e.onset <= g[ActivityOf(e)]
        /\ g[ActivityOf(e)] + e.dur <= g[e.impacts]
    <3>1. g[ev] \in Int /\ 0 <= g[ev]
      <4>1. plan.tasks[b].floor = 0 /\ early[b] \in Int /\ plan.tasks[b].floor <= early[b]
        BY <1>2, <1>3 DEF StartsFreely, b
      <4> QED BY <1>8, <4>1
    <3>2. g[ev] + e.dur <= g[b]
      BY <1>5, <1>8, <1>10
    <3> QED BY <3>1, <3>2 DEF ev, b
  <2>3. ASSUME NEW k \in DOMAIN plan.links
        PROVE  /\ plan.links[k].succ # b => g[plan.links[k].pred] + Off(plan, k) <= g[plan.links[k].succ]
               /\ plan.links[k].succ = b => g[plan.links[k].pred] + Off(plan, k) <= g[ev]
    <3>1. PICK p, s, o : p = plan.links[k].pred /\ s = plan.links[k].succ /\ o = Off(plan, k)
      OBVIOUS
    <3>2. p \in A /\ s \in A /\ o \in Int
      BY <3>1, InPlan DEF A
    <3>3. r[p] < r[s] /\ early[p] + o <= early[s] /\ late[p] + o <= late[s]
      BY <1>2, <1>6, <3>1
    <3>4. /\ r[p] \in Int /\ r[s] \in Int /\ r[b] \in Int
          /\ early[p] \in Int /\ early[s] \in Int /\ late[p] \in Int /\ late[s] \in Int
          /\ early[p] <= late[p] /\ early[s] <= late[s]
      BY <1>2, <1>3, <1>6, <3>2
    <3>5. CASE s = b
      <4>1. g[p] = early[p]
        BY <1>8, <3>2, <3>3, <3>4, <3>5
      <4> QED BY <1>8, <3>1, <3>3, <3>5, <4>1
    <3>6. CASE r[s] < r[b]
      <4>1. g[s] = early[s] /\ g[p] = early[p]
        BY <1>8, <3>2, <3>3, <3>4, <3>6
      <4> QED BY <3>1, <3>3, <3>4, <3>6, <4>1
    <3>7. CASE ~(r[s] < r[b]) /\ s # b
      <4>1. g[s] = late[s] + d
        BY <1>8, <3>2, <3>7
      <4>2. g[p] \in Int /\ g[p] <= late[p] + d
        BY <1>9, <3>2
      <4>3. g[p] + o <= g[s]
        BY <3>2, <3>3, <3>4, <4>1, <4>2
      <4> QED BY <3>1, <3>7, <4>3
    <3> QED BY <3>5, <3>6, <3>7
  <2>4. ASSUME NEW k \in DOMAIN plan.links
        PROVE  IsDiverted(one, plan.links[k]) <=> plan.links[k].succ = b
    <3>1. plan.links[k].succ = b => plan.links[k].type = "FS"
      BY DEF StartsFreely, Into, b
    <3> QED BY <1>3, <3>1 DEF IsDiverted, Holding, b
  <2>5. \A k \in DOMAIN plan.links : \A i \in Holding(one, plan.links[k].succ) : one[i] = e
    BY <1>3 DEF Holding
  <2> QED BY <1>3, <2>1, <2>2, <2>3, <2>4, <2>5 DEF MeetsDelayed, A, ev
<1>12. \A a \in DOMAIN plan.tasks : g[a] + plan.tasks[a].dur <= F + d
  <2>1. SUFFICES ASSUME NEW a \in A PROVE g[a] + plan.tasks[a].dur <= F + d
    BY DEF A
  <2>2. plan.tasks[a].dur \in Int
    BY InPlan DEF A
  <2>3. late[a] \in Int /\ late[a] + plan.tasks[a].dur <= F /\ g[a] \in Int /\ g[a] <= late[a] + d
    BY <1>2, <1>9
  <2> QED BY <1>2, <2>2, <2>3
<1>13. PICK m, I : m = F + d /\ I = Impose(plan, one)
  OBVIOUS
<1>14. FinishDay(I) <= m
  <2>1. m \in Int /\ \A a \in DOMAIN plan.tasks : g[a] + plan.tasks[a].dur <= m
    BY <1>2, <1>12, <1>13
  <2> QED BY <1>3, <1>11, <1>13, <2>1, DelayedFinishesBy
<1> QED BY <1>1, <1>13, <1>14

\* ... and by no less: starts with the event put in hold the work up by its days,
\* and what follows has no more room than its float.
LEMMA DelayCostsAtLeast ==
  ASSUME NEW plan, IsPlan(plan), NEW one, NEW e, IsOneDelay(plan, one, e),
         e.onset = 0, StartsFreely(plan, e.impacts)
  PROVE  /\ FinishDay(Impose(plan, one)) >= FinishDay(plan) + (e.dur - FloatOf(plan, e.impacts))
         /\ FinishDay(Impose(plan, one)) >= FinishDay(plan)
<1> DEFINE A == DOMAIN plan.tasks
           b == e.impacts
           ev == ActivityOf(e)
<1>1. PICK F, early, late : /\ F = FinishDay(plan) /\ early = EarlyStarts(plan)
                            /\ late = LateStarts(plan, F)
  OBVIOUS
<1>2. F \in Int /\ \A a \in A : early[a] \in Int /\ late[a] \in Int
  BY <1>1, EarlyAndLate
<1>3. /\ AreDelays(plan, one) /\ DOMAIN one = {1} /\ one[1] = e
      /\ e.dur \in Nat /\ b \in A /\ ev \notin A
  <2>1. AreDelays(plan, one) /\ DOMAIN one = {1} /\ one[1] = e
    BY DEF IsOneDelay
  <2>2. 1 \in DOMAIN one
    BY <2>1
  <2> QED BY <2>1, <2>2, DelaysAre
<1>4. FloatOf(plan, b) = late[b] - early[b]
  BY <1>1 DEF FloatOf
<1>5. PICK I, h, fin : I = Impose(plan, one) /\ h = EarlyStarts(I) /\ fin = FinishDay(I)
  OBVIOUS
<1>6. /\ MeetsDelayed(plan, one, h) /\ fin \in Int
      /\ \A a \in DOMAIN plan.tasks : h[a] + plan.tasks[a].dur <= fin
  BY <1>3, <1>5, DelayedStarts
<1>7. Meets(plan, h)
  BY <1>3, <1>6, DelayedStillMeets
<1>8. h[b] - late[b] <= fin - F
  <2>1. \A a \in DOMAIN plan.tasks : h[a] \in Int /\ h[a] + plan.tasks[a].dur <= fin
    BY <1>6, <1>7 DEF Meets
  <2>2. \A k \in DOMAIN plan.links : h[plan.links[k].pred] + Off(plan, k) <= h[plan.links[k].succ]
    BY <1>7 DEF Meets
  <2>3. \A a \in DOMAIN plan.tasks : h[a] - LateStarts(plan, F)[a] <= fin - F
    BY <1>2, <1>6, <2>1, <2>2, LateIsLatest
  <2> QED BY <1>1, <1>3, <2>3
<1>9. h[ev] \in Int /\ 0 <= h[ev] /\ h[ev] + e.dur <= h[b] /\ h[b] \in Int
  <2>1. /\ h[ActivityOf(one[1])] \in Int /\ one[1].onset <= h[ActivityOf(one[1])]
        /\ h[ActivityOf(one[1])] + one[1].dur <= h[one[1].impacts]
    BY <1>3, <1>6 DEF MeetsDelayed
  <2>2. h[b] \in Int
    BY <1>3, <1>7 DEF Meets
  <2> QED BY <1>3, <2>1, <2>2
<1>10. early[b] <= h[ev]
  <2>1. Tight(plan, early) /\ \A a \in DOMAIN plan.tasks : early[a] \in Int
    BY <1>1, <1>2, EarlyStartsAre
  <2>2. CASE early[b] = plan.tasks[b].floor
    BY <1>9, <2>2 DEF StartsFreely
  <2>3. CASE \E k \in DOMAIN plan.links : /\ plan.links[k].succ = b
                                          /\ early[b] = early[plan.links[k].pred] + Off(plan, k)
    <3>1. PICK k \in DOMAIN plan.links : /\ plan.links[k].succ = b
                                         /\ early[b] = early[plan.links[k].pred] + Off(plan, k)
      BY <2>3
    <3>2. PICK p, o : p = plan.links[k].pred /\ o = Off(plan, k)
      OBVIOUS
    <3>3. p \in A /\ o \in Int
      BY <3>2, InPlan
    <3>4. early[p] <= h[p] /\ early[p] \in Int /\ h[p] \in Int
      <4>1. \A a \in DOMAIN plan.tasks : early[a] <= h[a]
        BY <1>7, <2>1, TightIsLeast
      <4> QED BY <1>2, <1>7, <3>3, <4>1 DEF Meets
    <3>5. plan.links[k].type = "FS"
      BY <3>1 DEF StartsFreely, Into
    <3>6. 1 \in Holding(one, plan.links[k].succ)
      BY <1>3, <3>1 DEF Holding
    <3>7. IsDiverted(one, plan.links[k])
      BY <3>5, <3>6 DEF IsDiverted
    <3>8. h[plan.links[k].pred] + Off(plan, k) <= h[ActivityOf(one[1])]
      BY <1>6, <3>6, <3>7 DEF MeetsDelayed
    <3>9. h[p] + o <= h[ev]
      BY <1>3, <3>2, <3>8
    <3> QED BY <1>9, <3>1, <3>2, <3>3, <3>4, <3>9
  <2> QED BY <1>3, <2>1, <2>2, <2>3 DEF Tight
<1>11. fin >= F
  <2>1. FinishDay(plan) <= fin
    BY <1>6, <1>7, FinishesBy
  <2> QED BY <1>1, <1>2, <1>6, <2>1
<1>12. early[b] \in Int /\ late[b] \in Int
  BY <1>2, <1>3
<1> HIDE DEF b, ev
<1>13. fin >= F + (e.dur - (late[b] - early[b]))
  BY <1>2, <1>3, <1>6, <1>8, <1>9, <1>10, <1>12
<1> QED BY <1>1, <1>4, <1>5, <1>11, <1>13 DEF b

\* All the events together cost no more than their days: each activity is put off by
\* the days of those that hold up work of its rank or of a lower one.
LEMMA DelaysCostTheirDays ==
  ASSUME NEW plan, IsPlan(plan), NEW events, AreDelays(plan, events),
         \A i \in DOMAIN events : events[i].onset = 0
  PROVE  FinishDay(Impose(plan, events))
           <= FinishDay(plan) + Total([i \in DOMAIN events |-> events[i].dur])
<1> DEFINE A == DOMAIN plan.tasks
           D == DOMAIN events
           at(i) == ActivityOf(events[i])
           held(i) == events[i].impacts
<1>1. PICK F, early, w : /\ F = FinishDay(plan) /\ early = EarlyStarts(plan)
                         /\ w = [i \in DOMAIN events |-> events[i].dur]
  OBVIOUS
<1>2. F \in Int /\ \A a \in A : early[a] + plan.tasks[a].dur <= F
  BY <1>1, FinishIs
<1>3. Meets(plan, early)
  BY <1>1, EarlyStartsAre
<1>4. /\ IsFiniteSet(D) /\ D # {}
      /\ \A i \in D : /\ w[i] = events[i].dur /\ w[i] \in Nat
                      /\ held(i) \in A /\ at(i) \notin A
  BY <1>1, DelaysAre
<1>5. PICK r : /\ \A a \in A : r[a] \in Int
               /\ \A k \in DOMAIN plan.links : r[plan.links[k].pred] < r[plan.links[k].succ]
  BY PlanRanked
<1>6. PICK upTo, until : /\ upTo = [a \in A |-> {i \in D : r[held(i)] <= r[a]}]
                         /\ until = [a \in A |-> {i \in D : r[held(i)] < r[a]}]
  OBVIOUS
<1>7. PICK S, B, all : /\ S = [a \in A |-> SumOver(w, upTo[a])]
                       /\ B = [a \in A |-> SumOver(w, until[a])]
                       /\ all = SumOver(w, D)
  OBVIOUS
<1>8. \A a \in A : /\ upTo[a] = {i \in D : r[held(i)] <= r[a]} /\ until[a] = {i \in D : r[held(i)] < r[a]}
                   /\ S[a] = SumOver(w, upTo[a]) /\ B[a] = SumOver(w, until[a])
  BY <1>6, <1>7
<1>9. Total([i \in DOMAIN events |-> events[i].dur]) = all
  <2>1. DOMAIN w = D
    BY <1>1
  <2> QED BY <1>1, <1>7, <2>1, TotalIsASum
<1> HIDE DEF A, D, at, held
<1>10. ASSUME NEW P \in SUBSET D
       PROVE  IsFiniteSet(P) /\ \A i \in P : w[i] \in Int /\ w[i] \in Nat
  BY <1>4, FS_Subset
<1>11. all \in Nat /\ \A a \in A : S[a] \in Nat /\ B[a] \in Nat /\ S[a] <= all
  <2>1. SUFFICES ASSUME NEW a \in A
                 PROVE  all \in Nat /\ S[a] \in Nat /\ B[a] \in Nat /\ S[a] <= all
    <3>1. \E a \in A : TRUE
      BY <1>4
    <3> QED BY <3>1
  <2>2. upTo[a] \in SUBSET D /\ until[a] \in SUBSET D /\ \A x \in D : w[x] \in Nat
    BY <1>4, <1>8
  <2>3. SumOver(w, upTo[a]) \in Nat /\ SumOver(w, D) \in Nat /\ SumOver(w, upTo[a]) <= SumOver(w, D)
    BY <1>4, <2>2, SumGrows
  <2>4. SumOver(w, until[a]) \in Nat
    BY <1>4, <2>2, SumGrows
  <2> QED BY <1>7, <1>8, <2>3, <2>4
<1>12. ASSUME NEW p \in A, NEW s \in A, r[p] < r[s] PROVE S[p] <= B[s]
  <2>1. r[p] \in Int /\ r[s] \in Int /\ \A i \in D : r[held(i)] \in Int
    BY <1>4, <1>5
  <2>2. upTo[p] \in SUBSET until[s]
    BY <1>8, <1>12, <2>1
  <2>3. IsFiniteSet(until[s]) /\ \A x \in until[s] : w[x] \in Nat
    <3>1. until[s] \in SUBSET D
      BY <1>8
    <3> QED BY <1>10, <3>1
  <2>4. SumOver(w, upTo[p]) <= SumOver(w, until[s])
    BY <2>2, <2>3, SumGrows
  <2> QED BY <1>8, <2>4
<1>13. ASSUME NEW i \in D PROVE B[held(i)] + w[i] <= S[held(i)]
  <2>1. PICK b : b = held(i)
    OBVIOUS
  <2>2. b \in A /\ r[b] \in Int /\ \A j \in D : r[held(j)] \in Int
    BY <1>4, <1>5, <2>1
  <2>3. PICK P : P = until[b] \cup {i}
    OBVIOUS
  <2>4. P \in SUBSET upTo[b] /\ P \in SUBSET D /\ i \in P /\ P \ {i} = until[b] /\ upTo[b] \in SUBSET D
    <3>1. /\ until[b] = {j \in D : r[held(j)] < r[b]} /\ upTo[b] = {j \in D : r[held(j)] <= r[b]}
      BY <1>8, <2>2
    <3>2. i \notin until[b] /\ i \in upTo[b]
      BY <2>1, <2>2, <3>1
    <3>3. until[b] \in SUBSET upTo[b]
      BY <2>2, <3>1
    <3> QED BY <2>3, <3>1, <3>2, <3>3
  <2>5. SumOver(w, P) = SumOver(w, P \ {i}) + w[i]
    <3>1. IsFiniteSet(P) /\ \A j \in P : w[j] \in Int
      BY <1>10, <2>4
    <3> QED BY <2>4, <3>1, SumTakesAny
  <2>6. SumOver(w, P) <= SumOver(w, upTo[b])
    <3>1. IsFiniteSet(upTo[b]) /\ \A j \in upTo[b] : w[j] \in Nat
      BY <1>10, <2>4
    <3> QED BY <2>4, <3>1, SumGrows
  <2>7. B[b] = SumOver(w, P \ {i}) /\ S[b] = SumOver(w, upTo[b])
    BY <1>8, <2>2, <2>4
  <2>8. B[b] + w[i] <= S[b]
    BY <2>5, <2>6, <2>7
  <2> QED BY <2>1, <2>8
<1>14. PICK g : g = [a \in A \cup {at(i) : i \in D} |->
                       IF a \in A THEN early[a] + S[a]
                       ELSE LET i == CHOOSE i \in D : at(i) = a IN early[held(i)] + B[held(i)]]
  OBVIOUS
<1>15. \A a \in A : g[a] = early[a] + S[a]
  BY <1>14
<1>16. \A i \in D : g[at(i)] = early[held(i)] + B[held(i)]
  <2>1. SUFFICES ASSUME NEW i \in D PROVE g[at(i)] = early[held(i)] + B[held(i)]
    OBVIOUS
  <2>2. PICK j : j = (CHOOSE n \in D : at(n) = at(i))
    OBVIOUS
  <2>3. j \in D /\ at(j) = at(i)
    BY <2>2
  <2>4. j = i
    BY <2>3, EventsAreNamed DEF D, at
  <2>5. g[at(i)] = early[held(j)] + B[held(j)]
    BY <1>4, <1>14, <2>2
  <2> QED BY <2>4, <2>5
<1>17. MeetsDelayed(plan, events, g)
  <2>1. ASSUME NEW a \in A PROVE g[a] \in Int /\ plan.tasks[a].floor <= g[a]
    <3>1. early[a] \in Int /\ plan.tasks[a].floor <= early[a] /\ plan.tasks[a].floor \in Int
      BY <1>3, InPlan DEF Meets, A
    <3> QED BY <1>11, <1>15, <3>1
  <2>2. ASSUME NEW i \in D
        PROVE  g[at(i)] \in Int /\ 0 <= g[at(i)] /\ g[at(i)] + w[i] <= g[held(i)]
    <3>1. PICK b : b = held(i)
      OBVIOUS
    <3>2. b \in A
      BY <1>4, <3>1
    <3>3. early[b] \in Int /\ 0 <= early[b]
      <4>1. early[b] \in Int /\ plan.tasks[b].floor <= early[b] /\ plan.tasks[b].floor \in Nat
        BY <1>3, <3>2, InPlan DEF Meets, A
      <4> QED BY <4>1
    <3>4. g[at(i)] = early[b] + B[b] /\ g[b] = early[b] + S[b] /\ B[b] \in Nat /\ S[b] \in Nat
          /\ B[b] + w[i] <= S[b] /\ w[i] \in Nat
      BY <1>4, <1>11, <1>13, <1>15, <1>16, <3>1, <3>2
    <3> QED BY <3>1, <3>3, <3>4
  <2>3. ASSUME NEW k \in DOMAIN plan.links
        PROVE  /\ g[plan.links[k].pred] + Off(plan, k) <= g[plan.links[k].succ]
               /\ \A i \in Holding(events, plan.links[k].succ) :
                    g[plan.links[k].pred] + Off(plan, k) <= g[at(i)]
    <3>1. PICK p, s, o : p = plan.links[k].pred /\ s = plan.links[k].succ /\ o = Off(plan, k)
      OBVIOUS
    <3>2. p \in A /\ s \in A /\ o \in Int
      BY <3>1, InPlan DEF A
    <3>3. r[p] < r[s] /\ early[p] + o <= early[s] /\ early[p] \in Int /\ early[s] \in Int
      BY <1>3, <1>5, <3>1, <3>2 DEF Meets, A
    <3>4. S[p] <= B[s] /\ S[p] \in Nat /\ B[s] \in Nat
      BY <1>11, <1>12, <3>2, <3>3
    <3>5. g[p] + o <= early[s] + B[s]
      BY <1>15, <3>2, <3>3, <3>4
    <3>6. B[s] <= S[s] /\ S[s] \in Nat
      <4>1. upTo[s] \in SUBSET D /\ until[s] \in SUBSET upTo[s]
        <5>1. r[s] \in Int /\ \A i \in D : r[held(i)] \in Int
          BY <1>4, <1>5, <3>2
        <5> QED BY <1>8, <3>2, <5>1
      <4>2. IsFiniteSet(upTo[s]) /\ \A j \in upTo[s] : w[j] \in Nat
        BY <1>10, <4>1
      <4>3. SumOver(w, until[s]) <= SumOver(w, upTo[s])
        BY <4>1, <4>2, SumGrows
      <4> QED BY <1>8, <1>11, <3>2, <4>3
    <3>7. g[p] + o <= g[s]
      BY <1>15, <3>2, <3>3, <3>4, <3>5, <3>6
    <3>8. ASSUME NEW i \in Holding(events, s) PROVE g[p] + o <= g[at(i)]
      <4>1. i \in D /\ held(i) = s
        BY DEF Holding, D, held
      <4> QED BY <1>16, <3>5, <4>1
    <3> QED BY <3>1, <3>7, <3>8
  <2>4. \A a \in DOMAIN plan.tasks : g[a] \in Int /\ plan.tasks[a].floor <= g[a]
    BY <2>1 DEF A
  <2>5. ASSUME NEW i \in DOMAIN events
        PROVE  /\ g[ActivityOf(events[i])] \in Int /\ events[i].onset <= g[ActivityOf(events[i])]
               /\ g[ActivityOf(events[i])] + events[i].dur <= g[events[i].impacts]
    <3>1. g[at(i)] \in Int /\ 0 <= g[at(i)] /\ g[at(i)] + w[i] <= g[held(i)] /\ w[i] = events[i].dur
      BY <1>4, <2>2 DEF D
    <3> QED BY <3>1 DEF at, held
  <2> QED BY <2>3, <2>4, <2>5 DEF MeetsDelayed, at
<1>18. PICK m, I : m = F + all /\ I = Impose(plan, events)
  OBVIOUS
<1>19. m \in Int /\ \A a \in DOMAIN plan.tasks : g[a] + plan.tasks[a].dur <= m
  <2>1. SUFFICES ASSUME NEW a \in A PROVE m \in Int /\ g[a] + plan.tasks[a].dur <= m
    BY <1>2, <1>11, <1>18 DEF A
  <2>2. plan.tasks[a].dur \in Int /\ early[a] \in Int
    BY <1>3, InPlan DEF A, Meets
  <2>3. S[a] \in Nat /\ S[a] <= all /\ all \in Nat /\ g[a] = early[a] + S[a]
        /\ early[a] + plan.tasks[a].dur <= F
    BY <1>2, <1>11, <1>15 DEF A
  <2> QED BY <1>2, <1>18, <2>2, <2>3
<1>20. FinishDay(I) <= m
  BY <1>17, <1>18, <1>19, DelayedFinishesBy
<1> QED BY <1>1, <1>9, <1>18, <1>20

\* Two numbers have a greater one.
LEMMA GreaterOfTwo ==
  ASSUME NEW x \in Int
  PROVE  /\ Max({0, x}) \in Nat /\ x <= Max({0, x})
         /\ Max({0, x}) = 0 \/ Max({0, x}) = x
<1>1. IsFiniteSet({0, x})
  <2>1. IsFiniteSet({0}) /\ IsFiniteSet({x}) /\ {0, x} = {0} \cup {x}
    BY FS_Singleton
  <2> QED BY <2>1, FS_Union
<1>2. {0, x} \in SUBSET Int /\ {0, x} # {}
  OBVIOUS
<1>3. Max({0, x}) \in {0, x} /\ \A y \in {0, x} : y <= Max({0, x})
  BY <1>1, <1>2, MaxIs
<1> QED BY <1>3

\* An event costs exactly what float leaves of it.
LEMMA DelayCosts ==
  ASSUME NEW plan, IsPlan(plan), NEW events, AreDelays(plan, events), NEW i \in DOMAIN events,
         events[i].onset = 0, StartsFreely(plan, events[i].impacts)
  PROVE  FinishDay(Impose(plan, <<events[i]>>)) - FinishDay(plan)
           = Max({0, events[i].dur - FloatOf(plan, events[i].impacts)})
<1>1. PICK e, one, x, d : /\ e = events[i] /\ one = <<events[i]>>
                          /\ x = e.dur - FloatOf(plan, e.impacts) /\ d = Max({0, x})
  OBVIOUS
<1>2. IsOneDelay(plan, one, e)
  BY <1>1, OneDelay DEF IsOneDelay
<1>3. e.onset = 0 /\ StartsFreely(plan, e.impacts)
  BY <1>1
<1>4. x \in Int
  <2>1. PICK F, early, late : F = FinishDay(plan) /\ early = EarlyStarts(plan) /\ late = LateStarts(plan, F)
    OBVIOUS
  <2>2. e.impacts \in DOMAIN plan.tasks /\ e.dur \in Int
    BY <1>1, DelaysAre
  <2>3. \A a \in DOMAIN plan.tasks : early[a] \in Int /\ late[a] \in Int
    BY <2>1, EarlyAndLate
  <2>4. FloatOf(plan, e.impacts) = late[e.impacts] - early[e.impacts]
    BY <2>1 DEF FloatOf
  <2> QED BY <1>1, <2>2, <2>3, <2>4
<1>5. d \in Nat /\ x <= d /\ (d = 0 \/ d = x)
  BY <1>1, <1>4, GreaterOfTwo
<1>6. PICK fin, F : fin = FinishDay(Impose(plan, one)) /\ F = FinishDay(plan)
  OBVIOUS
<1>7. fin <= F + d
  <2>1. e.dur - FloatOf(plan, e.impacts) <= d
    BY <1>1, <1>5
  <2> QED BY <1>2, <1>3, <1>5, <1>6, <2>1, DelayCostsAtMost
<1>8. fin >= F + x /\ fin >= F
  BY <1>1, <1>2, <1>3, <1>6, DelayCostsAtLeast
<1>9. fin \in Int /\ F \in Int
  <2>1. AreDelays(plan, one)
    BY <1>2 DEF IsOneDelay
  <2> QED BY <1>6, <2>1, DelayedStarts, FinishIs
<1>10. fin - F = d
  BY <1>4, <1>5, <1>7, <1>8, <1>9
<1> QED BY <1>1, <1>6, <1>10

\* What a request asks is what may be asked.
LEMMA AskedIsRequest ==
  ASSUME StudyInv, NEW study, request.study = study, study # "none"
  PROVE  IsRequest(request)
<1>1. request # NothingAsked
  BY DEF NothingAsked
<1>2. \E s \in DOMAIN Asked : request \in Asked[s]
  BY <1>1 DEF StudyInv
<1> QED BY <1>2, AskedAssumption

\* Delays add up, those observed and those modelled (windows.py:197-291,
\* modelled.py:254-313, 356-533).
THEOREM DelaysAreAccountedFor ==
  StudiesSpec => []DelaysAddUp
<1>1. StudyInv => DelaysAddUp
  <2>1. SUFFICES ASSUME StudyInv PROVE DelaysAddUp
    OBVIOUS
  <2>2. ASSUME Answered("windows") PROVE WindowsAddUp
    <3> DEFINE updates == request.updates
               n == Len(request.updates)
               w == answer.result
    <3>1. IsSeries(Outs(updates))
      BY <2>1, <2>2 DEF StudyInv
    <3>2. PICK paths : w = Windows(Outs(updates), paths, request.match)
      BY <2>1, <2>2 DEF StudyInv
    <3>3. /\ updates = [i \in 1..n |-> updates[i]] /\ n \in Nat
          /\ \A i \in DOMAIN updates : IsListed(updates[i].plan)
      <4>1. request.study = "windows"
        BY <2>2 DEF Answered
      <4>2. IsRequest(request)
        BY <2>1, <4>1, AskedIsRequest
      <4> QED BY <4>1, <4>2 DEF IsRequest
    <3> HIDE DEF updates, w
    <3>4. DOMAIN updates = 1..n /\ n \in Nat /\ Len(updates) = n
      BY <3>3 DEF updates
    <3> HIDE DEF n
    <3>5. n >= 2
      <4>1. PICK outs : outs = Outs(updates)
        OBVIOUS
      <4>2. DOMAIN outs = 1..n
        BY <3>4, <4>1 DEF Outs
      <4>3. outs = [i \in 1..n |-> outs[i]]
        BY <3>4, <4>1, <4>2 DEF Outs
      <4>4. Len(outs) = n
        BY <3>4, <4>3
      <4> QED BY <3>1, <4>1, <4>4 DEF IsSeries
    <3>6. PICK slip : slip = FinishDay(updates[n].plan) - FinishDay(updates[1].plan)
      OBVIOUS
    <3>7. \A i \in 1..n : IsListed(updates[i].plan)
      BY <3>3, <3>4
    <3>8. /\ SlipOf(w) = slip /\ Total(ByCause(w)) = slip
          /\ slip > 0 => WorstWindow(w) # 0
          /\ WorstWindow(w) # 0 => \A i \in DOMAIN w : w[i].slip <= w[WorstWindow(w)].slip
      BY <3>2, <3>4, <3>5, <3>6, <3>7, SeriesAddsUp
    <3> QED BY <3>6, <3>8 DEF WindowsAddUp, LastUpdate, updates, n, w
  <2>3. ASSUME Answered("delay") PROVE EventsBound(answer.result)
    <3> DEFINE plan == request.plan
               events == request.events
               r == answer.result
    <3>1. IsPlan(plan) /\ events \in Seq([id : Nat, dur : Int, impacts : Nat, onset : Nat])
      <4>1. request.study = "delay"
        BY <2>3 DEF Answered
      <4>2. IsRequest(request)
        BY <2>1, <4>1, AskedIsRequest
      <4> QED BY <4>1, <4>2 DEF IsRequest, IsListed
    <3>2. \/ CanImpose(plan, events) /\ r = ImpactedAsPlanned(plan, events)
          \/ CanCollapse(plan, events) /\ r = CollapsedAsBuilt(plan, events)
      BY <2>1, <2>3 DEF StudyInv
    <3> HIDE DEF plan, events, r
    <3>3. CASE CanImpose(plan, events) /\ r = ImpactedAsPlanned(plan, events)
      <4>1. AreDelays(plan, events)
        BY <3>1, <3>3 DEF AreDelays
      <4>2. EventsBound(r)
        BY <3>1, <3>3, <4>1, ImpactedIsBound
      <4> QED BY <4>2 DEF r
    <3>4. CASE CanCollapse(plan, events) /\ r = CollapsedAsBuilt(plan, events)
      <4>1. EventsBound(r)
        BY <3>1, <3>4, CollapsedIsBound
      <4> QED BY <4>1 DEF r
    <3> QED BY <3>2, <3>3, <3>4
  <2>4. ASSUME Answered("delay"), request.method = "impacted"
        PROVE  /\ \A i \in DOMAIN request.events : CostsWhatFloatLeaves(i)
               /\ (\A i \in DOMAIN request.events : request.events[i].onset = 0) =>
                    answer.result.total <= Total([i \in DOMAIN request.events |-> request.events[i].dur])
    <3> DEFINE plan == request.plan
               events == request.events
               r == answer.result
               days == Total([i \in DOMAIN request.events |-> request.events[i].dur])
    <3>1. IsPlan(plan) /\ events \in Seq([id : Nat, dur : Int, impacts : Nat, onset : Nat])
      <4>1. request.study = "delay"
        BY <2>4 DEF Answered
      <4>2. IsRequest(request)
        BY <2>1, <4>1, AskedIsRequest
      <4> QED BY <4>1, <4>2 DEF IsRequest, IsListed
    <3>2. CanImpose(plan, events) /\ r = ImpactedAsPlanned(plan, events)
      <4>1. request.method # "collapsed"
        BY <2>4
      <4> QED BY <2>1, <2>4, <4>1 DEF StudyInv
    <3>3. days = Total([i \in DOMAIN events |-> events[i].dur])
      OBVIOUS
    <3> HIDE DEF plan, events, r, days
    <3>4. AreDelays(plan, events)
      BY <3>1, <3>2 DEF AreDelays
    <3>5. /\ r.total = FinishDay(Impose(plan, events)) - FinishDay(plan)
          /\ \A i \in DOMAIN events :
               r.each[i] = FinishDay(Impose(plan, <<events[i]>>)) - FinishDay(plan)
      BY <3>1, <3>2, <3>4, ImpactedIsBound
    <3>6. ASSUME NEW i \in DOMAIN events, events[i].onset = 0, StartsFreely(plan, events[i].impacts)
          PROVE  r.each[i] = Max({0, events[i].dur - FloatOf(plan, events[i].impacts)})
      <4>1. FinishDay(Impose(plan, <<events[i]>>)) - FinishDay(plan)
              = Max({0, events[i].dur - FloatOf(plan, events[i].impacts)})
        BY <3>1, <3>4, <3>6, DelayCosts
      <4> QED BY <3>5, <4>1
    <3>7. ASSUME \A i \in DOMAIN events : events[i].onset = 0 PROVE r.total <= days
      <4>1. FinishDay(Impose(plan, events)) <= FinishDay(plan) + days
        <5>1. FinishDay(Impose(plan, events))
                <= FinishDay(plan) + Total([i \in DOMAIN events |-> events[i].dur])
          BY <3>1, <3>4, <3>7, DelaysCostTheirDays
        <5> QED BY <3>3, <5>1
      <4>2. days \in Int
        <5>1. PICK dur : dur = [i \in DOMAIN events |-> events[i].dur]
          OBVIOUS
        <5>2. IsFiniteSet(DOMAIN events) /\ \A i \in DOMAIN events : events[i].dur \in Int
          BY <3>1, <3>4, DelaysAre
        <5>3. DOMAIN dur = DOMAIN events /\ \A i \in DOMAIN events : dur[i] \in Int
          BY <5>1, <5>2
        <5>4. SumOver(dur, DOMAIN events) \in Int
          BY <5>2, <5>3, SumIsWhole
        <5> QED BY <3>3, <5>1, <5>3, <5>4, TotalIsASum
      <4>3. FinishDay(Impose(plan, events)) \in Int /\ FinishDay(plan) \in Int
        BY <3>1, <3>4, DelayedStarts, FinishIs
      <4> QED BY <3>5, <4>1, <4>2, <4>3
    <3> QED BY <3>6, <3>7 DEF CostsWhatFloatLeaves, plan, events, r, days
  <2> QED BY <2>2, <2>3, <2>4 DEF DelaysAddUp
<1> QED BY <1>1, StudyInvHolds, PTL

=============================================================================
