----------------------------- MODULE Answers_proof -----------------------------
(***************************************************************************)
(* Proofs about two answers of the studies, for any plans they are asked   *)
(* about.  A comparison of two plans lists every activity of either once,  *)
(* and says "unchanged" only of what did not change.  A compression adds   *)
(* up: the options it applied are the network it delivers, the days it     *)
(* promises are the days the finish moves, and no day is paid for that the *)
(* finish did not move by.                                                 *)
(***************************************************************************)
EXTENDS Studies_proof

-----------------------------------------------------------------------------
\* What is listed in a comparison.

\* a is the one activity of a side that answers to i, or there is none.
OnlyHolder(plan, match, i, a) ==
  /\ a = Absent \/ a \in DOMAIN plan.tasks
  /\ \A x \in DOMAIN plan.tasks : Identity(plan, match, x) = i <=> x = a

\* An entry of an identity both sides have once, or one has once and the other not.
IsPaired(base, curr, match, i, e) ==
  /\ OnlyHolder(base, match, i, e.base) /\ OnlyHolder(curr, match, i, e.curr)
  /\ e.base # Absent \/ e.curr # Absent
  /\ e = [key |-> <<"plain", IF e.curr # Absent THEN e.curr ELSE e.base>>, identity |-> i,
          base |-> e.base, curr |-> e.curr]

\* An entry of one activity of an ambiguous identity.
IsUnpaired(base, curr, match, i, e) ==
  \/ /\ e.base \in DOMAIN base.tasks /\ Identity(base, match, e.base) = i
     /\ e = [key |-> <<"baseline", e.base>>, identity |-> i, base |-> e.base, curr |-> Absent]
  \/ /\ e.curr \in DOMAIN curr.tasks /\ Identity(curr, match, e.curr) = i
     /\ e = [key |-> <<"current", e.curr>>, identity |-> i, base |-> Absent, curr |-> e.curr]

\* Identities are numbers.
LEMMA IdentityIs ==
  ASSUME NEW plan, IsListed(plan), NEW match, NEW a \in DOMAIN plan.tasks
  PROVE  Identity(plan, match, a) \in Nat /\ a \in Nat /\ a # Absent
<1>1. IsPlan(plan) /\ a \in Nat /\ a # Absent
  BY DEF IsListed
<1>2. plan.tasks[a] \in [dur : Nat, floor : Nat, code : Nat]
  BY <1>1, InPlan
<1>3. plan.tasks[a].code \in Nat
  BY <1>2
<1> QED BY <1>1, <1>3 DEF Identity

\* At most one holder of an identity is the one that is taken.
LEMMA OneHolder ==
  ASSUME NEW plan, IsListed(plan), NEW match, NEW i,
         ~(Cardinality(Holders(plan, match, i)) > 1),
         NEW a, a = Only(Holders(plan, match, i))
  PROVE  OnlyHolder(plan, match, i, a)
<1>1. PICK H : H = Holders(plan, match, i)
  OBVIOUS
<1>2. \A x : x \in H <=> x \in DOMAIN plan.tasks /\ Identity(plan, match, x) = i
  BY <1>1 DEF Holders
<1>3. IsFiniteSet(H)
  <2>1. IsFiniteSet(DOMAIN plan.tasks)
    BY InPlan DEF IsListed
  <2>2. H \subseteq DOMAIN plan.tasks
    BY <1>2
  <2> QED BY <2>1, <2>2, FS_Subset
<1>4. Cardinality(H) \in Nat /\ Cardinality(H) <= 1
  <2>1. Cardinality(H) \in Nat
    BY <1>3, FS_CardinalityType
  <2> QED BY <1>1, <2>1
<1>5. \A x \in DOMAIN plan.tasks : x # Absent
  BY IdentityIs
<1>6. CASE H = {}
  <2>1. a = Absent
    BY <1>1, <1>6 DEF Only
  <2> QED BY <1>2, <1>5, <1>6, <2>1 DEF OnlyHolder
<1>7. CASE H # {}
  <2>1. Cardinality(H) = 1
    <3>1. Cardinality(H) # 0
      BY <1>3, <1>7, FS_EmptySet
    <3> QED BY <1>4, <3>1
  <2>2. PICK x : H = {x}
    BY <1>3, <2>1, FS_Singleton
  <2>3. a \in H
    BY <1>1, <1>7 DEF Only
  <2>4. a = x /\ a \in DOMAIN plan.tasks
    BY <1>2, <2>2, <2>3
  <2>5. \A y \in DOMAIN plan.tasks : Identity(plan, match, y) = i <=> y = a
    BY <1>2, <2>2, <2>4
  <2> QED BY <2>4, <2>5 DEF OnlyHolder
<1> QED BY <1>6, <1>7

\* What an identity contributes.
LEMMA EntryIs ==
  ASSUME NEW base, NEW curr, IsListed(base), IsListed(curr), NEW match,
         NEW i \in Identities(base, match) \cup Identities(curr, match),
         NEW e \in EntriesOf(base, curr, match, i)
  PROVE  \/ ~IsAmbiguous(base, curr, match, i) /\ IsPaired(base, curr, match, i, e)
         \/ IsAmbiguous(base, curr, match, i) /\ IsUnpaired(base, curr, match, i, e)
<1>1. PICK b, c : b = Only(Holders(base, match, i)) /\ c = Only(Holders(curr, match, i))
  OBVIOUS
<1>2. CASE IsAmbiguous(base, curr, match, i)
  <2>1. \/ \E a \in Holders(base, match, i) :
             e = [key |-> <<"baseline", a>>, identity |-> i, base |-> a, curr |-> Absent]
        \/ \E a \in Holders(curr, match, i) :
             e = [key |-> <<"current", a>>, identity |-> i, base |-> Absent, curr |-> a]
    BY <1>2 DEF EntriesOf
  <2>2. CASE \E a \in Holders(base, match, i) :
               e = [key |-> <<"baseline", a>>, identity |-> i, base |-> a, curr |-> Absent]
    <3>1. PICK a \in Holders(base, match, i) :
             e = [key |-> <<"baseline", a>>, identity |-> i, base |-> a, curr |-> Absent]
      BY <2>2
    <3>2. e.base = a
      BY <3>1
    <3>3. a \in DOMAIN base.tasks /\ Identity(base, match, a) = i
      BY <3>1 DEF Holders
    <3> QED BY <1>2, <3>1, <3>2, <3>3 DEF IsUnpaired
  <2>3. CASE \E a \in Holders(curr, match, i) :
               e = [key |-> <<"current", a>>, identity |-> i, base |-> Absent, curr |-> a]
    <3>1. PICK a \in Holders(curr, match, i) :
             e = [key |-> <<"current", a>>, identity |-> i, base |-> Absent, curr |-> a]
      BY <2>3
    <3>2. e.curr = a
      BY <3>1
    <3>3. a \in DOMAIN curr.tasks /\ Identity(curr, match, a) = i
      BY <3>1 DEF Holders
    <3> QED BY <1>2, <3>1, <3>2, <3>3 DEF IsUnpaired
  <2> QED BY <2>1, <2>2, <2>3
<1>3. CASE ~IsAmbiguous(base, curr, match, i)
  <2>1. e = [key |-> <<"plain", IF c # Absent THEN c ELSE b>>, identity |-> i, base |-> b, curr |-> c]
    BY <1>1, <1>3 DEF EntriesOf
  <2>2. e.base = b /\ e.curr = c
    BY <2>1
  <2>3. OnlyHolder(base, match, i, b) /\ OnlyHolder(curr, match, i, c)
    BY <1>1, <1>3, OneHolder DEF IsAmbiguous
  <2>4. b # Absent \/ c # Absent
    <3>1. CASE i \in Identities(base, match)
      <4>1. PICK x \in DOMAIN base.tasks : i = Identity(base, match, x)
        BY <3>1 DEF Identities
      <4>2. x = b /\ x # Absent
        BY <2>3, <4>1, IdentityIs DEF OnlyHolder
      <4> QED BY <4>2
    <3>2. CASE i \in Identities(curr, match)
      <4>1. PICK x \in DOMAIN curr.tasks : i = Identity(curr, match, x)
        BY <3>2 DEF Identities
      <4>2. x = c /\ x # Absent
        BY <2>3, <4>1, IdentityIs DEF OnlyHolder
      <4> QED BY <4>2
    <3> QED BY <3>1, <3>2
  <2> QED BY <1>3, <2>1, <2>2, <2>3, <2>4 DEF IsPaired
<1> QED BY <1>2, <1>3

\* Every activity of the baseline is in something its identity contributes, and so
\* is every one of the current plan.
LEMMA EntryOf ==
  ASSUME NEW base, NEW curr, IsListed(base), IsListed(curr), NEW match
  PROVE  /\ \A a \in DOMAIN base.tasks :
              \E e \in EntriesOf(base, curr, match, Identity(base, match, a)) : e.base = a
         /\ \A a \in DOMAIN curr.tasks :
              \E e \in EntriesOf(base, curr, match, Identity(curr, match, a)) : e.curr = a
<1>1. ASSUME NEW a \in DOMAIN base.tasks
      PROVE  \E e \in EntriesOf(base, curr, match, Identity(base, match, a)) : e.base = a
  <2>1. PICK i : i = Identity(base, match, a)
    OBVIOUS
  <2>2. PICK b, c : b = Only(Holders(base, match, i)) /\ c = Only(Holders(curr, match, i))
    OBVIOUS
  <2>3. CASE IsAmbiguous(base, curr, match, i)
    <3>1. PICK e : e = [key |-> <<"baseline", a>>, identity |-> i, base |-> a, curr |-> Absent]
      OBVIOUS
    <3>2. a \in Holders(base, match, i)
      BY <2>1 DEF Holders
    <3>3. e \in EntriesOf(base, curr, match, i)
      BY <2>3, <3>1, <3>2 DEF EntriesOf
    <3> QED BY <2>1, <3>1, <3>3
  <2>4. CASE ~IsAmbiguous(base, curr, match, i)
    <3>1. PICK e : e = [key |-> <<"plain", IF c # Absent THEN c ELSE b>>, identity |-> i, base |-> b, curr |-> c]
      OBVIOUS
    <3>2. e \in EntriesOf(base, curr, match, i)
      BY <2>2, <2>4, <3>1 DEF EntriesOf
    <3>3. OnlyHolder(base, match, i, b)
      BY <2>2, <2>4, OneHolder DEF IsAmbiguous
    <3>4. a = b
      BY <2>1, <3>3 DEF OnlyHolder
    <3> QED BY <2>1, <3>1, <3>2, <3>4
  <2> QED BY <2>3, <2>4
<1>2. ASSUME NEW a \in DOMAIN curr.tasks
      PROVE  \E e \in EntriesOf(base, curr, match, Identity(curr, match, a)) : e.curr = a
  <2>1. PICK i : i = Identity(curr, match, a)
    OBVIOUS
  <2>2. PICK b, c : b = Only(Holders(base, match, i)) /\ c = Only(Holders(curr, match, i))
    OBVIOUS
  <2>3. CASE IsAmbiguous(base, curr, match, i)
    <3>1. PICK e : e = [key |-> <<"current", a>>, identity |-> i, base |-> Absent, curr |-> a]
      OBVIOUS
    <3>2. a \in Holders(curr, match, i)
      BY <2>1 DEF Holders
    <3>3. e \in EntriesOf(base, curr, match, i)
      BY <2>3, <3>1, <3>2 DEF EntriesOf
    <3> QED BY <2>1, <3>1, <3>3
  <2>4. CASE ~IsAmbiguous(base, curr, match, i)
    <3>1. PICK e : e = [key |-> <<"plain", IF c # Absent THEN c ELSE b>>, identity |-> i, base |-> b, curr |-> c]
      OBVIOUS
    <3>2. e \in EntriesOf(base, curr, match, i)
      BY <2>2, <2>4, <3>1 DEF EntriesOf
    <3>3. OnlyHolder(curr, match, i, c)
      BY <2>2, <2>4, OneHolder DEF IsAmbiguous
    <3>4. a = c
      BY <2>1, <3>3 DEF OnlyHolder
    <3> QED BY <2>1, <3>1, <3>2, <3>4
  <2> QED BY <2>3, <2>4
<1> QED BY <1>1, <1>2

\* An id that is on both sides, under identities that differ.
Reused(base, curr, match, r) ==
  /\ r \in DOMAIN base.tasks /\ r \in DOMAIN curr.tasks
  /\ Identity(base, match, r) # Identity(curr, match, r)

\* Two identities produce one key only for an id given to other work.
LEMMA KeysClash ==
  ASSUME NEW base, NEW curr, IsListed(base), IsListed(curr), NEW match,
         NEW i, NEW j, i # j, NEW e, NEW f, e.key = f.key,
         IsPaired(base, curr, match, i, e) \/ IsUnpaired(base, curr, match, i, e),
         IsPaired(base, curr, match, j, f) \/ IsUnpaired(base, curr, match, j, f)
  PROVE  \E r : /\ Reused(base, curr, match, r)
                /\ IsPaired(base, curr, match, i, e)
                /\ r = IF e.curr # Absent THEN e.curr ELSE e.base
<1>1. ASSUME IsPaired(base, curr, match, i, e)
      PROVE  /\ e.key = <<"plain", IF e.curr # Absent THEN e.curr ELSE e.base>>
             /\ e.curr # Absent => e.curr \in DOMAIN curr.tasks /\ Identity(curr, match, e.curr) = i
             /\ e.curr = Absent => e.base \in DOMAIN base.tasks /\ Identity(base, match, e.base) = i
  <2>1. e.key = <<"plain", IF e.curr # Absent THEN e.curr ELSE e.base>>
    <3>1. PICK c, b : c = e.curr /\ b = e.base
      OBVIOUS
    <3>2. e = [key |-> <<"plain", IF c # Absent THEN c ELSE b>>, identity |-> i, base |-> b, curr |-> c]
      BY <1>1, <3>1 DEF IsPaired
    <3>3. e.key = <<"plain", IF c # Absent THEN c ELSE b>>
      BY <3>2
    <3> QED BY <3>1, <3>3
  <2> QED BY <1>1, <2>1 DEF IsPaired, OnlyHolder
<1>2. ASSUME IsPaired(base, curr, match, j, f)
      PROVE  /\ f.key = <<"plain", IF f.curr # Absent THEN f.curr ELSE f.base>>
             /\ f.curr # Absent => f.curr \in DOMAIN curr.tasks /\ Identity(curr, match, f.curr) = j
             /\ f.curr = Absent => f.base \in DOMAIN base.tasks /\ Identity(base, match, f.base) = j
  <2>1. f.key = <<"plain", IF f.curr # Absent THEN f.curr ELSE f.base>>
    <3>1. PICK c, b : c = f.curr /\ b = f.base
      OBVIOUS
    <3>2. f = [key |-> <<"plain", IF c # Absent THEN c ELSE b>>, identity |-> j, base |-> b, curr |-> c]
      BY <1>2, <3>1 DEF IsPaired
    <3>3. f.key = <<"plain", IF c # Absent THEN c ELSE b>>
      BY <3>2
    <3> QED BY <3>1, <3>3
  <2> QED BY <1>2, <2>1 DEF IsPaired, OnlyHolder
<1>3. ASSUME IsUnpaired(base, curr, match, i, e)
      PROVE  \/ \E a \in DOMAIN base.tasks : e.key = <<"baseline", a>> /\ Identity(base, match, a) = i
             \/ \E a \in DOMAIN curr.tasks : e.key = <<"current", a>> /\ Identity(curr, match, a) = i
  <2>1. CASE \E a : /\ a = e.base /\ a \in DOMAIN base.tasks /\ Identity(base, match, a) = i
                    /\ e = [key |-> <<"baseline", a>>, identity |-> i, base |-> a, curr |-> Absent]
    BY <2>1
  <2>2. CASE \E a : /\ a = e.curr /\ a \in DOMAIN curr.tasks /\ Identity(curr, match, a) = i
                    /\ e = [key |-> <<"current", a>>, identity |-> i, base |-> Absent, curr |-> a]
    BY <2>2
  <2> QED BY <1>3, <2>1, <2>2 DEF IsUnpaired
<1>4. ASSUME IsUnpaired(base, curr, match, j, f)
      PROVE  \/ \E a \in DOMAIN base.tasks : f.key = <<"baseline", a>> /\ Identity(base, match, a) = j
             \/ \E a \in DOMAIN curr.tasks : f.key = <<"current", a>> /\ Identity(curr, match, a) = j
  <2>1. CASE \E a : /\ a = f.base /\ a \in DOMAIN base.tasks /\ Identity(base, match, a) = j
                    /\ f = [key |-> <<"baseline", a>>, identity |-> j, base |-> a, curr |-> Absent]
    BY <2>1
  <2>2. CASE \E a : /\ a = f.curr /\ a \in DOMAIN curr.tasks /\ Identity(curr, match, a) = j
                    /\ f = [key |-> <<"current", a>>, identity |-> j, base |-> Absent, curr |-> a]
    BY <2>2
  <2> QED BY <1>4, <2>1, <2>2 DEF IsUnpaired
<1>5. CASE IsUnpaired(base, curr, match, i, e)
  <2>1. ASSUME NEW x, NEW y, NEW u, NEW v, <<x, y>> = <<u, v>> PROVE x = u /\ y = v
    BY <2>1
  <2>2. CASE IsUnpaired(base, curr, match, j, f)
    <3>1. PICK x, a : /\ e.key = <<x, a>>
                      /\ \/ x = "baseline" /\ Identity(base, match, a) = i
                         \/ x = "current" /\ Identity(curr, match, a) = i
      BY <1>3, <1>5
    <3>2. PICK y, b : /\ f.key = <<y, b>>
                      /\ \/ y = "baseline" /\ Identity(base, match, b) = j
                         \/ y = "current" /\ Identity(curr, match, b) = j
      BY <1>4, <2>2
    <3>3. x = y /\ a = b
      BY <2>1, <3>1, <3>2
    <3> QED BY <3>1, <3>2, <3>3
  <2>3. CASE IsPaired(base, curr, match, j, f)
    <3>1. \E a : e.key = <<"baseline", a>> \/ e.key = <<"current", a>>
      BY <1>3, <1>5
    <3>2. \E b : f.key = <<"plain", b>>
      BY <1>2, <2>3
    <3>3. e.key[1] = "baseline" \/ e.key[1] = "current"
      BY <3>1
    <3>4. f.key[1] = "plain"
      BY <3>2
    <3> QED BY <3>3, <3>4
  <2> QED BY <2>2, <2>3
<1>6. CASE IsPaired(base, curr, match, i, e)
  <2>0. ASSUME NEW x, NEW y, NEW u, NEW v, <<x, y>> = <<u, v>> PROVE x = u /\ y = v
    BY <2>0
  <2>1. CASE IsUnpaired(base, curr, match, j, f)
    <3>1. \E a : f.key = <<"baseline", a>> \/ f.key = <<"current", a>>
      BY <1>4, <2>1
    <3>2. \E b : e.key = <<"plain", b>>
      BY <1>1, <1>6
    <3>3. f.key[1] = "baseline" \/ f.key[1] = "current"
      BY <3>1
    <3>4. e.key[1] = "plain"
      BY <3>2
    <3> QED BY <3>3, <3>4
  <2>2. CASE IsPaired(base, curr, match, j, f)
    <3>1. PICK r, s : /\ r = IF e.curr # Absent THEN e.curr ELSE e.base
                      /\ s = IF f.curr # Absent THEN f.curr ELSE f.base
      OBVIOUS
    <3>2. e.key = <<"plain", r>> /\ f.key = <<"plain", s>>
      BY <1>1, <1>2, <1>6, <2>2, <3>1
    <3>3. r = s
      BY <2>0, <3>2
    <3>4. /\ e.curr # Absent => r \in DOMAIN curr.tasks /\ Identity(curr, match, r) = i
          /\ e.curr = Absent => r \in DOMAIN base.tasks /\ Identity(base, match, r) = i
          /\ f.curr # Absent => r \in DOMAIN curr.tasks /\ Identity(curr, match, r) = j
          /\ f.curr = Absent => r \in DOMAIN base.tasks /\ Identity(base, match, r) = j
      BY <1>1, <1>2, <1>6, <2>2, <3>1, <3>3
    <3>5. Reused(base, curr, match, r)
      BY <3>4 DEF Reused
    <3> QED BY <1>6, <3>1, <3>5
  <2> QED BY <2>1, <2>2
<1> QED BY <1>5, <1>6

\* Of one identity, there is one entry of an activity.
LEMMA OneEntryEach ==
  ASSUME NEW base, NEW curr, IsListed(base), IsListed(curr), NEW match, NEW e, NEW f,
         e \in Pairs(base, curr, match), f \in Pairs(base, curr, match)
  PROVE  /\ e.base = f.base /\ e.base # Absent => e = f
         /\ e.curr = f.curr /\ e.curr # Absent => e = f
<1>1. PICK i \in Identities(base, match) \cup Identities(curr, match) : e \in EntriesOf(base, curr, match, i)
  BY DEF Pairs
<1>2. PICK j \in Identities(base, match) \cup Identities(curr, match) : f \in EntriesOf(base, curr, match, j)
  BY DEF Pairs
<1>3. /\ \/ ~IsAmbiguous(base, curr, match, i) /\ IsPaired(base, curr, match, i, e)
         \/ IsAmbiguous(base, curr, match, i) /\ IsUnpaired(base, curr, match, i, e)
      /\ \/ ~IsAmbiguous(base, curr, match, j) /\ IsPaired(base, curr, match, j, f)
         \/ IsAmbiguous(base, curr, match, j) /\ IsUnpaired(base, curr, match, j, f)
  BY <1>1, <1>2, EntryIs
<1>4. /\ e.base # Absent => e.base \in DOMAIN base.tasks /\ Identity(base, match, e.base) = i
      /\ e.curr # Absent => e.curr \in DOMAIN curr.tasks /\ Identity(curr, match, e.curr) = i
  <2>1. CASE IsPaired(base, curr, match, i, e)
    <3>1. OnlyHolder(base, match, i, e.base) /\ OnlyHolder(curr, match, i, e.curr)
      BY <2>1 DEF IsPaired
    <3> QED BY <3>1 DEF OnlyHolder
  <2>2. CASE IsUnpaired(base, curr, match, i, e)
    <3>1. CASE \E a : /\ a = e.base /\ a \in DOMAIN base.tasks /\ Identity(base, match, a) = i
                      /\ e = [key |-> <<"baseline", a>>, identity |-> i, base |-> a, curr |-> Absent]
      BY <3>1
    <3>2. CASE \E a : /\ a = e.curr /\ a \in DOMAIN curr.tasks /\ Identity(curr, match, a) = i
                      /\ e = [key |-> <<"current", a>>, identity |-> i, base |-> Absent, curr |-> a]
      BY <3>2
    <3> QED BY <2>2, <3>1, <3>2 DEF IsUnpaired
  <2> QED BY <1>3, <2>1, <2>2
<1>5. /\ f.base # Absent => f.base \in DOMAIN base.tasks /\ Identity(base, match, f.base) = j
      /\ f.curr # Absent => f.curr \in DOMAIN curr.tasks /\ Identity(curr, match, f.curr) = j
  <2>1. CASE IsPaired(base, curr, match, j, f)
    <3>1. OnlyHolder(base, match, j, f.base) /\ OnlyHolder(curr, match, j, f.curr)
      BY <2>1 DEF IsPaired
    <3> QED BY <3>1 DEF OnlyHolder
  <2>2. CASE IsUnpaired(base, curr, match, j, f)
    <3>1. CASE \E a : /\ a = f.base /\ a \in DOMAIN base.tasks /\ Identity(base, match, a) = j
                      /\ f = [key |-> <<"baseline", a>>, identity |-> j, base |-> a, curr |-> Absent]
      BY <3>1
    <3>2. CASE \E a : /\ a = f.curr /\ a \in DOMAIN curr.tasks /\ Identity(curr, match, a) = j
                      /\ f = [key |-> <<"current", a>>, identity |-> j, base |-> Absent, curr |-> a]
      BY <3>2
    <3> QED BY <2>2, <3>1, <3>2 DEF IsUnpaired
  <2> QED BY <1>3, <2>1, <2>2
<1>6. ASSUME (e.base = f.base /\ e.base # Absent) \/ (e.curr = f.curr /\ e.curr # Absent) PROVE e = f
  <2>1. i = j
    BY <1>4, <1>5, <1>6
  <2>2. CASE IsAmbiguous(base, curr, match, i)
    <3>1. IsUnpaired(base, curr, match, i, e) /\ IsUnpaired(base, curr, match, i, f)
      BY <1>3, <2>1, <2>2
    <3>2. PICK b, c : b = e.base /\ c = e.curr
      OBVIOUS
    <3>3. \/ /\ b # Absent
             /\ e = [key |-> <<"baseline", b>>, identity |-> i, base |-> b, curr |-> Absent]
          \/ /\ c # Absent
             /\ e = [key |-> <<"current", c>>, identity |-> i, base |-> Absent, curr |-> c]
      BY <3>1, <3>2, IdentityIs DEF IsUnpaired
    <3>4. PICK b2, c2 : b2 = f.base /\ c2 = f.curr
      OBVIOUS
    <3>5. \/ /\ b2 # Absent
             /\ f = [key |-> <<"baseline", b2>>, identity |-> i, base |-> b2, curr |-> Absent]
          \/ /\ c2 # Absent
             /\ f = [key |-> <<"current", c2>>, identity |-> i, base |-> Absent, curr |-> c2]
      BY <3>1, <3>4, IdentityIs DEF IsUnpaired
    <3>6. CASE e.base = f.base /\ e.base # Absent
      <4>1. b = b2 /\ b # Absent
        BY <3>2, <3>4, <3>6
      <4>2. e = [key |-> <<"baseline", b>>, identity |-> i, base |-> b, curr |-> Absent]
        <5>1. e # [key |-> <<"current", c>>, identity |-> i, base |-> Absent, curr |-> c]
          <6>1. ASSUME e = [key |-> <<"current", c>>, identity |-> i, base |-> Absent, curr |-> c]
                PROVE  e.base = Absent
            BY <6>1
          <6> QED BY <3>2, <4>1, <6>1
        <5> QED BY <3>2, <3>3, <4>1, <5>1
      <4>3. f = [key |-> <<"baseline", b>>, identity |-> i, base |-> b, curr |-> Absent]
        <5>1. f # [key |-> <<"current", c2>>, identity |-> i, base |-> Absent, curr |-> c2]
          <6>1. ASSUME f = [key |-> <<"current", c2>>, identity |-> i, base |-> Absent, curr |-> c2]
                PROVE  f.base = Absent
            BY <6>1
          <6> QED BY <3>4, <4>1, <6>1
        <5> QED BY <3>4, <3>5, <4>1, <5>1
      <4> QED BY <4>2, <4>3
    <3>7. CASE e.curr = f.curr /\ e.curr # Absent
      <4>1. c = c2 /\ c # Absent
        BY <3>2, <3>4, <3>7
      <4>2. e = [key |-> <<"current", c>>, identity |-> i, base |-> Absent, curr |-> c]
        <5>1. e # [key |-> <<"baseline", b>>, identity |-> i, base |-> b, curr |-> Absent]
          <6>1. ASSUME e = [key |-> <<"baseline", b>>, identity |-> i, base |-> b, curr |-> Absent]
                PROVE  e.curr = Absent
            BY <6>1
          <6> QED BY <3>2, <4>1, <6>1
        <5> QED BY <3>2, <3>3, <4>1, <5>1
      <4>3. f = [key |-> <<"current", c>>, identity |-> i, base |-> Absent, curr |-> c]
        <5>1. f # [key |-> <<"baseline", b2>>, identity |-> i, base |-> b2, curr |-> Absent]
          <6>1. ASSUME f = [key |-> <<"baseline", b2>>, identity |-> i, base |-> b2, curr |-> Absent]
                PROVE  f.curr = Absent
            BY <6>1
          <6> QED BY <3>4, <4>1, <6>1
        <5> QED BY <3>4, <3>5, <4>1, <5>1
      <4> QED BY <4>2, <4>3
    <3> QED BY <1>6, <3>6, <3>7
  <2>3. CASE ~IsAmbiguous(base, curr, match, i)
    <3>1. IsPaired(base, curr, match, i, e) /\ IsPaired(base, curr, match, i, f)
      BY <1>3, <2>1, <2>3
    <3>2. e.base = f.base
      BY <3>1, IdentityIs DEF IsPaired, OnlyHolder
    <3>3. e.curr = f.curr
      BY <3>1, IdentityIs DEF IsPaired, OnlyHolder
    <3> QED BY <3>1, <3>2, <3>3 DEF IsPaired
  <2> QED BY <2>2, <2>3
<1> QED BY <1>6

\* Every activity is in one entry, unless an id it goes by was given to other work.
LEMMA EachIsListed ==
  ASSUME NEW base, NEW curr, IsListed(base), IsListed(curr), NEW match,
         NEW pairs, pairs = Pairs(base, curr, match)
  PROVE  /\ \A a \in DOMAIN base.tasks :
              \/ \E e \in pairs : e.base = a
              \/ \E r : /\ Reused(base, curr, match, r)
                        /\ a = r \/ Identity(base, match, a) = Identity(curr, match, r)
         /\ \A a \in DOMAIN curr.tasks :
              (\E e \in pairs : e.curr = a) \/ Reused(base, curr, match, a)
<1> DEFINE all == Identities(base, match) \cup Identities(curr, match)
<1>1. ASSUME NEW i \in all, NEW e \in EntriesOf(base, curr, match, i)
      PROVE  \/ e \in pairs
             \/ \E r : /\ Reused(base, curr, match, r)
                       /\ IsPaired(base, curr, match, i, e)
                       /\ r = IF e.curr # Absent THEN e.curr ELSE e.base
  <2>0. ASSUME NEW j \in all, NEW f \in EntriesOf(base, curr, match, j) PROVE f.identity = j /\ j \in Nat
    <3>1. \/ IsPaired(base, curr, match, j, f) \/ IsUnpaired(base, curr, match, j, f)
      BY <2>0, EntryIs
    <3>2. f.identity = j
      <4>1. PICK b, c, k, x : b = f.base /\ c = f.curr /\ k = f.key
        OBVIOUS
      <4>2. CASE IsPaired(base, curr, match, j, f)
        <5>1. \E key, old, new : f = [key |-> key, identity |-> j, base |-> old, curr |-> new]
          BY <4>2 DEF IsPaired
        <5> QED BY <5>1
      <4>3. CASE IsUnpaired(base, curr, match, j, f)
        <5>1. \E key, old, new : f = [key |-> key, identity |-> j, base |-> old, curr |-> new]
          BY <4>3 DEF IsUnpaired
        <5> QED BY <5>1
      <4> QED BY <3>1, <4>2, <4>3
    <3>3. j \in Nat
      BY IdentityIs DEF Identities
    <3> QED BY <3>2, <3>3
  <2>1. CASE \A j \in all : \A f \in EntriesOf(base, curr, match, j) : f.key = e.key => f.identity <= e.identity
    <3>1. e \in pairs
      BY <2>1 DEF Pairs
    <3> QED BY <3>1
  <2>2. CASE ~\A j \in all : \A f \in EntriesOf(base, curr, match, j) : f.key = e.key => f.identity <= e.identity
    <3>1. PICK j \in all : \E f \in EntriesOf(base, curr, match, j) : f.key = e.key /\ ~(f.identity <= e.identity)
      BY <2>2
    <3>2. PICK f \in EntriesOf(base, curr, match, j) : f.key = e.key /\ ~(f.identity <= e.identity)
      BY <3>1
    <3>3. i # j
      BY <2>0, <3>2
    <3>4. IsPaired(base, curr, match, i, e) \/ IsUnpaired(base, curr, match, i, e)
      BY EntryIs
    <3>5. IsPaired(base, curr, match, j, f) \/ IsUnpaired(base, curr, match, j, f)
      BY EntryIs
    <3> QED BY <3>2, <3>3, <3>4, <3>5, KeysClash
  <2> QED BY <2>1, <2>2
<1>2. ASSUME NEW a \in DOMAIN base.tasks
      PROVE  \/ \E e \in pairs : e.base = a
             \/ \E r : /\ Reused(base, curr, match, r)
                       /\ a = r \/ Identity(base, match, a) = Identity(curr, match, r)
  <2>1. PICK i : i = Identity(base, match, a)
    OBVIOUS
  <2>2. i \in all
    BY <2>1 DEF Identities
  <2>3. PICK e \in EntriesOf(base, curr, match, i) : e.base = a
    BY <2>1, EntryOf
  <2>4. CASE e \in pairs
    BY <2>3, <2>4
  <2>5. CASE e \notin pairs
    <3>1. PICK r : /\ Reused(base, curr, match, r)
                   /\ IsPaired(base, curr, match, i, e)
                   /\ r = IF e.curr # Absent THEN e.curr ELSE e.base
      BY <1>1, <2>2, <2>5
    <3>2. a = r \/ Identity(curr, match, r) = i
      BY <2>3, <3>1 DEF IsPaired, OnlyHolder
    <3> QED BY <2>1, <3>1, <3>2
  <2> QED BY <2>4, <2>5
<1>3. ASSUME NEW a \in DOMAIN curr.tasks
      PROVE  (\E e \in pairs : e.curr = a) \/ Reused(base, curr, match, a)
  <2>1. PICK i : i = Identity(curr, match, a)
    OBVIOUS
  <2>2. i \in all
    BY <2>1 DEF Identities
  <2>3. PICK e \in EntriesOf(base, curr, match, i) : e.curr = a
    BY <2>1, EntryOf
  <2>4. CASE e \in pairs
    BY <2>3, <2>4
  <2>5. CASE e \notin pairs
    <3>1. PICK r : /\ Reused(base, curr, match, r)
                   /\ IsPaired(base, curr, match, i, e)
                   /\ r = IF e.curr # Absent THEN e.curr ELSE e.base
      BY <1>1, <2>2, <2>5
    <3>2. a # Absent
      BY IdentityIs
    <3>3. r = a
      BY <2>3, <3>1, <3>2
    <3> QED BY <3>1, <3>3
  <2> QED BY <2>4, <2>5
<1> QED BY <1>2, <1>3

\* A matched entry: one activity of either side, of one identity nobody else has.
LEMMA MatchedIs ==
  ASSUME NEW base, NEW curr, IsListed(base), IsListed(curr), NEW match,
         NEW e \in Pairs(base, curr, match), e.base # Absent, e.curr # Absent
  PROVE  \E i : IsPaired(base, curr, match, i, e)
<1>1. PICK i \in Identities(base, match) \cup Identities(curr, match) : e \in EntriesOf(base, curr, match, i)
  BY DEF Pairs
<1>2. IsPaired(base, curr, match, i, e) \/ IsUnpaired(base, curr, match, i, e)
  BY <1>1, EntryIs
<1>3. CASE IsUnpaired(base, curr, match, i, e)
  <2>1. CASE \E a : e = [key |-> <<"baseline", a>>, identity |-> i, base |-> a, curr |-> Absent]
    BY <2>1
  <2>2. CASE \E a : e = [key |-> <<"current", a>>, identity |-> i, base |-> Absent, curr |-> a]
    BY <2>2
  <2> QED BY <1>3, <2>1, <2>2 DEF IsUnpaired
<1> QED BY <1>2, <1>3

\* What an entry is reported as, kind by kind.
LEMMA KindsAre ==
  ASSUME NEW old, NEW new, NEW e, NEW kinds, kinds = Kinds(old, new, e)
  PROVE  /\ "added" \in kinds <=> e.base = Absent
         /\ "removed" \in kinds <=> e.curr = Absent
         /\ e.base # Absent /\ e.curr # Absent =>
              /\ "duration" \in kinds
                   <=> old.plan.tasks[e.base].dur # new.plan.tasks[e.curr].dur
              /\ "constraint" \in kinds
                   <=> old.plan.tasks[e.base].floor # new.plan.tasks[e.curr].floor
              /\ "relogicked" \in kinds
                   <=> Signature(old.plan, e.base) # Signature(new.plan, e.curr)
         /\ "relogicked" \in kinds => e.base # Absent /\ e.curr # Absent
<1> DEFINE b == e.base
           c == e.curr
           paired == b # Absent /\ c # Absent
           Is(k) ==
             CASE k = "added"       -> b = Absent
               [] k = "removed"     -> c = Absent
               [] k = "duration"    -> paired /\ old.plan.tasks[b].dur # new.plan.tasks[c].dur
               [] k = "constraint"  -> paired /\ old.plan.tasks[b].floor # new.plan.tasks[c].floor
               [] k = "relogicked"  -> paired /\ Signature(old.plan, b) # Signature(new.plan, c)
               [] k = "shifted"     -> paired /\ \/ old.start[b] # new.start[c]
                                                 \/ old.plan.tasks[b].dur + old.start[b]
                                                      # new.plan.tasks[c].dur + new.start[c]
               [] k = "criticality" -> (b \in old.critical) # (c \in new.critical)
           found == {k \in {"added", "removed", "duration", "constraint", "relogicked", "shifted",
                            "criticality"} : Is(k)}
<1>1. kinds = IF found = {} THEN {"unchanged"} ELSE found
  BY DEF Kinds
<1>2. Is("added") <=> b = Absent
  OBVIOUS
<1>3. Is("removed") <=> c = Absent
  OBVIOUS
<1>4. Is("duration") <=> paired /\ old.plan.tasks[b].dur # new.plan.tasks[c].dur
  OBVIOUS
<1>5. Is("constraint") <=> paired /\ old.plan.tasks[b].floor # new.plan.tasks[c].floor
  OBVIOUS
<1>6. Is("relogicked") <=> paired /\ Signature(old.plan, b) # Signature(new.plan, c)
  OBVIOUS
<1> HIDE DEF Is
<1>7. \A k \in {"added", "removed", "duration", "constraint", "relogicked"} : k \in kinds <=> Is(k)
  <2>1. \A k \in {"added", "removed", "duration", "constraint", "relogicked"} : k \in found <=> Is(k)
    OBVIOUS
  <2>2. CASE found = {}
    <3>1. kinds = {"unchanged"}
      BY <1>1, <2>2
    <3>2. \A k \in {"added", "removed", "duration", "constraint", "relogicked"} : k \notin found
      BY <2>2
    <3> HIDE DEF found
    <3> QED BY <2>1, <3>1, <3>2
  <2>3. CASE found # {}
    <3>1. kinds = found
      BY <1>1, <2>3
    <3> HIDE DEF found
    <3> QED BY <2>1, <3>1
  <2> QED BY <2>2, <2>3
<1> HIDE DEF found
<1> QED BY <1>2, <1>3, <1>4, <1>5, <1>6, <1>7

\* The links into an activity as they are written.
Written(plan, k) == <<plan.links[k].pred, plan.links[k].type, plan.links[k].lag>>

LEMMA SignatureIs ==
  ASSUME NEW plan, NEW a
  PROVE  /\ \A s : s \in DOMAIN Signature(plan, a) <=> \E k \in Into(plan, a) : s = Written(plan, k)
         /\ Signature(plan, a) = [s \in DOMAIN Signature(plan, a) |->
                                    Cardinality({k \in Into(plan, a) : Written(plan, k) = s})]
<1> DEFINE S == {Written(plan, k) : k \in Into(plan, a)}
<1>1. Signature(plan, a) = [s \in S |-> Cardinality({k \in Into(plan, a) : Written(plan, k) = s})]
  BY DEF Signature, Written
<1>2. DOMAIN Signature(plan, a) = S
  BY <1>1
<1>3. \A s : s \in S <=> \E k \in Into(plan, a) : s = Written(plan, k)
  OBVIOUS
<1> HIDE DEF S
<1> QED BY <1>1, <1>2, <1>3

\* The parts of a link as it is written.
LEMMA WrittenAlike ==
  ASSUME NEW p, NEW q, NEW k, NEW m, Written(p, k) = Written(q, m)
  PROVE  /\ p.links[k].pred = q.links[m].pred /\ p.links[k].type = q.links[m].type
         /\ p.links[k].lag = q.links[m].lag
<1>1. ASSUME NEW x1, NEW x2, NEW x3, NEW y1, NEW y2, NEW y3, <<x1, x2, x3>> = <<y1, y2, y3>>
      PROVE  x1 = y1 /\ x2 = y2 /\ x3 = y3
  BY <1>1
<1> QED BY <1>1 DEF Written

\* Links no two of which join one pair of activities.
LEMMA LinksApart ==
  ASSUME NEW plan, IsPlan(plan), NoneTwice(plan),
         NEW k \in DOMAIN plan.links, NEW m \in DOMAIN plan.links,
         plan.links[k].pred = plan.links[m].pred, plan.links[k].succ = plan.links[m].succ
  PROVE  k = m
<1>1. PICK D, E : D = DOMAIN plan.links /\ E = Ends(plan)
  OBVIOUS
<1>2. IsFiniteSet(D) /\ Cardinality(D) = Len(plan.links)
  <2>1. PICK Y, s : s = plan.links /\ s \in Seq(Y)
    BY DEF IsPlan
  <2>2. D = 1..Len(plan.links) /\ Len(plan.links) \in Nat
    BY <1>1, <2>1
  <2>3. 1 \in Int /\ Len(plan.links) \in Int
    BY <2>2
  <2>4. Cardinality(D) = IF 1 > Len(plan.links) THEN 0 ELSE Len(plan.links) - 1 + 1
    BY <2>2, <2>3, FS_Interval
  <2>5. Cardinality(D) = Len(plan.links)
    BY <2>2, <2>4
  <2> QED BY <1>1, <2>5, InPlan
<1>3. PICK f : f = [x \in D |-> <<plan.links[x].pred, plan.links[x].succ>>]
  OBVIOUS
<1>4. \A y : y \in E <=> \E x \in D : y = f[x]
  BY <1>1, <1>3 DEF Ends
<1>5. f \in Surjection(D, E)
  <2>1. f \in [D -> E]
    BY <1>3, <1>4
  <2> QED BY <1>4, <2>1 DEF Surjection
<1>6. Cardinality(D) = Cardinality(E)
  BY <1>1, <1>2 DEF NoneTwice
<1>7. f \in Injection(D, E)
  BY <1>2, <1>5, <1>6, FS_SurjSameCardinalityImpliesInj
<1>8. f[k] = f[m]
  BY <1>1, <1>3
<1> QED BY <1>1, <1>7, <1>8 DEF Injection, IsInjective

\* The difference a cause shows as.
ShowsAs(cause) ==
  IF cause = "duration_growth" THEN "duration"
  ELSE IF cause = "constraint_imposed" THEN "constraint" ELSE "relogicked"

\* What a cause says of the path and of the differences.
IsShown(old, new, pairs, path, x) ==
  /\ \E i \in DOMAIN path : path[i] = x.act
  /\ NoneTwice(old.plan) \/ x.cause # "lag_growth" =>
       \E e \in pairs : e.curr = x.act /\ ShowsAs(x.cause) \in Kinds(old, new, e)

\* What is found on the path is of an activity on it and shows among the differences
\* of its entry; a growth of lag does where links are not doubled.
LEMMA CauseIsShown ==
  ASSUME NEW old, NEW new, IsListed(old.plan), IsListed(new.plan), NEW match,
         NEW pairs, pairs = Pairs(old.plan, new.plan, match), NEW path,
         NEW x \in FoundOn(old.plan, new.plan, pairs, path)
  PROVE  IsShown(old, new, pairs, path, x)
<1>1. PICK base, curr : base = old.plan /\ curr = new.plan
  OBVIOUS
<1>2. PICK e \in Walked(pairs, path) :
        x \in FromActivity(base, curr, e) \cup FromLinks(base, curr, e, path)
  BY <1>1 DEF FoundOn
<1>3. /\ e \in pairs /\ e.base # Absent /\ e.curr # Absent
      /\ \E i \in DOMAIN path : e.key = <<"plain", path[i]>>
  BY DEF Walked
<1>4. PICK b, c : b = e.base /\ c = e.curr
  OBVIOUS
<1>5. b \in DOMAIN base.tasks /\ c \in DOMAIN curr.tasks /\ IsPlan(base) /\ IsPlan(curr)
  BY <1>1, <1>3, <1>4, EntryEnds DEF IsListed
<1>6. PICK i : IsPaired(base, curr, match, i, e)
  BY <1>1, <1>3, MatchedIs
<1>7. \E n \in DOMAIN path : path[n] = c
  <2>1. e = [key |-> <<"plain", IF c # Absent THEN c ELSE b>>, identity |-> i, base |-> b, curr |-> c]
    BY <1>4, <1>6 DEF IsPaired
  <2>2. e.key = <<"plain", IF c # Absent THEN c ELSE b>>
    BY <2>1
  <2>3. e.key = <<"plain", c>>
    BY <1>3, <1>4, <2>2
  <2>4. PICK n \in DOMAIN path : e.key = <<"plain", path[n]>>
    BY <1>3
  <2>5. e.key[2] = c /\ e.key[2] = path[n]
    BY <2>3, <2>4
  <2> QED BY <2>5
<1>8. x.act = c
  BY <1>2, <1>4, <1>5, ContributionIs
<1>9. PICK kinds : kinds = Kinds(old, new, e)
  OBVIOUS
<1>10. /\ "duration" \in kinds <=> base.tasks[b].dur # curr.tasks[c].dur
       /\ "constraint" \in kinds <=> base.tasks[b].floor # curr.tasks[c].floor
       /\ "relogicked" \in kinds <=> Signature(base, b) # Signature(curr, c)
  BY <1>1, <1>3, <1>4, <1>9, KindsAre
<1>11. ASSUME NoneTwice(base) \/ x.cause # "lag_growth" PROVE ShowsAs(x.cause) \in kinds
  <2>1. CASE x \in FromActivity(base, curr, e)
    <3>1. PICK cause \in {"duration_growth", "constraint_imposed"} :
            /\ x = [act |-> c, cause |-> cause, link |-> 0,
                    days |-> IF cause = "duration_growth"
                             THEN curr.tasks[c].dur - base.tasks[b].dur ELSE 0]
            /\ IF cause = "duration_growth" THEN curr.tasks[c].dur # base.tasks[b].dur
               ELSE curr.tasks[c].floor # base.tasks[b].floor
      BY <1>4, <2>1 DEF FromActivity
    <3>2. x.cause = cause
      BY <3>1
    <3> QED BY <1>10, <3>1, <3>2 DEF ShowsAs
  <2>2. CASE x \in FromLinks(base, curr, e, path)
    <3>1. PICK k \in Into(curr, c) :
             \/ /\ x.cause = "lag_growth"
                /\ \E lag \in BaseLag(base, b, curr.links[k]) : lag # curr.links[k].lag
             \/ x.cause = "logic_added" /\ BaseLag(base, b, curr.links[k]) = {}
      <4>1. CASE \E k \in Into(curr, c) :
                   /\ \E lag \in BaseLag(base, b, curr.links[k]) : lag # curr.links[k].lag
                   /\ x = [act |-> c, cause |-> "lag_growth", link |-> k,
                           days |-> curr.links[k].lag
                                      - (CHOOSE lag \in BaseLag(base, b, curr.links[k]) : TRUE)]
        <5>1. PICK k \in Into(curr, c) :
                   /\ \E lag \in BaseLag(base, b, curr.links[k]) : lag # curr.links[k].lag
                   /\ x = [act |-> c, cause |-> "lag_growth", link |-> k,
                           days |-> curr.links[k].lag
                                      - (CHOOSE lag \in BaseLag(base, b, curr.links[k]) : TRUE)]
          BY <4>1
        <5>2. x.cause = "lag_growth"
          BY <5>1
        <5> QED BY <5>1, <5>2
      <4>2. CASE \E k \in Into(curr, c) :
                   /\ BaseLag(base, b, curr.links[k]) = {}
                   /\ x = [act |-> c, cause |-> "logic_added", link |-> k, days |-> 0]
        <5>1. PICK k \in Into(curr, c) :
                   /\ BaseLag(base, b, curr.links[k]) = {}
                   /\ x = [act |-> c, cause |-> "logic_added", link |-> k, days |-> 0]
          BY <4>2
        <5>2. x.cause = "logic_added"
          BY <5>1
        <5> QED BY <5>1, <5>2
      <4> QED BY <1>4, <2>2, <4>1, <4>2 DEF FromLinks
    <3>2. PICK alike : alike = {m \in Into(base, b) : /\ base.links[m].pred = curr.links[k].pred
                                                      /\ base.links[m].type = curr.links[k].type}
      OBVIOUS
    <3>3. BaseLag(base, b, curr.links[k]) = IF alike = {} THEN {} ELSE {base.links[Max(alike)].lag}
      BY <3>2 DEF BaseLag
    <3>4. SUFFICES ASSUME Signature(base, b) = Signature(curr, c) PROVE FALSE
      BY <1>10, <3>1 DEF ShowsAs
    <3>5. Written(curr, k) \in DOMAIN Signature(base, b)
      BY <3>4, SignatureIs
    <3>6. PICK m \in Into(base, b) : Written(curr, k) = Written(base, m)
      BY <3>5, SignatureIs
    <3>7. m \in alike /\ base.links[m].lag = curr.links[k].lag
      BY <3>2, <3>6, WrittenAlike
    <3>8. x.cause = "lag_growth" /\ base.links[Max(alike)].lag # curr.links[k].lag
      BY <3>1, <3>3, <3>7
    <3>9. NoneTwice(base)
      BY <1>11, <3>8
    <3>10. \A n \in alike : n = m
      BY <1>5, <3>2, <3>7, <3>9, LinksApart DEF Into
    <3>11. Max(alike) = m
      <4>1. alike = {m} /\ m \in Int
        <5>1. m \in DOMAIN base.links
          BY DEF Into
        <5>2. PICK Y, s : s = base.links /\ s \in Seq(Y)
          BY <1>5 DEF IsPlan
        <5> QED BY <3>7, <3>10, <5>1, <5>2
      <4> QED BY <4>1, MaxKnown
    <3> QED BY <3>7, <3>8, <3>11
  <2> QED BY <1>2, <2>1, <2>2
<1>12. NoneTwice(old.plan) \/ x.cause # "lag_growth" =>
         \E d \in pairs : d.curr = x.act /\ ShowsAs(x.cause) \in Kinds(old, new, d)
  BY <1>1, <1>3, <1>4, <1>8, <1>9, <1>11
<1>13. \E n \in DOMAIN path : path[n] = x.act
  BY <1>7, <1>8
<1> QED BY <1>12, <1>13 DEF IsShown

\* What names tell of a plan is enough for its dates: under other names it finishes
\* no later.
LEMMA NamedFinishesBy ==
  ASSUME NEW p, NEW q, IsPlan(p), IsPlan(q), NEW g,
         \A c \in DOMAIN q.tasks :
           /\ g[c] \in DOMAIN p.tasks
           /\ p.tasks[g[c]].dur = q.tasks[c].dur /\ p.tasks[g[c]].floor = q.tasks[c].floor,
         \A k \in DOMAIN q.links : \E m \in DOMAIN p.links :
           /\ p.links[m].pred = g[q.links[k].pred] /\ p.links[m].succ = g[q.links[k].succ]
           /\ p.links[m].type = q.links[k].type /\ p.links[m].lag = q.links[k].lag
  PROVE  FinishDay(q) <= FinishDay(p)
<1>1. PICK early : early = EarlyStarts(p)
  OBVIOUS
<1>2. Meets(p, early)
  BY <1>1, EarlyStartsAre
<1>3. PICK h : h = [c \in DOMAIN q.tasks |-> early[g[c]]]
  OBVIOUS
<1>4. \A c \in DOMAIN q.tasks : h[c] = early[g[c]]
  BY <1>3
<1>5. Meets(q, h)
  <2>1. \A c \in DOMAIN q.tasks : h[c] \in Int /\ q.tasks[c].floor <= h[c]
    BY <1>2, <1>4 DEF Meets
  <2>2. ASSUME NEW k \in DOMAIN q.links
        PROVE  h[q.links[k].pred] + Off(q, k) <= h[q.links[k].succ]
    <3>1. PICK m \in DOMAIN p.links :
            /\ p.links[m].pred = g[q.links[k].pred] /\ p.links[m].succ = g[q.links[k].succ]
            /\ p.links[m].type = q.links[k].type /\ p.links[m].lag = q.links[k].lag
      OBVIOUS
    <3>2. q.links[k].pred \in DOMAIN q.tasks /\ q.links[k].succ \in DOMAIN q.tasks
      BY InPlan
    <3>3. /\ p.tasks[p.links[m].pred].dur = q.tasks[q.links[k].pred].dur
          /\ p.tasks[p.links[m].succ].dur = q.tasks[q.links[k].succ].dur
      BY <3>1, <3>2
    <3>4. Off(p, m) = Off(q, k)
      BY <3>1, <3>3 DEF Off, StartBound
    <3>5. early[p.links[m].pred] + Off(p, m) <= early[p.links[m].succ]
      BY <1>2 DEF Meets
    <3> QED BY <1>4, <3>1, <3>2, <3>4, <3>5
  <2> QED BY <2>1, <2>2 DEF Meets
<1>6. FinishDay(p) \in Int
  BY FinishIs
<1>7. ASSUME NEW c \in DOMAIN q.tasks PROVE h[c] + q.tasks[c].dur <= FinishDay(p)
  <2>1. early[g[c]] + p.tasks[g[c]].dur <= FinishDay(p)
    BY <1>1, FinishIs
  <2> QED BY <1>4, <2>1
<1> QED BY <1>5, <1>6, <1>7, FinishesBy

\* Work set side by side that is alike, with the links into it as they are written:
\* what is there under one id on both sides stands beside itself.
Alike(p, q, R) ==
  /\ \A c \in DOMAIN q.tasks : \E b \in DOMAIN p.tasks : <<b, c>> \in R
  /\ \A b \in DOMAIN p.tasks, c \in DOMAIN q.tasks : <<b, c>> \in R =>
       /\ p.tasks[b].dur = q.tasks[c].dur /\ p.tasks[b].floor = q.tasks[c].floor
       /\ Signature(p, b) = Signature(q, c)
       /\ c \in DOMAIN p.tasks => b = c

LEMMA AlikeFinishesBy ==
  ASSUME NEW p, NEW q, IsPlan(p), IsPlan(q), NEW R, Alike(p, q, R)
  PROVE  FinishDay(q) <= FinishDay(p)
<1>1. PICK g : g = [c \in DOMAIN q.tasks |-> CHOOSE b \in DOMAIN p.tasks : <<b, c>> \in R]
  OBVIOUS
<1>2. ASSUME NEW c \in DOMAIN q.tasks PROVE g[c] \in DOMAIN p.tasks /\ <<g[c], c>> \in R
  <2>1. \E b \in DOMAIN p.tasks : <<b, c>> \in R
    BY DEF Alike
  <2>2. g[c] = CHOOSE b \in DOMAIN p.tasks : <<b, c>> \in R
    BY <1>1
  <2> QED BY <2>1, <2>2
<1>3. \A c \in DOMAIN q.tasks :
        /\ g[c] \in DOMAIN p.tasks
        /\ p.tasks[g[c]].dur = q.tasks[c].dur /\ p.tasks[g[c]].floor = q.tasks[c].floor
        /\ Signature(p, g[c]) = Signature(q, c)
        /\ c \in DOMAIN p.tasks => g[c] = c
  <2>1. SUFFICES ASSUME NEW c \in DOMAIN q.tasks
                 PROVE  /\ g[c] \in DOMAIN p.tasks
                        /\ p.tasks[g[c]].dur = q.tasks[c].dur /\ p.tasks[g[c]].floor = q.tasks[c].floor
                        /\ Signature(p, g[c]) = Signature(q, c)
                        /\ c \in DOMAIN p.tasks => g[c] = c
    OBVIOUS
  <2>2. PICK b : b = g[c]
    OBVIOUS
  <2>3. b \in DOMAIN p.tasks /\ <<b, c>> \in R
    BY <1>2, <2>2
  <2>4. /\ p.tasks[b].dur = q.tasks[c].dur /\ p.tasks[b].floor = q.tasks[c].floor
        /\ Signature(p, b) = Signature(q, c)
        /\ c \in DOMAIN p.tasks => b = c
    BY <2>3 DEF Alike
  <2> QED BY <2>2, <2>3, <2>4
<1>4. ASSUME NEW k \in DOMAIN q.links
      PROVE  \E m \in DOMAIN p.links :
               /\ p.links[m].pred = g[q.links[k].pred] /\ p.links[m].succ = g[q.links[k].succ]
               /\ p.links[m].type = q.links[k].type /\ p.links[m].lag = q.links[k].lag
  <2>1. PICK c, a : /\ c = q.links[k].succ /\ c \in DOMAIN q.tasks
                    /\ a = q.links[k].pred /\ a \in DOMAIN q.tasks
    BY InPlan
  <2>2. k \in Into(q, c)
    BY <2>1 DEF Into
  <2>3. Written(q, k) \in DOMAIN Signature(p, g[c])
    <3>1. Written(q, k) \in DOMAIN Signature(q, c)
      BY <2>2, SignatureIs
    <3> QED BY <1>3, <2>1, <3>1
  <2>4. PICK m \in Into(p, g[c]) : Written(q, k) = Written(p, m)
    BY <2>3, SignatureIs
  <2>5. /\ m \in DOMAIN p.links /\ p.links[m].succ = g[c]
        /\ p.links[m].pred = a /\ p.links[m].type = q.links[k].type /\ p.links[m].lag = q.links[k].lag
    BY <2>1, <2>4, WrittenAlike DEF Into
  <2>6. a \in DOMAIN p.tasks
    BY <2>5, InPlan
  <2>7. g[a] = a
    BY <1>3, <2>1, <2>6
  <2> QED BY <2>1, <2>5, <2>7
<1> QED BY <1>3, <1>4, NamedFinishesBy

\* Without a difference the finish does not move.
LEMMA NoChangeNoMove ==
  ASSUME NEW old, NEW new, IsListed(old.plan), IsListed(new.plan), NEW match,
         NEW pairs, pairs = Pairs(old.plan, new.plan, match),
         \A r : ~Reused(old.plan, new.plan, match, r),
         \A e \in pairs :
           Kinds(old, new, e) \cap {"added", "removed", "duration", "constraint", "relogicked"} = {}
  PROVE  FinishDay(old.plan) = FinishDay(new.plan)
<1>1. PICK p, q : p = old.plan /\ q = new.plan
  OBVIOUS
<1>2. IsPlan(p) /\ IsPlan(q) /\ IsListed(p) /\ IsListed(q)
  BY <1>1 DEF IsListed
<1>3. ASSUME NEW e \in pairs
      PROVE  /\ e.base \in DOMAIN p.tasks /\ e.curr \in DOMAIN q.tasks
             /\ p.tasks[e.base].dur = q.tasks[e.curr].dur /\ p.tasks[e.base].floor = q.tasks[e.curr].floor
             /\ Signature(p, e.base) = Signature(q, e.curr)
             /\ e.curr \in DOMAIN p.tasks => e.base = e.curr
             /\ e.base \in DOMAIN q.tasks => e.base = e.curr
  <2>1. PICK kinds : kinds = Kinds(old, new, e)
    OBVIOUS
  <2>2. \A k \in {"added", "removed", "duration", "constraint", "relogicked"} : k \notin kinds
    BY <2>1
  <2>3. e.base # Absent /\ e.curr # Absent
    <3>1. /\ "added" \in kinds <=> e.base = Absent
          /\ "removed" \in kinds <=> e.curr = Absent
      BY <2>1, KindsAre
    <3> QED BY <2>2, <3>1
  <2>4. /\ p.tasks[e.base].dur = q.tasks[e.curr].dur
        /\ p.tasks[e.base].floor = q.tasks[e.curr].floor
        /\ Signature(p, e.base) = Signature(q, e.curr)
    <3>1. /\ "duration" \in kinds <=> old.plan.tasks[e.base].dur # new.plan.tasks[e.curr].dur
          /\ "constraint" \in kinds <=> old.plan.tasks[e.base].floor # new.plan.tasks[e.curr].floor
          /\ "relogicked" \in kinds <=> Signature(old.plan, e.base) # Signature(new.plan, e.curr)
      BY <2>1, <2>3, KindsAre
    <3> QED BY <1>1, <2>2, <3>1
  <2>5. PICK i : IsPaired(p, q, match, i, e)
    BY <1>1, <1>2, <2>3, MatchedIs
  <2>6. OnlyHolder(p, match, i, e.base) /\ OnlyHolder(q, match, i, e.curr)
    BY <2>5 DEF IsPaired
  <2>7. e.base \in DOMAIN p.tasks /\ e.curr \in DOMAIN q.tasks
    BY <2>3, <2>6 DEF OnlyHolder
  <2>8. \A r : r \in DOMAIN p.tasks /\ r \in DOMAIN q.tasks => Identity(p, match, r) = Identity(q, match, r)
    BY <1>1 DEF Reused
  <2>9. ASSUME e.curr \in DOMAIN p.tasks PROVE e.base = e.curr
    <3>1. Identity(q, match, e.curr) = i
      BY <2>6, <2>7 DEF OnlyHolder
    <3>2. Identity(p, match, e.curr) = i
      BY <2>7, <2>8, <2>9, <3>1
    <3> QED BY <2>6, <2>9, <3>2 DEF OnlyHolder
  <2>10. ASSUME e.base \in DOMAIN q.tasks PROVE e.base = e.curr
    <3>1. Identity(p, match, e.base) = i
      BY <2>6, <2>7 DEF OnlyHolder
    <3>2. Identity(q, match, e.base) = i
      BY <2>7, <2>8, <2>10, <3>1
    <3> QED BY <2>6, <2>10, <3>2 DEF OnlyHolder
  <2> QED BY <2>4, <2>7, <2>9, <2>10
<1>4. /\ \A a \in DOMAIN p.tasks : \E e \in pairs : e.base = a
      /\ \A a \in DOMAIN q.tasks : \E e \in pairs : e.curr = a
  BY <1>1, <1>2, EachIsListed
<1>5. PICK R, S : /\ R = {<<e.base, e.curr>> : e \in pairs}
                  /\ S = {<<e.curr, e.base>> : e \in pairs}
  OBVIOUS
<1>6. \A x, y : <<x, y>> \in R => \E e \in pairs : e.base = x /\ e.curr = y
  BY <1>5
<1>7. \A x, y : <<x, y>> \in S => \E e \in pairs : e.base = y /\ e.curr = x
  BY <1>5
<1>8. \A e \in pairs : <<e.base, e.curr>> \in R /\ <<e.curr, e.base>> \in S
  BY <1>5
<1>9. Alike(p, q, R)
  <2>1. \A c \in DOMAIN q.tasks : \E b \in DOMAIN p.tasks : <<b, c>> \in R
    BY <1>3, <1>4, <1>8
  <2>2. ASSUME NEW b \in DOMAIN p.tasks, NEW c \in DOMAIN q.tasks, <<b, c>> \in R
        PROVE  /\ p.tasks[b].dur = q.tasks[c].dur /\ p.tasks[b].floor = q.tasks[c].floor
               /\ Signature(p, b) = Signature(q, c)
               /\ c \in DOMAIN p.tasks => b = c
    BY <1>3, <1>6, <2>2
  <2> QED BY <2>1, <2>2 DEF Alike
<1>10. Alike(q, p, S)
  <2>1. \A c \in DOMAIN p.tasks : \E b \in DOMAIN q.tasks : <<b, c>> \in S
    BY <1>3, <1>4, <1>8
  <2>2. ASSUME NEW b \in DOMAIN q.tasks, NEW c \in DOMAIN p.tasks, <<b, c>> \in S
        PROVE  /\ q.tasks[b].dur = p.tasks[c].dur /\ q.tasks[b].floor = p.tasks[c].floor
               /\ Signature(q, b) = Signature(p, c)
               /\ c \in DOMAIN q.tasks => b = c
    BY <1>3, <1>7, <2>2
  <2> QED BY <2>1, <2>2 DEF Alike
<1>11. FinishDay(q) <= FinishDay(p) /\ FinishDay(p) <= FinishDay(q)
  BY <1>2, <1>9, <1>10, AlikeFinishesBy
<1>12. FinishDay(p) \in Int /\ FinishDay(q) \in Int
  BY <1>2, FinishIs
<1> QED BY <1>1, <1>11, <1>12

\* The one link between two activities is the one they are looked up by.
LEMMA LookedUp ==
  ASSUME NEW plan, IsPlan(plan), NoneTwice(plan), NEW k \in DOMAIN plan.links,
         NEW x, NEW a, plan.links[k].pred = x, plan.links[k].succ = a
  PROVE  LinkBetween(plan, <<x, a>>) = plan.links[k]
<1>1. PICK D : D = {m \in DOMAIN plan.links : <<plan.links[m].pred, plan.links[m].succ>> = <<x, a>>}
  OBVIOUS
<1>2. k \in Int
  <2>1. PICK Y, s : s = plan.links /\ s \in Seq(Y)
    BY DEF IsPlan
  <2> QED BY <2>1
<1>3. ASSUME NEW m \in D PROVE m = k
  <2>1. m \in DOMAIN plan.links /\ <<plan.links[m].pred, plan.links[m].succ>> = <<x, a>>
    BY <1>1
  <2>2. plan.links[m].pred = x /\ plan.links[m].succ = a
    BY <2>1
  <2> QED BY <2>1, <2>2, LinksApart
<1>4. k \in D
  BY <1>1
<1>5. D = {k}
  BY <1>3, <1>4
<1>6. Max(D) = k
  BY <1>2, <1>5, MaxKnown
<1> QED BY <1>1, <1>6 DEF LinkBetween

\* The ends of a link, and the link of a pair of ends.
LEMMA EndsAre ==
  ASSUME NEW plan
  PROVE  /\ \A k \in DOMAIN plan.links : <<plan.links[k].pred, plan.links[k].succ>> \in Ends(plan)
         /\ \A x, a : <<x, a>> \in Ends(plan) =>
              \E k \in DOMAIN plan.links : plan.links[k].pred = x /\ plan.links[k].succ = a
         /\ \A ends \in Ends(plan) : ends = <<ends[1], ends[2]>>
<1>1. \A ends \in Ends(plan) : \E k \in DOMAIN plan.links :
        ends = <<plan.links[k].pred, plan.links[k].succ>>
  BY DEF Ends
<1>2. \A k \in DOMAIN plan.links : <<plan.links[k].pred, plan.links[k].succ>> \in Ends(plan)
  BY DEF Ends
<1>3. ASSUME NEW x, NEW a, <<x, a>> \in Ends(plan)
      PROVE  \E k \in DOMAIN plan.links : plan.links[k].pred = x /\ plan.links[k].succ = a
  BY <1>1, <1>3
<1>4. ASSUME NEW ends \in Ends(plan) PROVE ends = <<ends[1], ends[2]>>
  BY <1>1
<1> QED BY <1>2, <1>3, <1>4

\* Where no two links join one pair, a signature is what is written in it.
LEMMA SameSignature ==
  ASSUME NEW p, NEW q, IsPlan(p), IsPlan(q), NoneTwice(p), NoneTwice(q), NEW a,
         \A k \in Into(p, a) : \E m \in Into(q, a) : Written(p, k) = Written(q, m),
         \A k \in Into(q, a) : \E m \in Into(p, a) : Written(q, k) = Written(p, m)
  PROVE  Signature(p, a) = Signature(q, a)
<1>1. ASSUME NEW plan, IsPlan(plan), NoneTwice(plan), NEW s, NEW k \in Into(plan, a), s = Written(plan, k)
      PROVE  Cardinality({m \in Into(plan, a) : Written(plan, m) = s}) = 1
  <2>1. PICK X : X = {m \in Into(plan, a) : Written(plan, m) = s}
    OBVIOUS
  <2>2. ASSUME NEW m \in X PROVE m = k
    <3>1. m \in Into(plan, a) /\ Written(plan, m) = Written(plan, k)
      BY <1>1, <2>1
    <3>2. plan.links[m].pred = plan.links[k].pred
      BY <3>1, WrittenAlike
    <3> QED BY <1>1, <3>1, <3>2, LinksApart DEF Into
  <2>3. X = {k}
    BY <1>1, <2>1, <2>2
  <2> QED BY <2>1, <2>3, FS_Singleton
<1>2. PICK S, T : S = DOMAIN Signature(p, a) /\ T = DOMAIN Signature(q, a)
  OBVIOUS
<1>3. S = T
  <2>1. \A s : s \in S => s \in T
    BY <1>2, SignatureIs
  <2>2. \A s : s \in T => s \in S
    BY <1>2, SignatureIs
  <2> QED BY <2>1, <2>2
<1>4. Signature(p, a) = [s \in S |-> 1]
  <2>1. PICK n : n = [s \in S |-> Cardinality({k \in Into(p, a) : Written(p, k) = s})]
    OBVIOUS
  <2>2. Signature(p, a) = n
    BY <1>2, <2>1, SignatureIs
  <2>3. ASSUME NEW s \in S PROVE n[s] = 1
    <3>1. PICK k \in Into(p, a) : s = Written(p, k)
      BY <1>2, SignatureIs
    <3>2. Cardinality({m \in Into(p, a) : Written(p, m) = s}) = 1
      BY <1>1, <3>1
    <3> QED BY <2>1, <3>2
  <2>4. n = [s \in S |-> n[s]]
    BY <2>1
  <2> QED BY <2>2, <2>3, <2>4
<1>5. Signature(q, a) = [s \in S |-> 1]
  <2>1. PICK n : n = [s \in T |-> Cardinality({k \in Into(q, a) : Written(q, k) = s})]
    OBVIOUS
  <2>2. Signature(q, a) = n
    BY <1>2, <2>1, SignatureIs
  <2>3. ASSUME NEW s \in T PROVE n[s] = 1
    <3>1. PICK k \in Into(q, a) : s = Written(q, k)
      BY <1>2, SignatureIs
    <3>2. Cardinality({m \in Into(q, a) : Written(q, m) = s}) = 1
      BY <1>1, <3>1
    <3> QED BY <2>1, <3>2
  <2>4. n = [s \in T |-> n[s]]
    BY <2>1
  <2> QED BY <1>3, <2>2, <2>3, <2>4
<1> QED BY <1>4, <1>5

\* The links listed are those into activities whose logic changed.
LEMMA LogicIsListed ==
  ASSUME NEW p, NEW q, IsPlan(p), IsPlan(q), NoneTwice(p), NoneTwice(q), NEW a
  PROVE  Signature(p, a) # Signature(q, a) <=> \E l \in LinkDeltas(p, q) : l[1][2] = a
<1>1. ASSUME Signature(p, a) = Signature(q, a), NEW l \in LinkDeltas(p, q), l[1][2] = a PROVE FALSE
  <2>1. \A k \in Into(p, a) : \E m \in Into(q, a) : Written(p, k) = Written(q, m)
    BY <1>1, SignatureIs
  <2>2. \A k \in Into(q, a) : \E m \in Into(p, a) : Written(q, k) = Written(p, m)
    BY <1>1, SignatureIs
  <2>3. PICK ends, what : ends = l[1] /\ what = l[2]
    OBVIOUS
  <2>4. \/ ends \in Ends(q) /\ ends \notin Ends(p)
        \/ ends \in Ends(p) /\ ends \notin Ends(q)
        \/ /\ ends \in Ends(p) /\ ends \in Ends(q) /\ what \in {"type", "lag"}
           /\ LinkBetween(p, ends)[what] # LinkBetween(q, ends)[what]
    <3>1. CASE \E x \in Ends(q) \ Ends(p) : l = <<x, "added">>
      BY <2>3, <3>1
    <3>2. CASE \E x \in Ends(p) \ Ends(q) : l = <<x, "removed">>
      BY <2>3, <3>2
    <3>3. CASE /\ l \in (Ends(p) \cap Ends(q)) \X {"type", "lag"}
               /\ LinkBetween(p, l[1])[l[2]] # LinkBetween(q, l[1])[l[2]]
      BY <2>3, <3>3
    <3> QED BY <3>1, <3>2, <3>3 DEF LinkDeltas
  <2>5. PICK x : ends = <<x, a>>
    BY <1>1, <2>3, <2>4, EndsAre
  <2>6. CASE ends \in Ends(q) /\ ends \notin Ends(p)
    <3>1. PICK k \in DOMAIN q.links : q.links[k].pred = x /\ q.links[k].succ = a
      BY <2>5, <2>6, EndsAre
    <3>2. k \in Into(q, a)
      BY <3>1 DEF Into
    <3>3. PICK m \in Into(p, a) : Written(q, k) = Written(p, m)
      BY <2>2, <3>2
    <3>4. m \in DOMAIN p.links /\ p.links[m].pred = x /\ p.links[m].succ = a
      BY <3>1, <3>3, WrittenAlike DEF Into
    <3> QED BY <2>5, <2>6, <3>4, EndsAre
  <2>7. CASE ends \in Ends(p) /\ ends \notin Ends(q)
    <3>1. PICK k \in DOMAIN p.links : p.links[k].pred = x /\ p.links[k].succ = a
      BY <2>5, <2>7, EndsAre
    <3>2. k \in Into(p, a)
      BY <3>1 DEF Into
    <3>3. PICK m \in Into(q, a) : Written(p, k) = Written(q, m)
      BY <2>1, <3>2
    <3>4. m \in DOMAIN q.links /\ q.links[m].pred = x /\ q.links[m].succ = a
      BY <3>1, <3>3, WrittenAlike DEF Into
    <3> QED BY <2>5, <2>7, <3>4, EndsAre
  <2>8. CASE /\ ends \in Ends(p) /\ ends \in Ends(q) /\ what \in {"type", "lag"}
             /\ LinkBetween(p, ends)[what] # LinkBetween(q, ends)[what]
    <3>1. PICK k \in DOMAIN q.links : q.links[k].pred = x /\ q.links[k].succ = a
      BY <2>5, <2>8, EndsAre
    <3>2. k \in Into(q, a)
      BY <3>1 DEF Into
    <3>3. PICK m \in Into(p, a) : Written(q, k) = Written(p, m)
      BY <2>2, <3>2
    <3>4. /\ m \in DOMAIN p.links /\ p.links[m].pred = x /\ p.links[m].succ = a
          /\ p.links[m].type = q.links[k].type /\ p.links[m].lag = q.links[k].lag
      BY <3>1, <3>3, WrittenAlike DEF Into
    <3>5. LinkBetween(p, ends) = p.links[m] /\ LinkBetween(q, ends) = q.links[k]
      BY <2>5, <3>1, <3>4, LookedUp
    <3> QED BY <2>8, <3>4, <3>5
  <2> QED BY <2>4, <2>6, <2>7, <2>8
<1>2. ASSUME ~\E l \in LinkDeltas(p, q) : l[1][2] = a PROVE Signature(p, a) = Signature(q, a)
  <2>1. ASSUME NEW x PROVE <<x, a>> \in Ends(p) <=> <<x, a>> \in Ends(q)
    <3>1. PICK ends : ends = <<x, a>>
      OBVIOUS
    <3>2. ASSUME ends \in Ends(q), ends \notin Ends(p) PROVE FALSE
      <4>1. <<ends, "added">> \in LinkDeltas(p, q)
        BY <3>2 DEF LinkDeltas
      <4>2. <<ends, "added">>[1][2] = a
        BY <3>1
      <4> QED BY <1>2, <4>1, <4>2
    <3>3. ASSUME ends \in Ends(p), ends \notin Ends(q) PROVE FALSE
      <4>1. <<ends, "removed">> \in LinkDeltas(p, q)
        BY <3>3 DEF LinkDeltas
      <4>2. <<ends, "removed">>[1][2] = a
        BY <3>1
      <4> QED BY <1>2, <4>1, <4>2
    <3> QED BY <3>1, <3>2, <3>3
  <2>2. ASSUME NEW k \in Into(p, a), NEW m \in Into(q, a), p.links[k].pred = q.links[m].pred
        PROVE  Written(p, k) = Written(q, m)
    <3>1. PICK x : x = p.links[k].pred
      OBVIOUS
    <3>2. /\ k \in DOMAIN p.links /\ p.links[k].succ = a
          /\ m \in DOMAIN q.links /\ q.links[m].succ = a
      BY DEF Into
    <3>3. PICK ends : ends = <<x, a>>
      OBVIOUS
    <3>4. ends \in Ends(p) /\ ends \in Ends(q)
      BY <2>2, <3>1, <3>2, <3>3, EndsAre
    <3>5. LinkBetween(p, ends) = p.links[k] /\ LinkBetween(q, ends) = q.links[m]
      BY <2>2, <3>1, <3>2, <3>3, LookedUp
    <3>6. ASSUME NEW what \in {"type", "lag"} PROVE p.links[k][what] = q.links[m][what]
      <4>1. SUFFICES ASSUME p.links[k][what] # q.links[m][what] PROVE FALSE
        OBVIOUS
      <4>2. PICK d : d = <<ends, what>>
        OBVIOUS
      <4>3. d \in (Ends(p) \cap Ends(q)) \X {"type", "lag"} /\ d[1] = ends /\ d[2] = what
        BY <3>4, <4>2
      <4>4. LinkBetween(p, d[1])[d[2]] # LinkBetween(q, d[1])[d[2]]
        BY <3>5, <4>1, <4>3
      <4>5. d \in LinkDeltas(p, q)
        BY <4>3, <4>4 DEF LinkDeltas
      <4>6. d[1][2] = a
        BY <3>3, <4>3
      <4> QED BY <1>2, <4>5, <4>6
    <3>7. p.links[k].type = q.links[m].type /\ p.links[k].lag = q.links[m].lag
      BY <3>6
    <3> QED BY <2>2, <3>7 DEF Written
  <2>3. ASSUME NEW k \in Into(p, a) PROVE \E m \in Into(q, a) : Written(p, k) = Written(q, m)
    <3>1. PICK x : x = p.links[k].pred
      OBVIOUS
    <3>2. k \in DOMAIN p.links /\ p.links[k].succ = a
      BY DEF Into
    <3>3. <<x, a>> \in Ends(q)
      BY <2>1, <3>1, <3>2, EndsAre
    <3>4. PICK m \in DOMAIN q.links : q.links[m].pred = x /\ q.links[m].succ = a
      BY <3>3, EndsAre
    <3>5. m \in Into(q, a)
      BY <3>4 DEF Into
    <3> QED BY <2>2, <3>1, <3>4, <3>5
  <2>4. ASSUME NEW k \in Into(q, a) PROVE \E m \in Into(p, a) : Written(q, k) = Written(p, m)
    <3>1. PICK x : x = q.links[k].pred
      OBVIOUS
    <3>2. k \in DOMAIN q.links /\ q.links[k].succ = a
      BY DEF Into
    <3>3. <<x, a>> \in Ends(p)
      BY <2>1, <3>1, <3>2, EndsAre
    <3>4. PICK m \in DOMAIN p.links : p.links[m].pred = x /\ p.links[m].succ = a
      BY <3>3, EndsAre
    <3>5. m \in Into(p, a)
      BY <3>4 DEF Into
    <3> QED BY <2>2, <3>1, <3>4, <3>5
  <2> QED BY <2>3, <2>4, SameSignature
<1> QED BY <1>1, <1>2

\* A baseline replayed is a plan.
LEMMA ReplayedIsListed ==
  ASSUME NEW plan, IsListed(plan), NEW rows, IsFiniteSet(DOMAIN rows), DOMAIN rows # {},
         rows \in [DOMAIN rows -> Nat], DOMAIN rows \subseteq Nat \ {Absent}
  PROVE  IsListed(Replayed(rows, plan))
<1>1. PICK D, tasks, links : /\ D = DOMAIN rows /\ links = LinksAmong(plan, DOMAIN rows)
                             /\ tasks = [a \in DOMAIN rows |-> [dur |-> rows[a], floor |-> 0, code |-> 0]]
  OBVIOUS
<1>2. PICK left : left = [tasks |-> tasks, links |-> links]
  OBVIOUS
<1>3. left = Replayed(rows, plan) /\ left.tasks = tasks /\ left.links = links
  BY <1>1, <1>2 DEF Replayed
<1>4. /\ IsPlan(plan) /\ plan.links \in LinkLists(DOMAIN plan.tasks) /\ NoRing(plan)
  BY DEF IsListed, IsPlan, LinkLists
<1>5. /\ links \in LinkLists(D)
      /\ \A m \in DOMAIN links : \E k \in DOMAIN plan.links : links[m] = plan.links[k]
  <2>1. plan.links \in LinkLists(DOMAIN plan.tasks) /\ links = LinksAmong(plan, D)
    BY <1>1, <1>4
  <2>2. ThoseAmong(plan, D, links)
    BY ONLY <2>1, LinksAmongAre
  <2> QED BY <2>2 DEF ThoseAmong
<1>6. tasks \in [D -> [dur : Nat, floor : Nat, code : Nat]] /\ DOMAIN tasks = D
  BY <1>1
<1>7. NoRing(left)
  <2>1. SUFFICES ASSUME NEW some \in SUBSET D, some # {}
                 PROVE  \E a \in some : \A k \in Into(left, a) : left.links[k].pred \notin some
    BY <1>3, <1>6 DEF NoRing
  <2>2. ASSUME NEW a, NEW k \in Into(left, a)
        PROVE  \E m \in Into(plan, a) : left.links[k] = plan.links[m] /\ plan.links[m].pred \in DOMAIN plan.tasks
    <3>1. k \in DOMAIN links /\ links[k].succ = a
      BY <1>3 DEF Into
    <3>2. PICK m \in DOMAIN plan.links : links[k] = plan.links[m]
      BY <1>5, <3>1
    <3>3. m \in Into(plan, a)
      BY <3>1, <3>2 DEF Into
    <3>4. plan.links[m].pred \in DOMAIN plan.tasks
      BY <1>4, InPlan
    <3> QED BY <1>3, <3>2, <3>3, <3>4
  <2>3. PICK both : both = some \cap DOMAIN plan.tasks
    OBVIOUS
  <2>4. CASE both = {}
    <3>1. PICK a \in some : TRUE
      BY <2>1
    <3>2. \A k \in Into(left, a) : left.links[k].pred \notin some
      BY <2>2, <2>3, <2>4
    <3> QED BY <3>2
  <2>5. CASE both # {}
    <3>1. both \in SUBSET DOMAIN plan.tasks
      BY <2>3
    <3>2. PICK a \in both : \A k \in Into(plan, a) : plan.links[k].pred \notin both
      BY <1>4, <2>5, <3>1 DEF NoRing
    <3>3. \A k \in Into(left, a) : left.links[k].pred \notin some
      BY <2>2, <2>3, <3>2
    <3> QED BY <2>3, <3>3
  <2> QED BY <2>4, <2>5
<1>8. IsFiniteSet(D) /\ D # {}
  BY <1>1
<1>9. IsPlan(left)
  <2>1. left = [tasks |-> left.tasks, links |-> left.links]
    BY <1>2, <1>3
  <2> QED BY <1>3, <1>5, <1>6, <1>7, <1>8, <2>1 DEF IsPlan, LinkLists
<1>10. DOMAIN left.tasks \subseteq Nat \ {Absent}
  BY <1>1, <1>3, <1>6
<1> QED BY <1>3, <1>9, <1>10 DEF IsListed

\* What a comparison answers, from the two plans it is about.
AnswersFrom(r, p, q, match, old, new, was, path) ==
  /\ old.plan = p /\ new.plan = q /\ old.end = FinishDay(p) /\ new.end = FinishDay(q)
  /\ r.deltas = Deltas(old, new, Pairs(p, q, match)) /\ r.links = LinkDeltas(p, q)
  /\ r.move = new.end - old.end /\ r.newPath = path
  /\ r.attribution = Attribution(old, new, Pairs(p, q, match), was, path)

LEMMA ComparedIs ==
  ASSUME NEW p, NEW q, NEW match, NEW was, NEW path,
         NEW r, r = Compared(Scheduled(p), Scheduled(q), match, was, path)
  PROVE  \E old, new : AnswersFrom(r, p, q, match, old, new, was, path)
<1>1. PICK old, new : old = Scheduled(p) /\ new = Scheduled(q)
  OBVIOUS
<1>2. old.plan = p /\ new.plan = q /\ old.end = FinishDay(p) /\ new.end = FinishDay(q)
  BY <1>1 DEF Scheduled, FinishDay
<1>3. PICK pairs : pairs = Pairs(p, q, match)
  OBVIOUS
<1>4. r = [deltas |-> Deltas(old, new, pairs), links |-> LinkDeltas(p, q),
           move |-> new.end - old.end, attribution |-> Attribution(old, new, pairs, was, path),
           oldPath |-> was, newPath |-> path]
  BY <1>1, <1>2, <1>3 DEF Compared
<1>5. /\ r.deltas = Deltas(old, new, pairs) /\ r.links = LinkDeltas(p, q)
      /\ r.move = new.end - old.end /\ r.newPath = path
      /\ r.attribution = Attribution(old, new, pairs, was, path)
  BY <1>4
<1> QED BY <1>2, <1>3, <1>5 DEF AnswersFrom

LEMMA AnswerIs ==
  ASSUME StudyInv, Compares
  PROVE  /\ IsListed(OldPlan) /\ IsListed(NewPlan)
         /\ \E old, new, was, path :
              AnswersFrom(answer.result, OldPlan, NewPlan, MatchBy, old, new, was, path)
<1>1. CASE Answered("comparison")
  <2>1. request.study = "comparison"
    BY <1>1 DEF Answered
  <2>2. OldPlan = request.old /\ NewPlan = request.new /\ MatchBy = request.match
    BY <2>1 DEF OldPlan, NewPlan, MatchBy
  <2>3. IsListed(request.old) /\ IsListed(request.new)
    <3>1. IsRequest(request)
      BY <2>1, AskedIsRequest
    <3> QED BY <2>1, <3>1 DEF IsRequest
  <2>4. \E was, path : answer.result = Compared(Scheduled(request.old), Scheduled(request.new),
                                                request.match, was, path)
    BY <1>1 DEF StudyInv, ComparedAsAsked
  <2> QED BY <2>2, <2>3, <2>4, ComparedIs
<1>2. CASE Answered("baseline")
  <2>1. request.study = "baseline"
    BY <1>2 DEF Answered
  <2>2. OldPlan = Replayed(request.rows, request.plan) /\ NewPlan = request.plan /\ MatchBy = "id"
    BY <2>1 DEF OldPlan, NewPlan, MatchBy
  <2>3. /\ IsListed(request.plan) /\ IsFiniteSet(DOMAIN request.rows)
        /\ request.rows \in [DOMAIN request.rows -> Nat] /\ DOMAIN request.rows \subseteq Nat \ {Absent}
    <3>1. IsRequest(request)
      BY <2>1, AskedIsRequest
    <3> QED BY <2>1, <3>1 DEF IsRequest
  <2>4. /\ DOMAIN request.rows # {}
        /\ \E was, path : answer.result = Compared(Scheduled(Replayed(request.rows, request.plan)),
                                                   Scheduled(request.plan), "id", was, path)
    BY <1>2 DEF StudyInv, ComparedAsAsked
  <2>5. IsListed(Replayed(request.rows, request.plan))
    BY <2>3, <2>4, ReplayedIsListed
  <2> QED BY <2>2, <2>3, <2>4, <2>5, ComparedIs
<1> QED BY <1>1, <1>2 DEF Compares

\* The differences that show an activity of the baseline, and of the current plan.
ShownOld(deltas, a) == {d \in deltas : d.of.base = a}
ShownNew(deltas, a) == {d \in deltas : d.of.curr = a}

\* One entry of an activity is one difference of it.
LEMMA OneDelta ==
  ASSUME NEW p, NEW q, IsListed(p), IsListed(q), NEW match, NEW old, NEW new,
         NEW pairs, pairs = Pairs(p, q, match), NEW deltas, deltas = Deltas(old, new, pairs)
  PROVE  /\ \A a : (\E e \in pairs : e.base = a) /\ a # Absent =>
              Cardinality(ShownOld(deltas, a)) = 1
         /\ \A a : (\E e \in pairs : e.curr = a) /\ a # Absent =>
              Cardinality(ShownNew(deltas, a)) = 1
<1>1. /\ \A d \in deltas : \E e \in pairs : d = [of |-> e, kinds |-> Kinds(old, new, e)]
      /\ \A e \in pairs : [of |-> e, kinds |-> Kinds(old, new, e)] \in deltas
  BY DEF Deltas
<1>2. ASSUME NEW d \in deltas PROVE d.of \in pairs /\ d = [of |-> d.of, kinds |-> Kinds(old, new, d.of)]
  <2>1. PICK e \in pairs : d = [of |-> e, kinds |-> Kinds(old, new, e)]
    BY <1>1
  <2>2. d.of = e
    BY <2>1
  <2> QED BY <2>1, <2>2
<1>3. ASSUME NEW a, a # Absent, NEW e \in pairs, e.base = a
      PROVE  Cardinality(ShownOld(deltas, a)) = 1
  <2>1. PICK x, X : x = [of |-> e, kinds |-> Kinds(old, new, e)] /\ X = ShownOld(deltas, a)
    OBVIOUS
  <2>2. x \in deltas /\ x.of = e
    BY <1>1, <2>1
  <2>3. x \in X
    BY <1>3, <2>1, <2>2 DEF ShownOld
  <2>4. ASSUME NEW d \in X PROVE d = x
    <3>1. d \in deltas /\ d.of.base = a
      BY <2>1 DEF ShownOld
    <3>2. d.of \in pairs /\ d = [of |-> d.of, kinds |-> Kinds(old, new, d.of)]
      BY <1>2, <3>1
    <3>3. d.of = e
      BY <1>3, <3>1, <3>2, OneEntryEach
    <3> QED BY <2>1, <3>2, <3>3
  <2>5. X = {x}
    BY <2>3, <2>4
  <2> QED BY <2>1, <2>5, FS_Singleton
<1>4. ASSUME NEW a, a # Absent, NEW e \in pairs, e.curr = a
      PROVE  Cardinality(ShownNew(deltas, a)) = 1
  <2>1. PICK x, X : x = [of |-> e, kinds |-> Kinds(old, new, e)] /\ X = ShownNew(deltas, a)
    OBVIOUS
  <2>2. x \in deltas /\ x.of = e
    BY <1>1, <2>1
  <2>3. x \in X
    BY <1>4, <2>1, <2>2 DEF ShownNew
  <2>4. ASSUME NEW d \in X PROVE d = x
    <3>1. d \in deltas /\ d.of.curr = a
      BY <2>1 DEF ShownNew
    <3>2. d.of \in pairs /\ d = [of |-> d.of, kinds |-> Kinds(old, new, d.of)]
      BY <1>2, <3>1
    <3>3. d.of = e
      BY <1>4, <3>1, <3>2, OneEntryEach
    <3> QED BY <2>1, <3>2, <3>3
  <2>5. X = {x}
    BY <2>3, <2>4
  <2> QED BY <2>1, <2>5, FS_Singleton
<1> QED BY <1>3, <1>4

\* Matched by id, what is on both sides is matched with itself.
LEMMA MatchedWithItself ==
  ASSUME NEW p, NEW q, IsListed(p), IsListed(q), NEW a \in DOMAIN p.tasks, a \in DOMAIN q.tasks
  PROVE  \E e \in Pairs(p, q, "id") : e.base = a /\ e.curr = a
<1>1. \A plan, x : Identity(plan, "id", x) = x
  BY DEF Identity
<1>2. ~Reused(p, q, "id", a)
  BY <1>1 DEF Reused
<1>3. PICK e \in Pairs(p, q, "id") : e.curr = a
  BY <1>2, EachIsListed
<1>4. PICK i \in Identities(p, "id") \cup Identities(q, "id") : e \in EntriesOf(p, q, "id", i)
  BY DEF Pairs
<1>5. \/ ~IsAmbiguous(p, q, "id", i) /\ IsPaired(p, q, "id", i, e)
      \/ IsAmbiguous(p, q, "id", i) /\ IsUnpaired(p, q, "id", i, e)
  BY <1>4, EntryIs
<1>6. CASE IsPaired(p, q, "id", i, e)
  <2>1. OnlyHolder(p, "id", i, e.base) /\ OnlyHolder(q, "id", i, e.curr)
    BY <1>6 DEF IsPaired
  <2>2. i = a
    BY <1>1, <1>3, <2>1 DEF OnlyHolder
  <2>3. e.base = a
    BY <1>1, <2>1, <2>2 DEF OnlyHolder
  <2> QED BY <1>3, <2>3
<1>7. CASE IsAmbiguous(p, q, "id", i)
  <2>1. ASSUME NEW plan PROVE Cardinality(Holders(plan, "id", i)) \in {0, 1}
    <3>1. Holders(plan, "id", i) = {} \/ Holders(plan, "id", i) = {i}
      BY <1>1 DEF Holders
    <3> QED BY <3>1, FS_EmptySet, FS_Singleton
  <2>2. ~(Cardinality(Holders(p, "id", i)) > 1) /\ ~(Cardinality(Holders(q, "id", i)) > 1)
    BY <2>1
  <2> QED BY <1>7, <2>2 DEF IsAmbiguous
<1> QED BY <1>5, <1>6, <1>7

\* Nothing is lost in a comparison (compare.py:236-425).
THEOREM ComparisonsAreComplete ==
  StudiesSpec => []ComparisonIsComplete
<1>1. ASSUME StudyInv, Compares
      PROVE  /\ EverythingListed /\ DaysAccountedFor /\ CausesAreShown
             /\ NoMoveWithoutChange /\ LinksAgree
  <2>1. PICK p, q, match : p = OldPlan /\ q = NewPlan /\ match = MatchBy
    OBVIOUS
  <2>2. IsListed(p) /\ IsListed(q) /\ IsPlan(p) /\ IsPlan(q)
    BY <1>1, <2>1, AnswerIs DEF IsListed
  <2>3. PICK old, new, was, path : AnswersFrom(answer.result, p, q, match, old, new, was, path)
    BY <1>1, <2>1, AnswerIs
  <2>4. PICK pairs, deltas, attr : /\ pairs = Pairs(p, q, match) /\ deltas = answer.result.deltas
                                   /\ attr = answer.result.attribution
    OBVIOUS
  <2>5. /\ old.plan = p /\ new.plan = q /\ old.end = FinishDay(p) /\ new.end = FinishDay(q)
        /\ deltas = Deltas(old, new, pairs) /\ answer.result.links = LinkDeltas(p, q)
        /\ answer.result.move = new.end - old.end /\ answer.result.newPath = path
        /\ attr = Attribution(old, new, pairs, was, path)
    BY <2>3, <2>4 DEF AnswersFrom
  <2>6. /\ \A a : DeltasOf("old", a) = ShownOld(deltas, a)
        /\ \A a : DeltasOf("new", a) = ShownNew(deltas, a)
        /\ \A a, d : d \in DeltasOf("new", a) <=> d \in deltas /\ d.of.curr = a
    <3>1. \A a : DeltasOf("old", a) = ShownOld(deltas, a)
      BY <2>4 DEF DeltasOf, ShownOld
    <3>2. \A a : DeltasOf("new", a) = ShownNew(deltas, a)
      BY <2>4 DEF DeltasOf, ShownNew
    <3>3. \A a, d : d \in ShownNew(deltas, a) <=> d \in deltas /\ d.of.curr = a
      BY DEF ShownNew
    <3> QED BY <3>1, <3>2, <3>3
  <2>7. \A r : r \in Reissued <=> Reused(p, q, match, r)
    BY <2>1 DEF Reissued, Reused
  <2>8. /\ \A d \in deltas : \E e \in pairs : d = [of |-> e, kinds |-> Kinds(old, new, e)]
        /\ \A e \in pairs : [of |-> e, kinds |-> Kinds(old, new, e)] \in deltas
    BY <2>5 DEF Deltas
  <2>9. ASSUME NEW e \in pairs
        PROVE  \E d \in deltas : d.of = e /\ d.kinds = Kinds(old, new, e)
    <3>1. PICK d : d = [of |-> e, kinds |-> Kinds(old, new, e)]
      OBVIOUS
    <3>2. d.of = e /\ d.kinds = Kinds(old, new, e)
      BY <3>1
    <3> QED BY <2>8, <3>1, <3>2
  <2>10. ASSUME NEW d \in deltas PROVE d.of \in pairs /\ d.kinds = Kinds(old, new, d.of)
    <3>1. PICK e \in pairs : d = [of |-> e, kinds |-> Kinds(old, new, e)]
      BY <2>8
    <3>2. d.of = e /\ d.kinds = Kinds(old, new, e)
      BY <3>1
    <3> QED BY <3>2
  <2>11. EverythingListed
    <3>1. /\ \A a : (\E e \in pairs : e.base = a) /\ a # Absent => Cardinality(DeltasOf("old", a)) = 1
          /\ \A a : (\E e \in pairs : e.curr = a) /\ a # Absent => Cardinality(DeltasOf("new", a)) = 1
      <4>1. /\ \A a : (\E e \in pairs : e.base = a) /\ a # Absent =>
                 Cardinality(ShownOld(deltas, a)) = 1
            /\ \A a : (\E e \in pairs : e.curr = a) /\ a # Absent =>
                 Cardinality(ShownNew(deltas, a)) = 1
        BY <2>2, <2>4, <2>5, OneDelta
      <4> QED BY <2>6, <4>1
    <3>2. ASSUME NEW a \in DOMAIN p.tasks PROVE UnderReissued(a) \/ Cardinality(DeltasOf("old", a)) = 1
      <4>1. a # Absent
        BY <2>2, IdentityIs
      <4>2. \/ \E e \in pairs : e.base = a
            \/ \E r : /\ Reused(p, q, match, r)
                      /\ a = r \/ Identity(p, match, a) = Identity(q, match, r)
        BY <2>2, <2>4, EachIsListed
      <4>3. CASE \E e \in pairs : e.base = a
        BY <3>1, <4>1, <4>3
      <4>4. CASE \E r : /\ Reused(p, q, match, r)
                        /\ a = r \/ Identity(p, match, a) = Identity(q, match, r)
        BY <2>1, <2>7, <4>4 DEF UnderReissued
      <4> QED BY <4>2, <4>3, <4>4
    <3>3. ASSUME NEW a \in DOMAIN q.tasks PROVE a \in Reissued \/ Cardinality(DeltasOf("new", a)) = 1
      <4>1. a # Absent
        BY <2>2, IdentityIs
      <4>2. (\E e \in pairs : e.curr = a) \/ Reused(p, q, match, a)
        BY <2>2, <2>4, EachIsListed
      <4> QED BY <2>7, <3>1, <4>1, <4>2
    <3> QED BY <2>1, <3>2, <3>3 DEF EverythingListed
  <2>12. PICK found : found = FoundOn(p, q, pairs, path)
    OBVIOUS
  <2>13. PutDown(attr, found, FinishDay(q) - FinishDay(p))
    <3>1. old.end \in Int /\ new.end \in Int
      BY <2>2, <2>5, FinishIs
    <3>2. PutDown(attr, found, new.end - old.end)
      BY <2>2, <2>4, <2>5, <2>12, <3>1, AttributionAddsUp
    <3> QED BY <2>5, <3>2
  <2>14. DOMAIN CauseShowsAs = Causes /\ \A c \in Causes : CauseShowsAs[c] = ShowsAs(c)
    BY DEF CauseShowsAs, Causes, ShowsAs
  <2>15. \A x \in found : x.cause \in Causes
    BY <2>2, <2>4, <2>12, FoundIs
  <2>16. \A x \in attr : x \in Charged <=> x \in found
    <3>1. \A x \in attr : x \in found \/ x.cause \in {"path_switch", "unexplained"}
      BY <2>13 DEF PutDown
    <3>2. \A x : x \in Charged <=> x \in attr /\ x.cause \in Causes
      BY <2>4, <2>14 DEF Charged
    <3> QED BY <2>15, <3>1, <3>2 DEF Causes
  <2>17. DaysAccountedFor
    <3>1. DaysIn(attr) = FinishDay(q) - FinishDay(p) /\ attr # {}
      BY <2>13 DEF PutDown
    <3>2. Cardinality(attr \ Charged) <= 1
      <4>1. PICK X : X = attr \ Charged
        OBVIOUS
      <4>2. \A x, y \in X : x = y
        BY <2>13, <2>16, <4>1 DEF PutDown
      <4>3. X = {} \/ \E x : X = {x}
        BY <4>2
      <4>4. Cardinality(X) = 0 \/ Cardinality(X) = 1
        BY <4>3, FS_EmptySet, FS_Singleton
      <4> QED BY <4>1, <4>4
    <3> QED BY <2>1, <2>4, <3>1, <3>2 DEF DaysAccountedFor
  <2>18. CausesAreShown
    <3>1. SUFFICES ASSUME NEW x \in Charged
                   PROVE  /\ \E i \in DOMAIN path : path[i] = x.act
                          /\ NoneTwice(p) \/ x.cause # "lag_growth" =>
                               \E d \in DeltasOf("new", x.act) : CauseShowsAs[x.cause] \in d.kinds
      BY <2>1, <2>5 DEF CausesAreShown
    <3>2. x \in found /\ x.cause \in Causes
      <4>1. x \in attr
        BY <2>4 DEF Charged
      <4> QED BY <2>15, <2>16, <4>1
    <3>3. /\ \E i \in DOMAIN path : path[i] = x.act
          /\ NoneTwice(p) \/ x.cause # "lag_growth" =>
               \E e \in pairs : e.curr = x.act /\ ShowsAs(x.cause) \in Kinds(old, new, e)
      <4>1. PICK was1, now1 : was1 = old /\ now1 = new
        OBVIOUS
      <4>2. IsListed(was1.plan) /\ IsListed(now1.plan) /\ pairs = Pairs(was1.plan, now1.plan, match)
        BY <2>2, <2>4, <2>5, <4>1
      <4>3. x \in FoundOn(was1.plan, now1.plan, pairs, path)
        BY <2>5, <2>12, <3>2, <4>1
      <4>4. IsShown(was1, now1, pairs, path, x)
        BY <4>2, <4>3, CauseIsShown
      <4>5. IsShown(old, new, pairs, path, x)
        BY <4>1, <4>4
      <4> QED BY <2>5, <4>5 DEF IsShown
    <3>4. ASSUME NEW e \in pairs, e.curr = x.act, ShowsAs(x.cause) \in Kinds(old, new, e)
          PROVE  \E d \in DeltasOf("new", x.act) : CauseShowsAs[x.cause] \in d.kinds
      <4>1. PICK d \in deltas : d.of = e /\ d.kinds = Kinds(old, new, e)
        BY <2>9
      <4>2. d \in DeltasOf("new", x.act)
        BY <2>6, <3>4, <4>1
      <4> QED BY <2>14, <3>2, <3>4, <4>1, <4>2
    <3> QED BY <3>3, <3>4
  <2>19. NoMoveWithoutChange
    <3>1. SUFFICES ASSUME Reissued = {}, answer.result.move # 0,
                          \A d \in deltas :
                            d.kinds \cap {"added", "removed", "duration", "constraint", "relogicked"} = {}
                   PROVE  FALSE
      BY <2>4 DEF NoMoveWithoutChange
    <3>2. \A r : ~Reused(p, q, match, r)
      BY <2>7, <3>1
    <3>3. \A e \in pairs :
            Kinds(old, new, e) \cap {"added", "removed", "duration", "constraint", "relogicked"} = {}
      BY <2>9, <3>1
    <3>4. FinishDay(old.plan) = FinishDay(new.plan)
      BY <2>2, <2>4, <2>5, <3>2, <3>3, NoChangeNoMove
    <3>5. FinishDay(p) \in Int /\ FinishDay(q) \in Int
      BY <2>2, FinishIs
    <3> QED BY <2>5, <3>1, <3>4, <3>5
  <2>20. LinksAgree
    <3>1. SUFFICES ASSUME match = "id", NoneTwice(p), NoneTwice(q),
                          NEW a \in DOMAIN p.tasks \cap DOMAIN q.tasks
                   PROVE  (\E d \in DeltasOf("new", a) : "relogicked" \in d.kinds)
                            <=> (\E l \in answer.result.links : l[1][2] = a)
      BY <2>1 DEF LinksAgree
    <3>2. PICK e \in pairs : e.base = a /\ e.curr = a
      BY <2>2, <2>4, <3>1, MatchedWithItself
    <3>3. a # Absent
      BY <2>2, <3>1, IdentityIs
    <3>4. "relogicked" \in Kinds(old, new, e) <=> Signature(p, a) # Signature(q, a)
      <4>1. PICK kinds : kinds = Kinds(old, new, e)
        OBVIOUS
      <4>2. "relogicked" \in kinds <=> Signature(old.plan, e.base) # Signature(new.plan, e.curr)
        BY <3>2, <3>3, <4>1, KindsAre
      <4> QED BY <2>5, <3>2, <4>1, <4>2
    <3>5. Signature(p, a) # Signature(q, a) <=> \E l \in LinkDeltas(p, q) : l[1][2] = a
      BY <2>2, <3>1, LogicIsListed
    <3>6. (\E d \in DeltasOf("new", a) : "relogicked" \in d.kinds) <=> "relogicked" \in Kinds(old, new, e)
      <4>1. ASSUME NEW d \in DeltasOf("new", a) PROVE d.kinds = Kinds(old, new, e)
        <5>1. d \in deltas /\ d.of.curr = a
          BY <2>6
        <5>2. d.of \in pairs /\ d.kinds = Kinds(old, new, d.of)
          BY <2>10, <5>1
        <5>3. d.of = e
          BY <2>2, <2>4, <3>2, <3>3, <5>1, <5>2, OneEntryEach
        <5> QED BY <5>2, <5>3
      <4>2. \E d \in DeltasOf("new", a) : TRUE
        <5>1. PICK d \in deltas : d.of = e /\ d.kinds = Kinds(old, new, e)
          BY <2>9
        <5>2. d \in DeltasOf("new", a)
          BY <2>6, <3>2, <5>1
        <5> QED BY <5>2
      <4> QED BY <4>1, <4>2
    <3> QED BY <2>5, <3>4, <3>5, <3>6
  <2> QED BY <2>11, <2>17, <2>18, <2>19, <2>20
<1>2. StudyInv => ComparisonIsComplete
  BY <1>1 DEF ComparisonIsComplete
<1> QED BY <1>2, StudyInvHolds, PTL

-----------------------------------------------------------------------------
\* Work shortened and overlapped.

\* q is the plan p with other durations and with other links at the same ends.
Reshaped(p, q) ==
  /\ q = [tasks |-> q.tasks, links |-> q.links]
  /\ q.tasks = [a \in DOMAIN p.tasks |-> q.tasks[a]]
  /\ q.links = [k \in DOMAIN p.links |-> q.links[k]]
  /\ \A a \in DOMAIN p.tasks : /\ q.tasks[a] \in [dur : Nat, floor : Nat, code : Nat]
                               /\ q.tasks[a].floor = p.tasks[a].floor
  /\ \A k \in DOMAIN p.links : /\ q.links[k] \in LinksIn(DOMAIN p.tasks)
                               /\ q.links[k].pred = p.links[k].pred
                               /\ q.links[k].succ = p.links[k].succ

\* It is a plan like p.
LEMMA ReshapedIsPlan ==
  ASSUME NEW p, IsPlan(p), NEW q, Reshaped(p, q)
  PROVE  IsPlan(q) /\ DOMAIN q.tasks = DOMAIN p.tasks /\ DOMAIN q.links = DOMAIN p.links
<1>1. DOMAIN q.tasks = DOMAIN p.tasks /\ DOMAIN q.links = DOMAIN p.links
  BY DEF Reshaped
<1>2. IsFiniteSet(DOMAIN q.tasks) /\ DOMAIN q.tasks # {}
  BY <1>1, InPlan
<1>3. q.tasks \in [DOMAIN q.tasks -> [dur : Nat, floor : Nat, code : Nat]]
  BY DEF Reshaped
<1>4. q.links \in Seq(LinksIn(DOMAIN q.tasks))
  <2>1. PICK Y : p.links \in Seq(Y)
    BY DEF IsPlan
  <2>2. DOMAIN p.links = 1..Len(p.links) /\ Len(p.links) \in Nat
    BY <2>1
  <2>3. PICK A, n : A = LinksIn(DOMAIN q.tasks) /\ n = Len(p.links)
    OBVIOUS
  <2>4. q.links \in [1..n -> A]
    BY <1>1, <2>2, <2>3 DEF Reshaped
  <2>5. q.links \in Seq(A)
    BY <2>2, <2>3, <2>4
  <2> QED BY <2>3, <2>5
<1>5. NoRing(q)
  <2>1. SUFFICES ASSUME NEW some \in SUBSET DOMAIN q.tasks, some # {}
                 PROVE  \E a \in some : \A k \in Into(q, a) : q.links[k].pred \notin some
    BY DEF NoRing
  <2>2. PICK a \in some : \A k \in Into(p, a) : p.links[k].pred \notin some
    BY <1>1, <2>1 DEF IsPlan, NoRing
  <2>3. ASSUME NEW k \in Into(q, a) PROVE q.links[k].pred \notin some
    <3>1. k \in DOMAIN p.links /\ q.links[k].succ = a
      BY <1>1 DEF Into
    <3>2. p.links[k].succ = a /\ p.links[k].pred = q.links[k].pred
      BY <3>1 DEF Reshaped
    <3>3. k \in Into(p, a)
      BY <3>1, <3>2 DEF Into
    <3> QED BY <2>2, <3>2, <3>3
  <2> QED BY <2>3
<1>6. q = [tasks |-> q.tasks, links |-> q.links]
  BY DEF Reshaped
<1> QED BY <1>1, <1>2, <1>3, <1>4, <1>5, <1>6 DEF IsPlan, LinksIn

\* What a link asks, by its type.
LEMMA OffIs ==
  ASSUME NEW p, IsPlan(p), NEW k \in DOMAIN p.links,
         NEW l, l = p.links[k], NEW from, from = p.tasks[l.pred].dur, NEW to, to = p.tasks[l.succ].dur
  PROVE  /\ l.type = "FS" => Off(p, k) = from + l.lag
         /\ l.type = "SS" => Off(p, k) = l.lag
         /\ l.type = "FF" => Off(p, k) = from + l.lag - to
         /\ l.type = "SF" => Off(p, k) = l.lag - to
         /\ l.type \in {"FS", "SS", "FF", "SF"} /\ l.lag \in Int
         /\ from \in Nat /\ to \in Nat
<1>1. /\ l.pred \in DOMAIN p.tasks /\ l.succ \in DOMAIN p.tasks
      /\ l.lag \in Int /\ l.type \in {"FS", "SS", "FF", "SF"}
  BY InPlan
<1>2. from \in Nat /\ to \in Nat
  BY <1>1, InPlan
<1> QED BY <1>1, <1>2 DEF Off, StartBound

\* Links that ask no more delay nothing.
LEMMA LighterFinishesBy ==
  ASSUME NEW p, IsPlan(p), NEW q, Reshaped(p, q),
         \A a \in DOMAIN p.tasks : q.tasks[a].dur = p.tasks[a].dur,
         \A k \in DOMAIN p.links : /\ q.links[k].type = p.links[k].type
                                   /\ q.links[k].lag <= p.links[k].lag
  PROVE  FinishDay(q) <= FinishDay(p)
<1>1. IsPlan(q) /\ DOMAIN q.tasks = DOMAIN p.tasks /\ DOMAIN q.links = DOMAIN p.links
  BY ReshapedIsPlan
<1>2. PICK h : h = EarlyStarts(p)
  OBVIOUS
<1>3. Meets(p, h)
  BY <1>2, EarlyStartsAre
<1>4. ASSUME NEW k \in DOMAIN q.links PROVE h[q.links[k].pred] + Off(q, k) <= h[q.links[k].succ]
  <2>1. PICK l, m : l = p.links[k] /\ m = q.links[k]
    OBVIOUS
  <2>2. /\ m.pred = l.pred /\ m.succ = l.succ /\ m.type = l.type /\ m.lag <= l.lag
        /\ l.pred \in DOMAIN p.tasks /\ l.succ \in DOMAIN p.tasks
    BY <1>1, <2>1, InPlan DEF Reshaped
  <2>3. /\ q.tasks[m.pred].dur = p.tasks[l.pred].dur /\ q.tasks[m.succ].dur = p.tasks[l.succ].dur
    BY <2>2
  <2>4. PICK from, to : from = p.tasks[l.pred].dur /\ to = p.tasks[l.succ].dur
    OBVIOUS
  <2>5. /\ l.type = "FS" => Off(p, k) = from + l.lag
        /\ l.type = "SS" => Off(p, k) = l.lag
        /\ l.type = "FF" => Off(p, k) = from + l.lag - to
        /\ l.type = "SF" => Off(p, k) = l.lag - to
        /\ l.type \in {"FS", "SS", "FF", "SF"} /\ l.lag \in Int
        /\ from \in Nat /\ to \in Nat
    BY <1>1, <2>1, <2>4, OffIs
  <2>6. /\ m.type = "FS" => Off(q, k) = from + m.lag
        /\ m.type = "SS" => Off(q, k) = m.lag
        /\ m.type = "FF" => Off(q, k) = from + m.lag - to
        /\ m.type = "SF" => Off(q, k) = m.lag - to
        /\ m.lag \in Int
    BY <1>1, <2>1, <2>3, <2>4, OffIs
  <2>7. Off(q, k) <= Off(p, k) /\ Off(q, k) \in Int /\ Off(p, k) \in Int
    BY <2>2, <2>5, <2>6
  <2>8. h[l.pred] + Off(p, k) <= h[l.succ] /\ h[l.pred] \in Int /\ h[l.succ] \in Int
    BY <1>1, <1>3, <2>1, <2>2 DEF Meets
  <2> QED BY <2>1, <2>2, <2>7, <2>8
<1>5. Meets(q, h)
  <2>1. \A a \in DOMAIN q.tasks : h[a] \in Int /\ q.tasks[a].floor <= h[a]
    BY <1>1, <1>3 DEF Meets, Reshaped
  <2> QED BY <1>4, <2>1 DEF Meets
<1>6. FinishDay(p) \in Int /\ \A a \in DOMAIN q.tasks : h[a] + q.tasks[a].dur <= FinishDay(p)
  BY <1>1, <1>2, FinishIs
<1> QED BY <1>1, <1>5, <1>6, FinishesBy

\* q is p with one activity a day shorter, and with links from its start that may
\* ask for a day less.
OneDayLess(p, q, b) ==
  /\ Reshaped(p, q)
  /\ b \in DOMAIN p.tasks /\ q.tasks[b].dur = p.tasks[b].dur - 1
  /\ \A a \in DOMAIN p.tasks \ {b} : q.tasks[a].dur = p.tasks[a].dur
  /\ \A k \in DOMAIN p.links :
       /\ q.links[k].type = p.links[k].type
       /\ \/ q.links[k].lag = p.links[k].lag
          \/ /\ p.links[k].pred = b /\ p.links[k].type = "SS"
             /\ q.links[k].lag = p.links[k].lag - 1

\* It finishes at most a day earlier: what ranks above the activity may move by that
\* day, and nothing else.
LEMMA ADayAtMost ==
  ASSUME NEW p, IsPlan(p), NEW q, NEW b, OneDayLess(p, q, b)
  PROVE  FinishDay(p) <= FinishDay(q) + 1
<1>1. IsPlan(q) /\ DOMAIN q.tasks = DOMAIN p.tasks /\ DOMAIN q.links = DOMAIN p.links
  BY ReshapedIsPlan DEF OneDayLess
<1>2. PICK h, r : /\ h = EarlyStarts(q)
                  /\ \A a \in DOMAIN p.tasks : r[a] \in Int
                  /\ \A k \in DOMAIN p.links : r[p.links[k].pred] < r[p.links[k].succ]
  BY PlanRanked
<1>3. Meets(q, h)
  BY <1>1, <1>2, EarlyStartsAre
<1>4. PICK g : g = [a \in DOMAIN p.tasks |-> IF r[a] > r[b] THEN h[a] + 1 ELSE h[a]]
  OBVIOUS
<1>5. b \in DOMAIN p.tasks
  BY DEF OneDayLess
<1>6. \A a \in DOMAIN p.tasks : /\ h[a] \in Int /\ g[a] \in Int /\ h[a] <= g[a] /\ g[a] <= h[a] + 1
                                /\ g[a] = (IF r[a] > r[b] THEN h[a] + 1 ELSE h[a])
  BY <1>1, <1>3, <1>4 DEF Meets
<1>7. ASSUME NEW k \in DOMAIN p.links PROVE g[p.links[k].pred] + Off(p, k) <= g[p.links[k].succ]
  <2>1. PICK l, m : l = p.links[k] /\ m = q.links[k]
    OBVIOUS
  <2>2. /\ m.pred = l.pred /\ m.succ = l.succ /\ m.type = l.type
        /\ l.pred \in DOMAIN p.tasks /\ l.succ \in DOMAIN p.tasks
        /\ m.lag = l.lag \/ (l.pred = b /\ l.type = "SS" /\ m.lag = l.lag - 1)
    BY <2>1, InPlan DEF OneDayLess, Reshaped
  <2>3. PICK from, to, since, until :
          /\ from = p.tasks[l.pred].dur /\ to = p.tasks[l.succ].dur
          /\ since = q.tasks[m.pred].dur /\ until = q.tasks[m.succ].dur
    OBVIOUS
  <2>4. /\ since = (IF l.pred = b THEN from - 1 ELSE from)
        /\ until = (IF l.succ = b THEN to - 1 ELSE to)
    BY <2>2, <2>3 DEF OneDayLess
  <2>5. /\ l.type = "FS" => Off(p, k) = from + l.lag
        /\ l.type = "SS" => Off(p, k) = l.lag
        /\ l.type = "FF" => Off(p, k) = from + l.lag - to
        /\ l.type = "SF" => Off(p, k) = l.lag - to
        /\ l.type \in {"FS", "SS", "FF", "SF"} /\ l.lag \in Int
        /\ from \in Nat /\ to \in Nat
    BY <2>1, <2>3, OffIs
  <2>6. /\ m.type = "FS" => Off(q, k) = since + m.lag
        /\ m.type = "SS" => Off(q, k) = m.lag
        /\ m.type = "FF" => Off(q, k) = since + m.lag - until
        /\ m.type = "SF" => Off(q, k) = m.lag - until
        /\ m.lag \in Int /\ since \in Nat /\ until \in Nat
    BY <1>1, <2>1, <2>3, OffIs
  <2>7. /\ r[l.pred] < r[l.succ] /\ r[l.pred] \in Int /\ r[l.succ] \in Int /\ r[b] \in Int
        /\ h[l.pred] + Off(q, k) <= h[l.succ] /\ h[l.pred] \in Int /\ h[l.succ] \in Int
    BY <1>1, <1>2, <1>3, <1>5, <2>1, <2>2 DEF Meets
  <2>8. g[l.pred] + Off(p, k) <= g[l.succ]
    <3>1. CASE l.pred = b
      <4>1. l.succ # b /\ g[l.pred] = h[l.pred] /\ g[l.succ] = h[l.succ] + 1
        BY <1>6, <2>2, <2>7, <3>1
      <4>2. Off(p, k) <= Off(q, k) + 1 /\ Off(p, k) \in Int /\ Off(q, k) \in Int
        BY <2>2, <2>4, <2>5, <2>6, <3>1, <4>1
      <4> QED BY <2>7, <4>1, <4>2
    <3>2. CASE l.pred # b /\ l.succ = b
      <4>1. g[l.pred] = h[l.pred] /\ g[l.succ] = h[l.succ]
        BY <1>6, <2>2, <2>7, <3>2
      <4>2. Off(p, k) <= Off(q, k) /\ Off(p, k) \in Int /\ Off(q, k) \in Int
        BY <2>2, <2>4, <2>5, <2>6, <3>2
      <4> QED BY <2>7, <4>1, <4>2
    <3>3. CASE l.pred # b /\ l.succ # b
      <4>1. \/ g[l.pred] = h[l.pred] /\ h[l.succ] <= g[l.succ] /\ g[l.succ] \in Int
            \/ g[l.pred] = h[l.pred] + 1 /\ g[l.succ] = h[l.succ] + 1
        BY <1>6, <2>2, <2>7
      <4>2. Off(p, k) = Off(q, k) /\ Off(p, k) \in Int
        BY <2>2, <2>4, <2>5, <2>6, <3>3
      <4> QED BY <2>7, <4>1, <4>2
    <3> QED BY <3>1, <3>2, <3>3
  <2> QED BY <2>1, <2>8
<1>8. Meets(p, g)
  <2>1. ASSUME NEW a \in DOMAIN p.tasks PROVE g[a] \in Int /\ p.tasks[a].floor <= g[a]
    <3>1. q.tasks[a].floor = p.tasks[a].floor /\ p.tasks[a].floor \in Nat
      BY InPlan DEF OneDayLess, Reshaped
    <3>2. q.tasks[a].floor <= h[a]
      BY <1>1, <1>3 DEF Meets
    <3> QED BY <1>6, <3>1, <3>2
  <2> QED BY <1>7, <2>1 DEF Meets
<1>9. FinishDay(q) \in Int
  BY <1>1, FinishIs
<1>10. ASSUME NEW a \in DOMAIN p.tasks PROVE g[a] + p.tasks[a].dur <= FinishDay(q) + 1
  <2>1. h[a] + q.tasks[a].dur <= FinishDay(q) /\ q.tasks[a].dur \in Nat
    BY <1>1, <1>2, FinishIs, InPlan
  <2>2. p.tasks[a].dur \in Nat
    BY InPlan
  <2>3. CASE a = b
    <3>1. g[a] = h[a] /\ q.tasks[a].dur = p.tasks[a].dur - 1
      BY <1>2, <1>5, <1>6, <2>3 DEF OneDayLess
    <3> QED BY <1>6, <1>9, <2>1, <2>2, <3>1
  <2>4. CASE a # b
    <3>1. q.tasks[a].dur = p.tasks[a].dur
      BY <2>4 DEF OneDayLess
    <3> QED BY <1>6, <1>9, <2>1, <2>2, <3>1
  <2> QED BY <2>3, <2>4
<1> QED BY <1>8, <1>9, <1>10, FinishesBy

\* Plans reshaped from one plan are reshaped from one another.
LEMMA ReshapedAlike ==
  ASSUME NEW p, NEW x, Reshaped(p, x), NEW y, Reshaped(p, y)
  PROVE  Reshaped(x, y)
<1>1. DOMAIN x.tasks = DOMAIN p.tasks /\ DOMAIN x.links = DOMAIN p.links
  BY DEF Reshaped
<1>2. /\ y = [tasks |-> y.tasks, links |-> y.links]
      /\ y.tasks = [a \in DOMAIN x.tasks |-> y.tasks[a]]
      /\ y.links = [k \in DOMAIN x.links |-> y.links[k]]
  BY <1>1 DEF Reshaped
<1>3. \A a \in DOMAIN x.tasks : /\ y.tasks[a] \in [dur : Nat, floor : Nat, code : Nat]
                                /\ y.tasks[a].floor = x.tasks[a].floor
  BY <1>1 DEF Reshaped
<1>4. \A k \in DOMAIN x.links : /\ y.links[k] \in LinksIn(DOMAIN x.tasks)
                                /\ y.links[k].pred = x.links[k].pred
                                /\ y.links[k].succ = x.links[k].succ
  BY <1>1 DEF Reshaped
<1> QED BY <1>2, <1>3, <1>4 DEF Reshaped

\* What is asked of a compression that is not refused.
CompressionAsked(plan, target, costs, pairs) ==
  /\ IsPlan(plan) /\ Absent \notin DOMAIN plan.tasks /\ target \in Int
  /\ \A a \in DOMAIN costs : /\ a \in DOMAIN plan.tasks
                             /\ costs[a].cost \in Nat /\ costs[a].max \in Int
  /\ \A of \in pairs : /\ of = <<of[1], of[2]>> /\ of[2] # 0
                       /\ of[1] \in DOMAIN plan.tasks /\ of[2] \in DOMAIN plan.tasks

Levers(costs, pairs) == {<<a, 0>> : a \in DOMAIN costs} \cup pairs

PairOf(plan, k) == <<plan.links[k].pred, plan.links[k].succ>>

\* The days a lever has been pulled.
UsedOf(now, of) == IF of \in DOMAIN now.used THEN now.used[of] ELSE 0

\* Between two rounds: what was asked and what was bought so far,
IsRound(plan, target, costs, pairs, now) ==
  /\ now = [original |-> plan, plan |-> now.plan, target |-> target, costs |-> costs,
            end |-> now.end, used |-> now.used, options |-> now.options]
  /\ now.used = [of \in Levers(costs, pairs) |-> now.used[of]]
  /\ \A of \in Levers(costs, pairs) : now.used[of] \in Nat
  /\ now.end = FinishDay(now.plan)

\* the work, shorter by the days bought of it, with a day left of what was,
WorkShortened(plan, now) ==
  /\ now.plan = [tasks |-> now.plan.tasks, links |-> now.plan.links]
  /\ now.plan.tasks = [a \in DOMAIN plan.tasks |-> now.plan.tasks[a]]
  /\ \A a \in DOMAIN plan.tasks :
       /\ now.plan.tasks[a].dur \in Nat
       /\ now.plan.tasks[a] = [dur   |-> plan.tasks[a].dur - UsedOf(now, <<a, 0>>),
                               floor |-> plan.tasks[a].floor, code |-> plan.tasks[a].code]
       /\ UsedOf(now, <<a, 0>>) # 0 => now.plan.tasks[a].dur >= 1

\* the links, those overlapped as long as the work before them was when they were,
LinksOverlapped(plan, now) ==
  /\ now.plan.links = [k \in DOMAIN plan.links |-> now.plan.links[k]]
  /\ \A k \in DOMAIN plan.links :
       IF UsedOf(now, PairOf(plan, k)) = 0 THEN now.plan.links[k] = plan.links[k]
       ELSE /\ now.plan.links[k] \in LinksIn(DOMAIN plan.tasks)
            /\ now.plan.links[k].pred = plan.links[k].pred
            /\ now.plan.links[k].succ = plan.links[k].succ
            /\ now.plan.links[k].type = "SS"
            /\ now.plan.tasks[plan.links[k].pred].dur - UsedOf(now, PairOf(plan, k))
                 <= now.plan.links[k].lag

\* and the options, in the order of the rounds.
BoughtSoFar(plan, target, costs, now) ==
  LET o == now.options
  IN  /\ o = [n \in 1..Len(o) |-> o[n]] /\ Len(o) \in Nat
      /\ \A n \in DOMAIN o :
           /\ o[n].of \in DOMAIN now.used /\ o[n].days \in Int
           /\ 1 <= o[n].days /\ o[n].days <= now.used[o[n].of]
           /\ o[n].before = (IF n = 1 THEN FinishDay(plan) ELSE o[n - 1].after)
           /\ o[n].after < o[n].before
           /\ IsCrash(o[n].of) => o[n].days <= costs[o[n].of[1]].max
           /\ FinishDay(plan) - o[n].before < target
      /\ \A of \in DOMAIN now.used : now.used[of] # 0 =>
           \E n \in DOMAIN o : o[n].of = of /\ o[n].days = now.used[of]
      /\ now.end = (IF Len(o) = 0 THEN FinishDay(plan) ELSE o[Len(o)].after)

\* The network that is delivered: overlaps measured on the work as it is in the end.
Delivered(plan, now) ==
  [tasks |-> now.plan.tasks,
   links |-> [k \in DOMAIN plan.links |->
                IF UsedOf(now, PairOf(plan, k)) = 0 THEN plan.links[k]
                ELSE SS(plan.links[k].pred, plan.links[k].succ,
                        now.plan.tasks[plan.links[k].pred].dur - UsedOf(now, PairOf(plan, k)))]]

NothingShortened(now) == \A of \in DOMAIN now.used : IsCrash(of) => now.used[of] = 0

\* An overlap would still move the finish.
OverlapsPay(now) ==
  \E of \in DOMAIN now.used : ~IsCrash(of) /\ HasRoom(now, of) /\ FinishDay(Pulled(now, of)) < now.end

\* Where a day saved is paid for, what is delivered ends as was promised, since overlaps
\* come first: once work is shortened none of them moves the finish.
PromiseSoFar(plan, costs, pairs, now) ==
  (\A a \in DOMAIN costs : costs[a].cost > 0) \/ pairs = {} =>
    /\ FinishDay(Delivered(plan, now)) = now.end
    /\ NothingShortened(now) =>
         \A k \in DOMAIN plan.links : UsedOf(now, PairOf(plan, k)) # 0 =>
           now.plan.links[k].lag
             = now.plan.tasks[plan.links[k].pred].dur - UsedOf(now, PairOf(plan, k))
    /\ NothingShortened(now) \/ ~OverlapsPay(now)

\* Together.
Compressing(plan, target, costs, pairs, now) ==
  /\ IsRound(plan, target, costs, pairs, now)
  /\ WorkShortened(plan, now) /\ LinksOverlapped(plan, now)
  /\ BoughtSoFar(plan, target, costs, now)
  /\ PromiseSoFar(plan, costs, pairs, now)

\* Both networks are plans.
LEMMA RoundIsPlan ==
  ASSUME NEW plan, IsPlan(plan), NEW now, WorkShortened(plan, now), LinksOverlapped(plan, now),
         \A of : UsedOf(now, of) \in Nat
  PROVE  /\ Reshaped(plan, now.plan) /\ IsPlan(now.plan)
         /\ Reshaped(plan, Delivered(plan, now)) /\ IsPlan(Delivered(plan, now))
<1>1. ASSUME NEW a \in DOMAIN plan.tasks
      PROVE  /\ now.plan.tasks[a] \in [dur : Nat, floor : Nat, code : Nat]
             /\ now.plan.tasks[a].floor = plan.tasks[a].floor
  <2>1. plan.tasks[a] \in [dur : Nat, floor : Nat, code : Nat]
    BY InPlan
  <2>2. PICK t, d : t = now.plan.tasks[a] /\ d = plan.tasks[a].dur - UsedOf(now, <<a, 0>>)
    OBVIOUS
  <2>3. /\ t = [dur |-> d, floor |-> plan.tasks[a].floor, code |-> plan.tasks[a].code]
        /\ t.dur \in Nat
    BY <2>2 DEF WorkShortened
  <2>4. t.dur = d /\ t.floor = plan.tasks[a].floor
    BY <2>3
  <2>5. t \in [dur : Nat, floor : Nat, code : Nat]
    BY <2>1, <2>3, <2>4
  <2> QED BY <2>2, <2>4, <2>5
<1>2. ASSUME NEW k \in DOMAIN plan.links
      PROVE  /\ now.plan.links[k] \in LinksIn(DOMAIN plan.tasks)
             /\ now.plan.links[k].pred = plan.links[k].pred
             /\ now.plan.links[k].succ = plan.links[k].succ
  BY InPlan DEF LinksOverlapped, LinksIn
<1>3. Reshaped(plan, now.plan)
  BY <1>1, <1>2 DEF Reshaped, WorkShortened, LinksOverlapped
<1>4. PICK D : D = Delivered(plan, now)
  OBVIOUS
<1>5. /\ D = [tasks |-> D.tasks, links |-> D.links] /\ D.tasks = now.plan.tasks
      /\ D.links = [k \in DOMAIN plan.links |-> D.links[k]]
      /\ \A k \in DOMAIN plan.links : D.links[k] =
           IF UsedOf(now, PairOf(plan, k)) = 0 THEN plan.links[k]
           ELSE SS(plan.links[k].pred, plan.links[k].succ,
                   now.plan.tasks[plan.links[k].pred].dur - UsedOf(now, PairOf(plan, k)))
  BY <1>4 DEF Delivered
<1>6. ASSUME NEW k \in DOMAIN plan.links
      PROVE  /\ D.links[k] \in LinksIn(DOMAIN plan.tasks)
             /\ D.links[k].pred = plan.links[k].pred /\ D.links[k].succ = plan.links[k].succ
  <2>1. CASE UsedOf(now, PairOf(plan, k)) = 0
    BY <1>5, <2>1, InPlan DEF LinksIn
  <2>2. CASE UsedOf(now, PairOf(plan, k)) # 0
    <3>1. PICK b, c, lag : /\ b = plan.links[k].pred /\ c = plan.links[k].succ
                           /\ lag = now.plan.tasks[b].dur - UsedOf(now, PairOf(plan, k))
      OBVIOUS
    <3>2. D.links[k] = [pred |-> b, succ |-> c, type |-> "SS", lag |-> lag]
      BY <1>5, <2>2, <3>1 DEF SS
    <3>3. b \in DOMAIN plan.tasks /\ c \in DOMAIN plan.tasks
      BY <3>1, InPlan
    <3>4. lag \in Int
      <4>1. now.plan.tasks[b].dur \in Nat
        BY <3>3 DEF WorkShortened
      <4>2. UsedOf(now, PairOf(plan, k)) \in Nat
        OBVIOUS
      <4> QED BY <3>1, <4>1, <4>2
    <3> QED BY <3>1, <3>2, <3>3, <3>4 DEF LinksIn
  <2> QED BY <2>1, <2>2
<1>7. Reshaped(plan, D)
  <2>1. D.tasks = [a \in DOMAIN plan.tasks |-> D.tasks[a]]
    BY <1>5 DEF WorkShortened
  <2> QED BY <1>1, <1>5, <1>6, <2>1 DEF Reshaped
<1> QED BY <1>3, <1>4, <1>7, ReshapedIsPlan

\* What is delivered finishes no later, and as early where no overlap is out of date.
LEMMA DeliveredFinishesBy ==
  ASSUME NEW plan, IsPlan(plan), NEW now, WorkShortened(plan, now), LinksOverlapped(plan, now),
         \A of : UsedOf(now, of) \in Nat
  PROVE  /\ FinishDay(Delivered(plan, now)) <= FinishDay(now.plan)
         /\ (\A k \in DOMAIN plan.links : UsedOf(now, PairOf(plan, k)) # 0 =>
               now.plan.links[k].lag
                 = now.plan.tasks[plan.links[k].pred].dur - UsedOf(now, PairOf(plan, k)))
            => FinishDay(Delivered(plan, now)) = FinishDay(now.plan)
<1>1. PICK D, P : D = Delivered(plan, now) /\ P = now.plan
  OBVIOUS
<1>2. Reshaped(plan, P) /\ IsPlan(P) /\ Reshaped(plan, D) /\ IsPlan(D)
  BY <1>1, RoundIsPlan
<1>3. Reshaped(P, D) /\ Reshaped(D, P)
  BY <1>2, ReshapedAlike
<1>4. /\ D.tasks = P.tasks /\ DOMAIN P.tasks = DOMAIN plan.tasks
      /\ DOMAIN P.links = DOMAIN plan.links /\ DOMAIN D.links = DOMAIN plan.links
  BY <1>1, <1>2 DEF Delivered, Reshaped
<1>5. ASSUME NEW k \in DOMAIN plan.links
      PROVE  /\ P.links[k].type = D.links[k].type /\ D.links[k].lag <= P.links[k].lag
             /\ D.links[k].lag \in Int /\ P.links[k].lag \in Int
             /\ \/ D.links[k].lag = P.links[k].lag
                \/ /\ UsedOf(now, PairOf(plan, k)) # 0
                   /\ D.links[k].lag = P.tasks[plan.links[k].pred].dur - UsedOf(now, PairOf(plan, k))
  <2>1. D.links[k] = IF UsedOf(now, PairOf(plan, k)) = 0 THEN plan.links[k]
           ELSE SS(plan.links[k].pred, plan.links[k].succ,
                   P.tasks[plan.links[k].pred].dur - UsedOf(now, PairOf(plan, k)))
    BY <1>1 DEF Delivered
  <2>2. P.links[k].lag \in Int /\ D.links[k].lag \in Int
    BY <1>2, <1>4, InPlan
  <2>3. CASE UsedOf(now, PairOf(plan, k)) = 0
    <3>1. D.links[k] = P.links[k]
      BY <1>1, <2>1, <2>3 DEF LinksOverlapped
    <3> QED BY <2>2, <3>1
  <2>4. CASE UsedOf(now, PairOf(plan, k)) # 0
    <3>1. PICK lag : lag = P.tasks[plan.links[k].pred].dur - UsedOf(now, PairOf(plan, k))
      OBVIOUS
    <3>2. D.links[k].type = "SS" /\ D.links[k].lag = lag
      BY <2>1, <2>4, <3>1 DEF SS
    <3>3. P.links[k].type = "SS" /\ lag <= P.links[k].lag
      BY <1>1, <2>4, <3>1 DEF LinksOverlapped
    <3> QED BY <2>2, <2>4, <3>1, <3>2, <3>3
  <2> QED BY <2>3, <2>4
<1>6. FinishDay(D) <= FinishDay(P)
  BY <1>2, <1>3, <1>4, <1>5, LighterFinishesBy
<1>7. ASSUME \A k \in DOMAIN plan.links : UsedOf(now, PairOf(plan, k)) # 0 =>
               P.links[k].lag = P.tasks[plan.links[k].pred].dur - UsedOf(now, PairOf(plan, k))
      PROVE  FinishDay(P) <= FinishDay(D)
  <2>1. \A k \in DOMAIN plan.links : D.links[k].type = P.links[k].type /\ P.links[k].lag <= D.links[k].lag
    BY <1>5, <1>7
  <2> QED BY <1>2, <1>3, <1>4, <2>1, LighterFinishesBy
<1>8. FinishDay(D) \in Int /\ FinishDay(P) \in Int
  BY <1>2, FinishIs
<1> QED BY <1>1, <1>6, <1>7, <1>8

\* Levers are told apart by what they shorten or overlap.
LEMMA LeversAre ==
  ASSUME NEW plan, NEW target, NEW costs, NEW pairs, CompressionAsked(plan, target, costs, pairs),
         NEW now, IsRound(plan, target, costs, pairs, now)
  PROVE  /\ DOMAIN now.used = Levers(costs, pairs)
         /\ \A of \in DOMAIN now.used : now.used[of] \in Nat
         /\ \A of : UsedOf(now, of) \in Nat
         /\ \A of \in DOMAIN now.used : UsedOf(now, of) = now.used[of]
         /\ \A of \in DOMAIN now.used : IsCrash(of) =>
              of[1] \in DOMAIN costs /\ of[1] \in DOMAIN plan.tasks /\ of = <<of[1], 0>>
         /\ \A of \in DOMAIN now.used : ~IsCrash(of) =>
              /\ of \in pairs /\ of = <<of[1], of[2]>> /\ of[2] # 0
              /\ of[1] \in DOMAIN plan.tasks /\ of[2] \in DOMAIN plan.tasks
         /\ now.original = plan /\ now.target = target /\ now.costs = costs
<1>1. DOMAIN now.used = Levers(costs, pairs) /\ \A of \in DOMAIN now.used : now.used[of] \in Nat
  BY DEF IsRound
<1>2. now.original = plan /\ now.target = target /\ now.costs = costs
  <2>1. now = [original |-> plan, plan |-> now.plan, target |-> target, costs |-> costs,
               end |-> now.end, used |-> now.used, options |-> now.options]
    BY DEF IsRound
  <2> QED BY <2>1
<1>3. ASSUME NEW of \in DOMAIN now.used
      PROVE  \/ /\ of[2] = 0 /\ of = <<of[1], 0>> /\ of[1] \in DOMAIN costs
                /\ of[1] \in DOMAIN plan.tasks
             \/ /\ of \in pairs /\ of = <<of[1], of[2]>> /\ of[2] # 0
                /\ of[1] \in DOMAIN plan.tasks /\ of[2] \in DOMAIN plan.tasks
  <2>1. CASE of \in pairs
    BY <2>1 DEF CompressionAsked
  <2>2. CASE \E a \in DOMAIN costs : of = <<a, 0>>
    <3>1. PICK a \in DOMAIN costs : of = <<a, 0>>
      BY <2>2
    <3>2. of[1] = a /\ of[2] = 0
      BY <3>1
    <3> QED BY <3>1, <3>2 DEF CompressionAsked
  <2> QED BY <1>1, <2>1, <2>2 DEF Levers
<1>4. /\ \A of : UsedOf(now, of) \in Nat
      /\ \A of \in DOMAIN now.used : UsedOf(now, of) = now.used[of]
  BY <1>1 DEF UsedOf
<1> QED BY <1>1, <1>2, <1>3, <1>4 DEF IsCrash

PickedOf(options) == {options[i].of : i \in DOMAIN options}

Most(options, l) == Max({options[i].days : i \in {j \in DOMAIN options : options[j].of = l}})

\* Of each lever the last option counts, with all its days.
LEMMA PickedAre ==
  ASSUME NEW plan, NEW target, NEW costs, NEW now, BoughtSoFar(plan, target, costs, now),
         \A of : UsedOf(now, of) \in Nat, NEW of
  PROVE  /\ of \in PickedOf(now.options) <=> UsedOf(now, of) # 0
         /\ UsedOf(now, of) # 0 => Most(now.options, of) = UsedOf(now, of)
<1>1. PICK o : o = now.options
  OBVIOUS
<1>2. /\ \A n \in DOMAIN o : /\ o[n].of \in DOMAIN now.used /\ o[n].days \in Int
                             /\ 1 <= o[n].days /\ o[n].days <= now.used[o[n].of]
      /\ \A l \in DOMAIN now.used : now.used[l] # 0 =>
           \E n \in DOMAIN o : o[n].of = l /\ o[n].days = now.used[l]
  BY <1>1 DEF BoughtSoFar
<1>3. UsedOf(now, of) \in Nat /\ (of \in DOMAIN now.used => UsedOf(now, of) = now.used[of])
      /\ (of \notin DOMAIN now.used => UsedOf(now, of) = 0)
  BY DEF UsedOf
<1>4. \A n \in DOMAIN o : o[n].of = of => /\ o[n].days \in Int /\ o[n].days <= UsedOf(now, of)
                                         /\ UsedOf(now, of) # 0
  BY <1>2, <1>3
<1>5. UsedOf(now, of) # 0 => \E n \in DOMAIN o : o[n].of = of /\ o[n].days = UsedOf(now, of)
  BY <1>2, <1>3
<1>6. of \in PickedOf(o) <=> UsedOf(now, of) # 0
  BY <1>4, <1>5 DEF PickedOf
<1>7. ASSUME UsedOf(now, of) # 0 PROVE Most(o, of) = UsedOf(now, of)
  <2>1. PICK X : X = {o[i].days : i \in {j \in DOMAIN o : o[j].of = of}}
    OBVIOUS
  <2>2. \A x \in X : x \in Int /\ x <= UsedOf(now, of)
    BY <1>4, <2>1
  <2>3. UsedOf(now, of) \in X
    BY <1>5, <1>7, <2>1
  <2>4. Max(X) = UsedOf(now, of)
    BY <2>2, <2>3, MaxKnown
  <2> QED BY <2>1, <2>4 DEF Most
<1> QED BY <1>1, <1>6, <1>7

\* The options applied are the network that is delivered.
LEMMA AppliedIs ==
  ASSUME NEW plan, IsPlan(plan), NEW target, NEW costs, NEW now,
         WorkShortened(plan, now), BoughtSoFar(plan, target, costs, now),
         \A of : UsedOf(now, of) \in Nat
  PROVE  Applied(plan, now.options) = Delivered(plan, now)
<1>1. PICK o, of : o = now.options /\ of = PickedOf(o)
  OBVIOUS
<1>2. \A l : /\ l \in of <=> UsedOf(now, l) # 0
             /\ UsedOf(now, l) # 0 => Most(o, l) = UsedOf(now, l)
  BY <1>1, PickedAre
<1>3. PICK S : S = [a \in DOMAIN plan.tasks |->
                      IF <<a, 0>> \in of
                      THEN [plan.tasks[a] EXCEPT !.dur = @ - Most(o, <<a, 0>>)] ELSE plan.tasks[a]]
  OBVIOUS
<1>4. Applied(plan, o) =
        [tasks |-> S,
         links |-> [k \in DOMAIN plan.links |->
                      IF PairOf(plan, k) \in of
                      THEN SS(PairOf(plan, k)[1], PairOf(plan, k)[2],
                              S[PairOf(plan, k)[1]].dur - Most(o, PairOf(plan, k)))
                      ELSE plan.links[k]]]
  BY <1>1, <1>3 DEF Applied, PickedOf, Most, PairOf
<1>5. ASSUME NEW a \in DOMAIN plan.tasks PROVE S[a] = now.plan.tasks[a]
  <2>1. PICK t, u : t = plan.tasks[a] /\ u = UsedOf(now, <<a, 0>>)
    OBVIOUS
  <2>2. t \in [dur : Nat, floor : Nat, code : Nat] /\ u \in Nat
    BY <2>1, InPlan
  <2>3. now.plan.tasks[a] = [dur |-> t.dur - u, floor |-> t.floor, code |-> t.code]
    BY <2>1 DEF WorkShortened
  <2>4. S[a] = IF u # 0 THEN [t EXCEPT !.dur = @ - u] ELSE t
    BY <1>2, <1>3, <2>1
  <2>5. t = [dur |-> t.dur, floor |-> t.floor, code |-> t.code] /\ t.dur \in Nat
    BY <2>2
  <2>6. CASE u = 0
    <3>1. t.dur - u = t.dur
      BY <2>5, <2>6
    <3> QED BY <2>3, <2>4, <2>5, <2>6, <3>1
  <2>7. CASE u # 0
    <3>1. [t EXCEPT !.dur = @ - u] = [dur |-> t.dur - u, floor |-> t.floor, code |-> t.code]
      BY <2>5
    <3> QED BY <2>3, <2>4, <2>7, <3>1
  <2> QED BY <2>6, <2>7
<1>6. S = now.plan.tasks
  BY <1>3, <1>5 DEF WorkShortened
<1>7. ASSUME NEW k \in DOMAIN plan.links
      PROVE  (IF PairOf(plan, k) \in of
              THEN SS(PairOf(plan, k)[1], PairOf(plan, k)[2],
                      S[PairOf(plan, k)[1]].dur - Most(o, PairOf(plan, k)))
              ELSE plan.links[k])
             = IF UsedOf(now, PairOf(plan, k)) = 0 THEN plan.links[k]
               ELSE SS(plan.links[k].pred, plan.links[k].succ,
                       now.plan.tasks[plan.links[k].pred].dur - UsedOf(now, PairOf(plan, k)))
  <2>1. PairOf(plan, k)[1] = plan.links[k].pred /\ PairOf(plan, k)[2] = plan.links[k].succ
    BY DEF PairOf
  <2>2. CASE UsedOf(now, PairOf(plan, k)) = 0
    BY <1>2, <2>2
  <2>3. CASE UsedOf(now, PairOf(plan, k)) # 0
    <3>1. PairOf(plan, k) \in of /\ Most(o, PairOf(plan, k)) = UsedOf(now, PairOf(plan, k))
      BY <1>2, <2>3
    <3> QED BY <1>6, <2>1, <2>3, <3>1
  <2> QED BY <2>2, <2>3
<1>8. PICK L, M : /\ L = [k \in DOMAIN plan.links |->
                            IF PairOf(plan, k) \in of
                            THEN SS(PairOf(plan, k)[1], PairOf(plan, k)[2],
                                    S[PairOf(plan, k)[1]].dur - Most(o, PairOf(plan, k)))
                            ELSE plan.links[k]]
                  /\ M = [k \in DOMAIN plan.links |->
                            IF UsedOf(now, PairOf(plan, k)) = 0 THEN plan.links[k]
                            ELSE SS(plan.links[k].pred, plan.links[k].succ,
                                    now.plan.tasks[plan.links[k].pred].dur
                                      - UsedOf(now, PairOf(plan, k)))]
  OBVIOUS
<1>9. L = M
  BY <1>7, <1>8
<1>10. Applied(plan, o) = [tasks |-> S, links |-> L] /\ Delivered(plan, now) = [tasks |-> now.plan.tasks, links |-> M]
  BY <1>4, <1>8 DEF Delivered
<1> QED BY <1>1, <1>6, <1>9, <1>10

\* A network and its work.
IsNetwork(P) ==
  /\ P = [tasks |-> P.tasks, links |-> P.links]
  /\ P.tasks = [x \in DOMAIN P.tasks |-> P.tasks[x]]

\* A day less of an activity.
LEMMA ShorterIs ==
  ASSUME NEW P, IsNetwork(P),
         NEW a \in DOMAIN P.tasks, NEW d, NEW f, NEW c, P.tasks[a] = [dur |-> d, floor |-> f, code |-> c],
         NEW Q, Q = Shorter(P, a, 1)
  PROVE  /\ Q = [tasks |-> Q.tasks, links |-> Q.links] /\ Q.links = P.links
         /\ Q.tasks = [x \in DOMAIN P.tasks |-> Q.tasks[x]]
         /\ Q.tasks[a] = [dur |-> d - 1, floor |-> f, code |-> c] /\ Q.tasks[a].dur = d - 1
         /\ \A x \in DOMAIN P.tasks \ {a} : Q.tasks[x] = P.tasks[x]
<1>1. PICK T : T = [P.tasks EXCEPT ![a] = [P.tasks[a] EXCEPT !.dur = P.tasks[a].dur - 1]]
  OBVIOUS
<1>2. Q = [tasks |-> T, links |-> P.links]
  <2>1. Q = [P EXCEPT !.tasks = T]
    BY <1>1 DEF Shorter
  <2> QED BY <2>1 DEF IsNetwork
<1>3. Q.tasks = T /\ Q.links = P.links
  BY <1>2
<1>4. T = [x \in DOMAIN P.tasks |-> T[x]] /\ \A x \in DOMAIN P.tasks \ {a} : T[x] = P.tasks[x]
  BY <1>1 DEF IsNetwork
<1>5. T[a] = [dur |-> d - 1, floor |-> f, code |-> c]
  <2>1. T[a] = [P.tasks[a] EXCEPT !.dur = P.tasks[a].dur - 1]
    BY <1>1 DEF IsNetwork
  <2>2. P.tasks[a].dur = d
    OBVIOUS
  <2> QED BY <2>1, <2>2
<1>6. T[a].dur = d - 1
  BY <1>5
<1> QED BY <1>2, <1>3, <1>4, <1>5, <1>6

\* A pair overlapped.
LEMMA OverlappedIs ==
  ASSUME NEW P, P = [tasks |-> P.tasks, links |-> P.links],
         NEW of, NEW days, NEW Q, Q = Overlapped(P, of, days)
  PROVE  /\ Q = [tasks |-> Q.tasks, links |-> Q.links] /\ Q.tasks = P.tasks
         /\ Q.links = [k \in DOMAIN P.links |-> Q.links[k]]
         /\ \A k \in DOMAIN P.links :
              IF P.links[k].pred = of[1] /\ P.links[k].succ = of[2]
              THEN Q.links[k] = SS(of[1], of[2], P.tasks[of[1]].dur - days)
              ELSE Q.links[k] = P.links[k]
<1>1. PICK L : L = [k \in DOMAIN P.links |->
                      IF k \in LinksOf(P, of) THEN SS(of[1], of[2], P.tasks[of[1]].dur - days)
                      ELSE P.links[k]]
  OBVIOUS
<1>2. Q = [tasks |-> P.tasks, links |-> L]
  <2>1. Q = [P EXCEPT !.links = L]
    BY <1>1 DEF Overlapped
  <2> QED BY <2>1
<1>3. Q.tasks = P.tasks /\ Q.links = L
  BY <1>2
<1>4. \A k \in DOMAIN P.links : k \in LinksOf(P, of) <=> P.links[k].pred = of[1] /\ P.links[k].succ = of[2]
  BY DEF LinksOf
<1> QED BY <1>1, <1>2, <1>3, <1>4

\* next is the round now with one more day of the lever of.
Further(now, next, of) ==
  /\ next.plan = Pulled(now, of)
  /\ UsedOf(next, of) = UsedOf(now, of) + 1
  /\ \A l : l # of => UsedOf(next, l) = UsedOf(now, l)

\* What is shared by the lemmas that follow: a lever pulled once more.
OneMore(plan, target, costs, pairs, now, of) ==
  /\ CompressionAsked(plan, target, costs, pairs)
  /\ IsRound(plan, target, costs, pairs, now)
  /\ WorkShortened(plan, now) /\ LinksOverlapped(plan, now)
  /\ of \in DOMAIN now.used /\ HasRoom(now, of)

\* One more day of an activity leaves a day of it.
LEMMA CrashedFurther ==
  ASSUME NEW plan, NEW target, NEW costs, NEW pairs, NEW now, NEW of,
         OneMore(plan, target, costs, pairs, now, of), IsCrash(of),
         NEW next, Further(now, next, of)
  PROVE  /\ WorkShortened(plan, next) /\ LinksOverlapped(plan, next)
         /\ of[1] \in DOMAIN plan.tasks /\ next.plan.links = now.plan.links
         /\ next.plan.tasks[of[1]].dur = now.plan.tasks[of[1]].dur - 1
         /\ \A x \in DOMAIN plan.tasks \ {of[1]} : next.plan.tasks[x] = now.plan.tasks[x]
<1>1. PICK P, Q, a : P = now.plan /\ Q = next.plan /\ a = of[1]
  OBVIOUS
<1>2. /\ a \in DOMAIN plan.tasks /\ of = <<a, 0>> /\ \A l : UsedOf(now, l) \in Nat
      /\ UsedOf(now, of) = now.used[of]
  BY <1>1, LeversAre DEF OneMore
<1>3. /\ P = [tasks |-> P.tasks, links |-> P.links]
      /\ P.tasks = [x \in DOMAIN plan.tasks |-> P.tasks[x]]
      /\ \A x \in DOMAIN plan.tasks :
           /\ P.tasks[x].dur \in Nat
           /\ P.tasks[x] = [dur   |-> plan.tasks[x].dur - UsedOf(now, <<x, 0>>),
                            floor |-> plan.tasks[x].floor, code |-> plan.tasks[x].code]
           /\ UsedOf(now, <<x, 0>>) # 0 => P.tasks[x].dur >= 1
  BY <1>1 DEF OneMore, WorkShortened
<1>4. Q = Shorter(P, a, 1) /\ P.tasks[a].dur - 1 >= 1
  <2>1. HasRoom(now, of) /\ Q = Pulled(now, of)
    BY <1>1 DEF OneMore, Further
  <2> QED BY <1>1, <2>1 DEF HasRoom, Pulled
<1>5. PICK d : d = plan.tasks[a].dur - UsedOf(now, <<a, 0>>)
  OBVIOUS
<1>6. P.tasks[a].dur = d
  <2>1. P.tasks[a] = [dur |-> d, floor |-> plan.tasks[a].floor, code |-> plan.tasks[a].code]
    BY <1>2, <1>3, <1>5
  <2> QED BY <2>1
<1>7. DOMAIN P.tasks = DOMAIN plan.tasks
  BY <1>3
<1>8. /\ Q = [tasks |-> Q.tasks, links |-> Q.links] /\ Q.links = P.links
      /\ Q.tasks = [x \in DOMAIN P.tasks |-> Q.tasks[x]]
      /\ Q.tasks[a] = [dur |-> d - 1, floor |-> plan.tasks[a].floor, code |-> plan.tasks[a].code]
      /\ Q.tasks[a].dur = d - 1
      /\ \A x \in DOMAIN P.tasks \ {a} : Q.tasks[x] = P.tasks[x]
  <2>1. IsNetwork(P) /\ a \in DOMAIN P.tasks
    BY <1>2, <1>3, <1>7 DEF IsNetwork
  <2>2. P.tasks[a] = [dur |-> d, floor |-> plan.tasks[a].floor, code |-> plan.tasks[a].code]
    BY <1>2, <1>3, <1>5
  <2>3. Q = Shorter(P, a, 1)
    BY <1>4
  <2> QED BY <2>1, <2>2, <2>3, ShorterIs
<1>9. plan.tasks[a].dur \in Nat /\ d \in Nat
  BY <1>2, <1>3, <1>6, InPlan DEF OneMore, CompressionAsked
<1>10. /\ UsedOf(next, <<a, 0>>) = UsedOf(now, <<a, 0>>) + 1
       /\ \A l : l # <<a, 0>> => UsedOf(next, l) = UsedOf(now, l)
  BY <1>2 DEF Further
<1>11. WorkShortened(plan, next)
  <2>1. ASSUME NEW x \in DOMAIN plan.tasks
        PROVE  /\ Q.tasks[x].dur \in Nat
               /\ Q.tasks[x] = [dur   |-> plan.tasks[x].dur - UsedOf(next, <<x, 0>>),
                                floor |-> plan.tasks[x].floor, code |-> plan.tasks[x].code]
               /\ UsedOf(next, <<x, 0>>) # 0 => Q.tasks[x].dur >= 1
    <3>1. CASE x = a
      <4>1. plan.tasks[a].dur - UsedOf(next, <<a, 0>>) = d - 1
        BY <1>2, <1>5, <1>9, <1>10
      <4>2. d - 1 \in Nat /\ d - 1 >= 1
        BY <1>4, <1>6, <1>9
      <4> QED BY <1>8, <3>1, <4>1, <4>2
    <3>2. CASE x # a
      <4>1. <<x, 0>> # <<a, 0>>
        BY <3>2
      <4>2. UsedOf(next, <<x, 0>>) = UsedOf(now, <<x, 0>>) /\ Q.tasks[x] = P.tasks[x]
        BY <1>7, <1>8, <1>10, <3>2, <4>1
      <4> QED BY <1>3, <4>2
    <3> QED BY <3>1, <3>2
  <2> QED BY <1>1, <1>7, <1>8, <2>1 DEF WorkShortened
<1>12. LinksOverlapped(plan, next)
  <2>1. SUFFICES ASSUME NEW k \in DOMAIN plan.links
                 PROVE  IF UsedOf(next, PairOf(plan, k)) = 0 THEN Q.links[k] = plan.links[k]
                        ELSE /\ Q.links[k] \in LinksIn(DOMAIN plan.tasks)
                             /\ Q.links[k].pred = plan.links[k].pred
                             /\ Q.links[k].succ = plan.links[k].succ
                             /\ Q.links[k].type = "SS"
                             /\ Q.tasks[plan.links[k].pred].dur - UsedOf(next, PairOf(plan, k))
                                  <= Q.links[k].lag
    <3>1. Q.links = [k \in DOMAIN plan.links |-> Q.links[k]]
      BY <1>1, <1>8 DEF OneMore, LinksOverlapped
    <3> QED BY <1>1, <2>1, <3>1 DEF LinksOverlapped
  <2>2. plan.links[k].pred \in DOMAIN plan.tasks /\ plan.links[k].succ \in DOMAIN plan.tasks
    BY InPlan DEF OneMore, CompressionAsked
  <2>3. PairOf(plan, k) # of
    <3>1. plan.links[k].succ # 0
      BY <2>2 DEF OneMore, CompressionAsked, Absent
    <3>2. PairOf(plan, k)[2] = plan.links[k].succ /\ of[2] = 0
      BY <1>2 DEF PairOf
    <3> QED BY <3>1, <3>2
  <2>4. PICK u, b : u = UsedOf(now, PairOf(plan, k)) /\ b = plan.links[k].pred
    OBVIOUS
  <2>5. UsedOf(next, PairOf(plan, k)) = u /\ u \in Nat
    BY <1>2, <2>3, <2>4 DEF Further
  <2>6. IF u = 0 THEN P.links[k] = plan.links[k]
        ELSE /\ P.links[k] \in LinksIn(DOMAIN plan.tasks)
             /\ P.links[k].pred = plan.links[k].pred
             /\ P.links[k].succ = plan.links[k].succ
             /\ P.links[k].type = "SS"
             /\ P.tasks[b].dur - u <= P.links[k].lag
    BY <1>1, <2>4 DEF OneMore, LinksOverlapped
  <2>7. Q.tasks[b].dur <= P.tasks[b].dur /\ Q.tasks[b].dur \in Int /\ P.tasks[b].dur \in Int
    <3>1. b \in DOMAIN P.tasks /\ P.tasks[b].dur \in Nat
      BY <1>3, <1>7, <2>2, <2>4
    <3>2. CASE b = a
      BY <1>6, <1>8, <1>9, <3>2
    <3>3. CASE b # a
      BY <1>8, <3>1, <3>3
    <3> QED BY <3>2, <3>3
  <2>8. u # 0 => P.links[k].lag \in Int
    BY <2>6 DEF LinksIn
  <2> QED BY <1>8, <2>4, <2>5, <2>6, <2>7, <2>8
<1> QED BY <1>1, <1>2, <1>3, <1>6, <1>7, <1>8, <1>11, <1>12

\* One more day of a pair leaves the work as it is.
LEMMA OverlappedFurther ==
  ASSUME NEW plan, NEW target, NEW costs, NEW pairs, NEW now, NEW of,
         OneMore(plan, target, costs, pairs, now, of), ~IsCrash(of),
         NEW next, Further(now, next, of)
  PROVE  /\ WorkShortened(plan, next) /\ LinksOverlapped(plan, next)
         /\ next.plan.tasks = now.plan.tasks
         /\ \A k \in DOMAIN plan.links :
              /\ PairOf(plan, k) # of => next.plan.links[k] = now.plan.links[k]
              /\ PairOf(plan, k) = of =>
                   next.plan.links[k].lag = now.plan.tasks[of[1]].dur - UsedOf(next, of)
<1>1. PICK P, Q : P = now.plan /\ Q = next.plan
  OBVIOUS
<1>2. /\ of = <<of[1], of[2]>> /\ of[2] # 0 /\ of[1] \in DOMAIN plan.tasks /\ of[2] \in DOMAIN plan.tasks
      /\ \A l : UsedOf(now, l) \in Nat
      /\ UsedOf(now, of) = now.used[of]
  BY LeversAre DEF OneMore
<1>3. /\ P = [tasks |-> P.tasks, links |-> P.links]
      /\ P.tasks = [x \in DOMAIN plan.tasks |-> P.tasks[x]]
      /\ \A x \in DOMAIN plan.tasks : P.tasks[x].dur \in Nat
  BY <1>1 DEF OneMore, WorkShortened
<1>4. P.links = [k \in DOMAIN plan.links |-> P.links[k]]
  BY <1>1 DEF OneMore, LinksOverlapped
<1>5. PICK days, lag : days = now.used[of] + 1 /\ lag = P.tasks[of[1]].dur - days
  OBVIOUS
<1>6. Q = Overlapped(P, of, days)
  BY <1>1, <1>5 DEF Further, Pulled
<1>7. /\ Q = [tasks |-> Q.tasks, links |-> Q.links] /\ Q.tasks = P.tasks
      /\ Q.links = [k \in DOMAIN P.links |-> Q.links[k]]
      /\ \A k \in DOMAIN P.links :
           IF P.links[k].pred = of[1] /\ P.links[k].succ = of[2]
           THEN Q.links[k] = SS(of[1], of[2], lag)
           ELSE Q.links[k] = P.links[k]
  BY <1>3, <1>5, <1>6, OverlappedIs
<1>8. UsedOf(next, of) = days /\ \A l : l # of => UsedOf(next, l) = UsedOf(now, l)
  BY <1>2, <1>5 DEF Further
<1>9. lag \in Int /\ days \in Nat /\ days # 0
  <2>1. now.used[of] \in Nat /\ P.tasks[of[1]].dur \in Nat
    <3>1. of[1] \in DOMAIN plan.tasks /\ UsedOf(now, of) \in Nat /\ UsedOf(now, of) = now.used[of]
      BY <1>2
    <3> QED BY <1>3, <3>1
  <2> QED BY <1>5, <2>1
<1>10. ASSUME NEW k \in DOMAIN plan.links
       PROVE  /\ P.links[k].pred = plan.links[k].pred /\ P.links[k].succ = plan.links[k].succ
              /\ PairOf(plan, k) = of <=> P.links[k].pred = of[1] /\ P.links[k].succ = of[2]
              /\ k \in DOMAIN P.links
  <2>1. P.links[k].pred = plan.links[k].pred /\ P.links[k].succ = plan.links[k].succ
    BY <1>1 DEF OneMore, LinksOverlapped
  <2>2. PairOf(plan, k) = <<plan.links[k].pred, plan.links[k].succ>>
    BY DEF PairOf
  <2>3. PairOf(plan, k) = of <=> plan.links[k].pred = of[1] /\ plan.links[k].succ = of[2]
    BY <1>2, <2>2
  <2> QED BY <1>4, <2>1, <2>3
<1>11. WorkShortened(plan, next)
  <2>1. ASSUME NEW x \in DOMAIN plan.tasks PROVE UsedOf(next, <<x, 0>>) = UsedOf(now, <<x, 0>>)
    <3>1. <<x, 0>>[2] = 0
      OBVIOUS
    <3>2. <<x, 0>> # of
      BY <1>2, <3>1
    <3> QED BY <1>8, <3>2
  <2>2. \A x \in DOMAIN plan.tasks :
          /\ Q.tasks[x].dur \in Nat
          /\ Q.tasks[x] = [dur   |-> plan.tasks[x].dur - UsedOf(next, <<x, 0>>),
                           floor |-> plan.tasks[x].floor, code |-> plan.tasks[x].code]
          /\ UsedOf(next, <<x, 0>>) # 0 => Q.tasks[x].dur >= 1
    <3>1. ASSUME NEW x \in DOMAIN plan.tasks
          PROVE  /\ P.tasks[x].dur \in Nat
                 /\ P.tasks[x] = [dur   |-> plan.tasks[x].dur - UsedOf(now, <<x, 0>>),
                                  floor |-> plan.tasks[x].floor, code |-> plan.tasks[x].code]
                 /\ UsedOf(now, <<x, 0>>) # 0 => P.tasks[x].dur >= 1
      <4>1. WorkShortened(plan, now)
        BY DEF OneMore
      <4> QED BY <1>1, <3>1, <4>1 DEF WorkShortened
    <3>2. Q.tasks = P.tasks
      BY <1>7
    <3> QED BY <2>1, <3>1, <3>2
  <2>3. Q.tasks = [x \in DOMAIN plan.tasks |-> Q.tasks[x]]
    <3>1. P.tasks = [x \in DOMAIN plan.tasks |-> P.tasks[x]]
      BY <1>3
    <3>2. Q.tasks = P.tasks
      BY <1>7
    <3> QED BY <3>1, <3>2, Zenon
  <2>4. /\ next.plan = [tasks |-> next.plan.tasks, links |-> next.plan.links]
        /\ next.plan.tasks = [x \in DOMAIN plan.tasks |-> next.plan.tasks[x]]
    BY <1>1, <1>7, <2>3
  <2>5. \A x \in DOMAIN plan.tasks :
          /\ next.plan.tasks[x].dur \in Nat
          /\ next.plan.tasks[x]
               = [dur   |-> plan.tasks[x].dur - UsedOf(next, <<x, 0>>),
                  floor |-> plan.tasks[x].floor, code |-> plan.tasks[x].code]
          /\ UsedOf(next, <<x, 0>>) # 0 => next.plan.tasks[x].dur >= 1
    BY <1>1, <2>2
  <2> QED BY <2>4, <2>5 DEF WorkShortened
<1>12. ASSUME NEW k \in DOMAIN plan.links, PairOf(plan, k) = of
       PROVE  /\ Q.links[k] \in LinksIn(DOMAIN plan.tasks) /\ Q.links[k].lag = lag
              /\ Q.links[k].pred = plan.links[k].pred /\ Q.links[k].succ = plan.links[k].succ
              /\ Q.links[k].type = "SS" /\ plan.links[k].pred = of[1]
  <2>1. Q.links[k] = [pred |-> of[1], succ |-> of[2], type |-> "SS", lag |-> lag]
    BY <1>7, <1>10, <1>12 DEF SS
  <2>2. plan.links[k].pred = of[1] /\ plan.links[k].succ = of[2]
    BY <1>10, <1>12
  <2> QED BY <1>2, <1>9, <2>1, <2>2 DEF LinksIn
<1>13. LinksOverlapped(plan, next)
  <2>1. SUFFICES ASSUME NEW k \in DOMAIN plan.links
                 PROVE  IF UsedOf(next, PairOf(plan, k)) = 0 THEN Q.links[k] = plan.links[k]
                        ELSE /\ Q.links[k] \in LinksIn(DOMAIN plan.tasks)
                             /\ Q.links[k].pred = plan.links[k].pred
                             /\ Q.links[k].succ = plan.links[k].succ
                             /\ Q.links[k].type = "SS"
                             /\ Q.tasks[plan.links[k].pred].dur - UsedOf(next, PairOf(plan, k))
                                  <= Q.links[k].lag
    <3>1. Q.links = [k \in DOMAIN plan.links |-> Q.links[k]]
      BY <1>4, <1>7
    <3> QED BY <1>1, <2>1, <3>1 DEF LinksOverlapped
  <2>2. CASE PairOf(plan, k) = of
    <3>1. P.tasks[of[1]].dur - days <= lag
      BY <1>5, <1>9
    <3> QED BY <1>7, <1>8, <1>9, <1>12, <2>2, <3>1
  <2>3. CASE PairOf(plan, k) # of
    <3>1. Q.links[k] = P.links[k] /\ UsedOf(next, PairOf(plan, k)) = UsedOf(now, PairOf(plan, k))
      BY <1>7, <1>8, <1>10, <2>3
    <3>2. PICK u, b : u = UsedOf(now, PairOf(plan, k)) /\ b = plan.links[k].pred
      OBVIOUS
    <3>3. IF u = 0 THEN P.links[k] = plan.links[k]
          ELSE /\ P.links[k] \in LinksIn(DOMAIN plan.tasks)
               /\ P.links[k].pred = plan.links[k].pred
               /\ P.links[k].succ = plan.links[k].succ
               /\ P.links[k].type = "SS"
               /\ P.tasks[b].dur - u <= P.links[k].lag
      BY <1>1, <3>2 DEF OneMore, LinksOverlapped
    <3> QED BY <1>7, <3>1, <3>2, <3>3
  <2> QED BY <2>2, <2>3
<1> QED BY <1>1, <1>5, <1>7, <1>8, <1>10, <1>11, <1>12, <1>13

\* A lever with room can be pulled, and what comes of it is a plan.
LEMMA CanGoFurther ==
  ASSUME NEW plan, NEW target, NEW costs, NEW pairs, NEW now, NEW of,
         OneMore(plan, target, costs, pairs, now, of)
  PROVE  \E next : /\ Further(now, next, of) /\ \A l : UsedOf(next, l) \in Nat
                   /\ WorkShortened(plan, next) /\ LinksOverlapped(plan, next)
<1>1. PICK next : next = [plan |-> Pulled(now, of), used |-> [now.used EXCEPT ![of] = @ + 1]]
  OBVIOUS
<1>2. next.plan = Pulled(now, of) /\ next.used = [now.used EXCEPT ![of] = @ + 1]
  BY <1>1
<1>3. of \in DOMAIN now.used /\ now.used[of] \in Nat /\ \A l : UsedOf(now, l) \in Nat
  BY LeversAre DEF OneMore
<1>4. UsedOf(next, of) = UsedOf(now, of) + 1 /\ \A l : l # of => UsedOf(next, l) = UsedOf(now, l)
  BY <1>2, <1>3 DEF UsedOf
<1>5. Further(now, next, of)
  BY <1>2, <1>4 DEF Further
<1>6. WorkShortened(plan, next) /\ LinksOverlapped(plan, next)
  BY <1>5, CrashedFurther, OverlappedFurther
<1>7. \A l : UsedOf(next, l) \in Nat
  BY <1>3, <1>4
<1> QED BY <1>5, <1>6, <1>7

\* A lever pulled gives a plan again.
LEMMA PulledIsPlan ==
  ASSUME NEW plan, NEW target, NEW costs, NEW pairs, NEW now, NEW of,
         OneMore(plan, target, costs, pairs, now, of)
  PROVE  IsPlan(Pulled(now, of)) /\ FinishDay(Pulled(now, of)) \in Int
<1>1. PICK next : /\ Further(now, next, of) /\ \A l : UsedOf(next, l) \in Nat
                  /\ WorkShortened(plan, next) /\ LinksOverlapped(plan, next)
  BY CanGoFurther
<1>2. IsPlan(plan)
  BY DEF OneMore, CompressionAsked
<1>3. IsPlan(next.plan)
  BY <1>1, <1>2, RoundIsPlan
<1>4. IsPlan(Pulled(now, of))
  BY <1>1, <1>3 DEF Further
<1> QED BY <1>4, FinishIs

\* What is offered is a lever with room that moves the finish.
LEMMA OfferIs ==
  ASSUME NEW now, NEW o \in Offers(now)
  PROVE  /\ o.of \in DOMAIN now.used /\ HasRoom(now, o.of)
         /\ o.days = now.used[o.of] + 1 /\ o.before = now.end
         /\ o.cost = IF IsCrash(o.of) THEN now.costs[o.of[1]].cost ELSE 0
         /\ o.after = FinishDay(Pulled(now, o.of)) /\ o.after < o.before
<1>1. PICK of \in DOMAIN now.used :
        /\ HasRoom(now, of)
        /\ o = [of |-> of, days |-> now.used[of] + 1,
                cost |-> IF IsCrash(of) THEN now.costs[of[1]].cost ELSE 0,
                before |-> now.end, after |-> FinishDay(Pulled(now, of))]
        /\ o.after < o.before
  BY DEF Offers
<1>2. /\ o.of = of /\ o.days = now.used[of] + 1 /\ o.before = now.end
      /\ o.cost = IF IsCrash(of) THEN now.costs[of[1]].cost ELSE 0
      /\ o.after = FinishDay(Pulled(now, of))
  BY <1>1
<1> QED BY <1>1, <1>2

\* An overlap that moves the finish is offered, for nothing.
LEMMA OverlapIsOffered ==
  ASSUME NEW now, NEW of \in DOMAIN now.used, ~IsCrash(of), HasRoom(now, of),
         FinishDay(Pulled(now, of)) < now.end
  PROVE  \E o \in Offers(now) : /\ o.of = of /\ o.cost = 0 /\ o.before = now.end
                                /\ o.after = FinishDay(Pulled(now, of))
<1>1. PICK cost, days, after : /\ cost = (IF IsCrash(of) THEN now.costs[of[1]].cost ELSE 0)
                               /\ days = now.used[of] + 1 /\ after = FinishDay(Pulled(now, of))
  OBVIOUS
<1>2. PICK o : o = [of |-> of, days |-> days, cost |-> cost, before |-> now.end, after |-> after]
  OBVIOUS
<1>3. /\ o.of = of /\ o.cost = cost /\ o.before = now.end /\ o.after = after /\ cost = 0
  BY <1>1, <1>2
<1>4. o \in Offers(now)
  <2>1. o \in {[of |-> l, days |-> now.used[l] + 1,
                cost |-> IF IsCrash(l) THEN now.costs[l[1]].cost ELSE 0,
                before |-> now.end, after |-> FinishDay(Pulled(now, l))] :
                  l \in {l \in DOMAIN now.used : HasRoom(now, l)}}
    BY <1>1, <1>2
  <2>2. o.after < o.before
    BY <1>1, <1>3
  <2> QED BY <2>1, <2>2 DEF Offers
<1> QED BY <1>1, <1>3, <1>4

\* What is paid for is more than nothing.
LEMMA PaidIsMore ==
  ASSUME NEW c \in Int, NEW d \in Int, c > 0, d > 0, NEW e \in Int
  PROVE  ~(c * d < 0 * e) /\ ~(c * d = 0 * e)
<1>1. 0 * e = 0
  OBVIOUS
<1>2. c * d > 0
  OBVIOUS
<1> QED BY <1>1, <1>2

\* Money is spent once no overlap moves the finish.
LEMMA OverlapsFirst ==
  ASSUME NEW plan, NEW target, NEW costs, NEW pairs, CompressionAsked(plan, target, costs, pairs),
         NEW now, IsRound(plan, target, costs, pairs, now),
         WorkShortened(plan, now), LinksOverlapped(plan, now),
         (\A a \in DOMAIN costs : costs[a].cost > 0) \/ pairs = {},
         NEW o, IsBestOffer(now, o), IsCrash(o.of)
  PROVE  ~OverlapsPay(now)
<1>1. SUFFICES ASSUME NEW of \in DOMAIN now.used, ~IsCrash(of), HasRoom(now, of),
                      FinishDay(Pulled(now, of)) < now.end
               PROVE  FALSE
  BY DEF OverlapsPay
<1>2. of \in pairs /\ now.costs = costs
  BY <1>1, LeversAre
<1>3. PICK p \in Offers(now) : /\ p.of = of /\ p.cost = 0 /\ p.before = now.end
                               /\ p.after = FinishDay(Pulled(now, of))
  BY <1>1, OverlapIsOffered
<1>4. /\ o \in Offers(now) /\ o.of \in DOMAIN now.used /\ o.before = now.end
      /\ o.after \in Int
      /\ o.cost = costs[o.of[1]].cost /\ HasRoom(now, o.of)
  <2>1. o \in Offers(now)
    BY DEF IsBestOffer
  <2>2. /\ o.of \in DOMAIN now.used /\ HasRoom(now, o.of) /\ o.before = now.end
        /\ o.cost = IF IsCrash(o.of) THEN now.costs[o.of[1]].cost ELSE 0
        /\ o.after = FinishDay(Pulled(now, o.of))
    BY <2>1, OfferIs
  <2>3. OneMore(plan, target, costs, pairs, now, o.of)
    BY <2>2 DEF OneMore
  <2> QED BY <1>2, <2>1, <2>2, <2>3, PulledIsPlan
<1>5. o.of[1] \in DOMAIN costs
  BY <1>4, LeversAre
<1>6. o.cost \in Int /\ o.cost > 0
  BY <1>2, <1>4, <1>5 DEF CompressionAsked
<1>7. p.after \in Int
  <2>1. OneMore(plan, target, costs, pairs, now, of)
    BY <1>1 DEF OneMore
  <2> QED BY <1>3, <2>1, PulledIsPlan
<1>8. now.end \in Int
  <2>1. IsPlan(plan) /\ \A l : UsedOf(now, l) \in Nat
    BY LeversAre DEF CompressionAsked
  <2>2. IsPlan(now.plan)
    BY <2>1, RoundIsPlan
  <2> QED BY <2>2, FinishIs DEF IsRound
<1>9. IsCheaper(o, p)
  BY DEF IsBestOffer
<1>10. PICK d, e : d = p.before - p.after /\ e = o.before - o.after
  OBVIOUS
<1>11. d \in Int /\ d > 0 /\ e \in Int
  BY <1>1, <1>3, <1>4, <1>7, <1>8, <1>10
<1>12. o.cost * d < 0 * e \/ o.cost * d = 0 * e
  BY <1>3, <1>9, <1>10 DEF IsCheaper
<1> QED BY <1>6, <1>11, <1>12, PaidIsMore

\* What is delivered changes by a day of the work that is shortened.
LEMMA DeliveredADayLess ==
  ASSUME NEW plan, NEW target, NEW costs, NEW pairs, NEW now, NEW of,
         OneMore(plan, target, costs, pairs, now, of), IsCrash(of),
         NEW next, Further(now, next, of)
  PROVE  OneDayLess(Delivered(plan, now), Delivered(plan, next), of[1])
<1>1. PICK D, E, b : D = Delivered(plan, now) /\ E = Delivered(plan, next) /\ b = of[1]
  OBVIOUS
<1>2. IsPlan(plan) /\ \A l : UsedOf(now, l) \in Nat /\ UsedOf(next, l) \in Nat
  <2>1. \A l : UsedOf(now, l) \in Nat
    BY LeversAre DEF OneMore
  <2>2. IsPlan(plan)
    BY DEF OneMore, CompressionAsked
  <2> QED BY <2>1, <2>2 DEF Further
<1>3. /\ WorkShortened(plan, next) /\ LinksOverlapped(plan, next)
      /\ b \in DOMAIN plan.tasks
      /\ next.plan.tasks[b].dur = now.plan.tasks[b].dur - 1
      /\ \A x \in DOMAIN plan.tasks \ {b} : next.plan.tasks[x] = now.plan.tasks[x]
  BY <1>1, CrashedFurther
<1>4. Reshaped(plan, D) /\ Reshaped(plan, E)
  <2>1. WorkShortened(plan, now) /\ LinksOverlapped(plan, now)
    BY DEF OneMore
  <2> QED BY <1>1, <1>2, <1>3, <2>1, RoundIsPlan
<1>5. Reshaped(D, E) /\ DOMAIN D.tasks = DOMAIN plan.tasks /\ DOMAIN D.links = DOMAIN plan.links
  <2>1. Reshaped(D, E)
    BY <1>4, ReshapedAlike
  <2> QED BY <1>4, <2>1 DEF Reshaped
<1>6. D.tasks = now.plan.tasks /\ E.tasks = next.plan.tasks
  BY <1>1 DEF Delivered
<1>7. ASSUME NEW k \in DOMAIN plan.links
      PROVE  /\ E.links[k].type = D.links[k].type
             /\ \/ E.links[k].lag = D.links[k].lag
                \/ /\ D.links[k].pred = b /\ D.links[k].type = "SS"
                   /\ E.links[k].lag = D.links[k].lag - 1
  <2>1. plan.links[k].pred \in DOMAIN plan.tasks /\ plan.links[k].succ \in DOMAIN plan.tasks
    BY <1>2, InPlan
  <2>2. PairOf(plan, k) # of
    <3>1. plan.links[k].succ # 0
      BY <2>1 DEF OneMore, CompressionAsked, Absent
    <3>2. PairOf(plan, k)[2] = plan.links[k].succ /\ of[2] = 0
      BY DEF PairOf, IsCrash
    <3> QED BY <3>1, <3>2
  <2>3. PICK u, a, c, s, t : /\ u = UsedOf(now, PairOf(plan, k))
                             /\ a = plan.links[k].pred /\ c = plan.links[k].succ
                             /\ s = now.plan.tasks[a].dur /\ t = next.plan.tasks[a].dur
    OBVIOUS
  <2>4. UsedOf(next, PairOf(plan, k)) = u /\ u \in Nat
    BY <1>2, <2>2, <2>3 DEF Further
  <2>5. /\ D.links[k] = IF u = 0 THEN plan.links[k] ELSE SS(a, c, s - u)
        /\ E.links[k] = IF u = 0 THEN plan.links[k] ELSE SS(a, c, t - u)
    BY <1>1, <2>3, <2>4 DEF Delivered
  <2>6. s \in Int /\ t = IF a = b THEN s - 1 ELSE s
    <3>1. s \in Nat
      BY <2>1, <2>3 DEF OneMore, WorkShortened
    <3>2. CASE a = b
      BY <1>3, <2>3, <3>1, <3>2
    <3>3. CASE a # b
      <4>1. next.plan.tasks[a] = now.plan.tasks[a]
        BY <1>3, <2>1, <2>3, <3>3
      <4> QED BY <2>3, <3>1, <3>3, <4>1
    <3> QED BY <3>2, <3>3
  <2>7. CASE u = 0
    BY <2>5, <2>7
  <2>8. CASE u # 0
    <3>1. /\ D.links[k].pred = a /\ D.links[k].type = "SS" /\ D.links[k].lag = s - u
          /\ E.links[k].type = "SS" /\ E.links[k].lag = t - u
      BY <2>5, <2>8 DEF SS
    <3> QED BY <2>4, <2>6, <3>1
  <2> QED BY <2>7, <2>8
<1>8. E.tasks[b].dur = D.tasks[b].dur - 1 /\ \A a \in DOMAIN D.tasks \ {b} : E.tasks[a].dur = D.tasks[a].dur
  BY <1>3, <1>5, <1>6
<1>9. OneDayLess(D, E, b)
  BY <1>3, <1>5, <1>7, <1>8 DEF OneDayLess
<1> QED BY <1>1, <1>9

\* Once no overlap moves the finish, work that is shortened does not make one do so.
LEMMA OverlapsStayIdle ==
  ASSUME NEW plan, NEW target, NEW costs, NEW pairs, NEW now, NEW of,
         OneMore(plan, target, costs, pairs, now, of), IsCrash(of),
         NEW next, Further(now, next, of), IsRound(plan, target, costs, pairs, next),
         next.end < now.end, ~OverlapsPay(now)
  PROVE  ~OverlapsPay(next)
<1>1. SUFFICES ASSUME NEW l \in DOMAIN next.used, ~IsCrash(l), HasRoom(next, l),
                      FinishDay(Pulled(next, l)) < next.end
               PROVE  FALSE
  BY DEF OverlapsPay
<1>2. /\ IsPlan(plan) /\ CompressionAsked(plan, target, costs, pairs)
      /\ IsRound(plan, target, costs, pairs, now)
      /\ WorkShortened(plan, now) /\ LinksOverlapped(plan, now)
  BY DEF OneMore, CompressionAsked
<1>3. PICK b : b = of[1]
  OBVIOUS
<1>4. /\ WorkShortened(plan, next) /\ LinksOverlapped(plan, next)
      /\ b \in DOMAIN plan.tasks /\ next.plan.links = now.plan.links
      /\ next.plan.tasks[b].dur = now.plan.tasks[b].dur - 1
      /\ \A x \in DOMAIN plan.tasks \ {b} : next.plan.tasks[x] = now.plan.tasks[x]
  BY <1>3, CrashedFurther
<1>5. /\ l \in DOMAIN now.used /\ l \in pairs /\ l # of /\ l[1] \in DOMAIN plan.tasks
      /\ l = <<l[1], l[2]>>
      /\ next.used[l] = now.used[l] /\ now.used[l] \in Nat
      /\ \A x : UsedOf(now, x) \in Nat /\ UsedOf(next, x) \in Nat
      /\ UsedOf(now, l) = now.used[l] /\ UsedOf(next, l) = now.used[l]
  <2>1. /\ DOMAIN now.used = Levers(costs, pairs)
        /\ \A x \in DOMAIN now.used : now.used[x] \in Nat /\ UsedOf(now, x) = now.used[x]
        /\ \A x : UsedOf(now, x) \in Nat
    BY <1>2, LeversAre
  <2>2. /\ DOMAIN next.used = Levers(costs, pairs)
        /\ \A x \in DOMAIN next.used : UsedOf(next, x) = next.used[x]
        /\ \A x : UsedOf(next, x) \in Nat
        /\ \A x \in DOMAIN next.used : ~IsCrash(x) =>
             x \in pairs /\ x = <<x[1], x[2]>> /\ x[1] \in DOMAIN plan.tasks
    BY <1>2, LeversAre
  <2>3. l # of
    BY <1>1
  <2>4. UsedOf(next, l) = UsedOf(now, l)
    BY <2>3 DEF Further
  <2> QED BY <1>1, <2>1, <2>2, <2>3, <2>4
<1>6. /\ next.plan.tasks[l[1]].dur \in Nat /\ now.plan.tasks[l[1]].dur \in Nat
      /\ next.plan.tasks[l[1]].dur
           = (IF l[1] = b THEN now.plan.tasks[l[1]].dur - 1 ELSE now.plan.tasks[l[1]].dur)
  <2>1. next.plan.tasks[l[1]].dur \in Nat
    BY <1>4, <1>5 DEF WorkShortened
  <2>2. now.plan.tasks[l[1]].dur \in Nat
    BY <1>2, <1>5 DEF WorkShortened
  <2>3. CASE l[1] = b
    BY <1>4, <2>1, <2>2, <2>3
  <2>4. CASE l[1] # b
    <3>1. next.plan.tasks[l[1]] = now.plan.tasks[l[1]]
      BY <1>4, <1>5, <2>4
    <3> QED BY <2>1, <2>2, <2>4, <3>1
  <2> QED BY <2>3, <2>4
<1>7. HasRoom(now, l)
  <2>1. next.used[l] < next.plan.tasks[l[1]].dur - 1
    BY <1>1 DEF HasRoom
  <2>2. now.used[l] < now.plan.tasks[l[1]].dur - 1
    BY <1>5, <1>6, <2>1
  <2> QED BY <1>1, <2>2 DEF HasRoom
<1>8. ~(FinishDay(Pulled(now, l)) < now.end)
  BY <1>1, <1>5, <1>7 DEF OverlapsPay
<1>9. /\ OneMore(plan, target, costs, pairs, now, l)
      /\ OneMore(plan, target, costs, pairs, next, l)
  BY <1>1, <1>2, <1>4, <1>5, <1>7 DEF OneMore
<1>10. PICK m : Further(now, m, l) /\ \A x : UsedOf(m, x) \in Nat
  BY <1>9, CanGoFurther
<1>11. PICK n : Further(next, n, l) /\ \A x : UsedOf(n, x) \in Nat
  BY <1>9, CanGoFurther
<1>12. PICK p, q : p = m.plan /\ q = n.plan
  OBVIOUS
<1>13. /\ WorkShortened(plan, m) /\ LinksOverlapped(plan, m) /\ p.tasks = now.plan.tasks
       /\ \A k \in DOMAIN plan.links :
            /\ PairOf(plan, k) # l => p.links[k] = now.plan.links[k]
            /\ PairOf(plan, k) = l => p.links[k].lag = now.plan.tasks[l[1]].dur - UsedOf(m, l)
  BY <1>1, <1>9, <1>10, <1>12, OverlappedFurther
<1>14. /\ WorkShortened(plan, n) /\ LinksOverlapped(plan, n) /\ q.tasks = next.plan.tasks
       /\ \A k \in DOMAIN plan.links :
            /\ PairOf(plan, k) # l => q.links[k] = next.plan.links[k]
            /\ PairOf(plan, k) = l => q.links[k].lag = next.plan.tasks[l[1]].dur - UsedOf(n, l)
  BY <1>1, <1>9, <1>11, <1>12, OverlappedFurther
<1>15. Reshaped(plan, p) /\ Reshaped(plan, q) /\ IsPlan(p) /\ IsPlan(q)
  BY <1>2, <1>10, <1>11, <1>12, <1>13, <1>14, RoundIsPlan
<1>16. Reshaped(p, q) /\ DOMAIN p.tasks = DOMAIN plan.tasks /\ DOMAIN p.links = DOMAIN plan.links
  <2>1. Reshaped(p, q)
    BY <1>15, ReshapedAlike
  <2> QED BY <1>15, <2>1 DEF Reshaped
<1>17. UsedOf(m, l) = now.used[l] + 1 /\ UsedOf(n, l) = now.used[l] + 1
  BY <1>5, <1>10, <1>11 DEF Further
<1>18. ASSUME NEW k \in DOMAIN plan.links
       PROVE  /\ q.links[k].type = p.links[k].type
              /\ \/ q.links[k].lag = p.links[k].lag
                 \/ /\ p.links[k].pred = b /\ p.links[k].type = "SS"
                    /\ q.links[k].lag = p.links[k].lag - 1
  <2>1. CASE PairOf(plan, k) # l
    <3>1. p.links[k] = now.plan.links[k] /\ q.links[k] = next.plan.links[k]
      BY <1>13, <1>14, <2>1
    <3> QED BY <1>4, <3>1
  <2>2. CASE PairOf(plan, k) = l
    <3>1. UsedOf(m, PairOf(plan, k)) # 0 /\ UsedOf(n, PairOf(plan, k)) # 0
      BY <1>5, <1>17, <2>2
    <3>2. p.links[k].type = "SS" /\ p.links[k].pred = plan.links[k].pred
      BY <1>12, <1>13, <3>1 DEF LinksOverlapped
    <3>3. q.links[k].type = "SS"
      BY <1>12, <1>14, <3>1 DEF LinksOverlapped
    <3>4. l[1] = plan.links[k].pred
      BY <2>2 DEF PairOf
    <3>5. /\ p.links[k].lag = now.plan.tasks[l[1]].dur - (now.used[l] + 1)
          /\ q.links[k].lag = next.plan.tasks[l[1]].dur - (now.used[l] + 1)
      BY <1>13, <1>14, <1>17, <2>2
    <3> QED BY <1>5, <1>6, <3>2, <3>3, <3>4, <3>5
  <2> QED BY <2>1, <2>2
<1>19. OneDayLess(p, q, b)
  <2>1. b \in DOMAIN p.tasks /\ q.tasks[b].dur = p.tasks[b].dur - 1
    BY <1>4, <1>13, <1>14, <1>16
  <2>2. \A a \in DOMAIN p.tasks \ {b} : q.tasks[a].dur = p.tasks[a].dur
    BY <1>4, <1>13, <1>14, <1>16
  <2> QED BY <1>16, <1>18, <2>1, <2>2 DEF OneDayLess
<1>20. FinishDay(p) <= FinishDay(q) + 1 /\ FinishDay(p) \in Int /\ FinishDay(q) \in Int
  BY <1>15, <1>19, ADayAtMost, FinishIs
<1>21. FinishDay(p) >= now.end /\ FinishDay(q) < next.end /\ now.end \in Int /\ next.end \in Int
  <2>1. p = Pulled(now, l) /\ q = Pulled(next, l)
    BY <1>10, <1>11, <1>12 DEF Further
  <2>2. IsPlan(now.plan) /\ IsPlan(next.plan)
    BY <1>2, <1>4, <1>5, RoundIsPlan
  <2>3. now.end \in Int /\ next.end \in Int
    BY <1>2, <2>2, FinishIs DEF IsRound
  <2> QED BY <1>1, <1>8, <1>20, <2>1, <2>3
<1> QED BY <1>20, <1>21

Round(original, plan, target, costs, end, used, options) ==
  [original |-> original, plan |-> plan, target |-> target, costs |-> costs,
   end |-> end, used |-> used, options |-> options]

Changed(now, next, plan, end, used, options) ==
  next = [now EXCEPT !.plan = plan, !.end = end, !.used = used, !.options = options]

\* A round with some of its fields changed.
LEMMA RoundChanged ==
  ASSUME NEW pl, NEW p, NEW t, NEW c, NEW e, NEW u, NEW os, NEW P, NEW E, NEW U, NEW OS,
         NEW now, now = Round(pl, p, t, c, e, u, os),
         NEW next, Changed(now, next, P, E, U, OS)
  PROVE  next = Round(pl, P, t, c, E, U, OS)
BY Zenon DEF Round, Changed

\* What a day bought changes.
LEMMA BoughtIs ==
  ASSUME NEW plan, NEW target, NEW costs, NEW pairs, CompressionAsked(plan, target, costs, pairs),
         NEW now, IsRound(plan, target, costs, pairs, now),
         NEW o, o.of \in DOMAIN now.used, o.days = now.used[o.of] + 1,
         NEW next, next = Bought(now, o)
  PROVE  /\ Further(now, next, o.of) /\ next.plan = Pulled(now, o.of) /\ next.end = o.after
         /\ next.options = Append(now.options, o) /\ DOMAIN next.used = DOMAIN now.used
         /\ next.used[o.of] = now.used[o.of] + 1
         /\ \A l \in DOMAIN now.used \ {o.of} : next.used[l] = now.used[l]
         /\ IsRound(plan, target, costs, pairs, next) <=> next.end = FinishDay(next.plan)
<1>1. /\ now = [original |-> plan, plan |-> now.plan, target |-> target, costs |-> costs,
                end |-> now.end, used |-> now.used, options |-> now.options]
      /\ now.used = [of \in Levers(costs, pairs) |-> now.used[of]]
      /\ \A of \in Levers(costs, pairs) : now.used[of] \in Nat
  BY DEF IsRound
<1>2. PICK used, P, end, options : /\ used = [now.used EXCEPT ![o.of] = o.days]
                                   /\ P = Pulled(now, o.of) /\ end = o.after
                                   /\ options = Append(now.options, o)
  OBVIOUS
<1>3. next = [original |-> plan, plan |-> P, target |-> target, costs |-> costs,
              end |-> end, used |-> used, options |-> options]
  <2>1. next = [now EXCEPT !.plan = P, !.end = end, !.used = used, !.options = options]
    BY <1>2 DEF Bought
  <2>2. Changed(now, next, P, end, used, options)
    BY <2>1 DEF Changed
  <2>3. now = Round(plan, now.plan, target, costs, now.end, now.used, now.options)
    BY <1>1 DEF Round
  <2>4. next = Round(plan, P, target, costs, end, used, options)
    BY <2>2, <2>3, RoundChanged
  <2> QED BY <2>4 DEF Round
<1>4. next.plan = P /\ next.end = end /\ next.used = used /\ next.options = options
  BY <1>3
<1>5. /\ DOMAIN used = DOMAIN now.used /\ used[o.of] = now.used[o.of] + 1
      /\ \A l \in DOMAIN now.used \ {o.of} : used[l] = now.used[l]
      /\ used = [of \in Levers(costs, pairs) |-> used[of]]
  BY <1>1, <1>2
<1>6. \A of \in Levers(costs, pairs) : used[of] \in Nat
  <2>1. DOMAIN now.used = Levers(costs, pairs)
    BY <1>1
  <2> QED BY <1>1, <1>5, <2>1
<1>7. Further(now, next, o.of)
  BY <1>2, <1>4, <1>5 DEF Further, UsedOf
<1>8. IsRound(plan, target, costs, pairs, next) <=> next.end = FinishDay(next.plan)
  BY <1>3, <1>4, <1>5, <1>6 DEF IsRound
<1> QED BY <1>2, <1>4, <1>5, <1>7, <1>8

\* What is known of each option bought so far, of each lever used and of the end.
OptionsSoFar(plan, target, costs, now) ==
  /\ \A n \in DOMAIN now.options :
       /\ now.options[n].of \in DOMAIN now.used /\ now.options[n].days \in Int
       /\ 1 <= now.options[n].days /\ now.options[n].days <= now.used[now.options[n].of]
       /\ now.options[n].before = (IF n = 1 THEN FinishDay(plan) ELSE now.options[n - 1].after)
       /\ now.options[n].after < now.options[n].before
       /\ IsCrash(now.options[n].of) => now.options[n].days <= costs[now.options[n].of[1]].max
       /\ FinishDay(plan) - now.options[n].before < target
  /\ \A of \in DOMAIN now.used : now.used[of] # 0 =>
       \E n \in DOMAIN now.options : now.options[n].of = of /\ now.options[n].days = now.used[of]
  /\ now.end = (IF Len(now.options) = 0 THEN FinishDay(plan)
                ELSE now.options[Len(now.options)].after)

\* It is what is bought so far says of them.
LEMMA SoFarIs ==
  ASSUME NEW plan, NEW target, NEW costs, NEW now, BoughtSoFar(plan, target, costs, now)
  PROVE  OptionsSoFar(plan, target, costs, now)
BY Zenon DEF BoughtSoFar, OptionsSoFar

\* The options after a day bought.
LEMMA BoughtFurther ==
  ASSUME NEW plan, NEW target \in Int, NEW costs, NEW pairs, CompressionAsked(plan, target, costs, pairs),
         NEW now, IsRound(plan, target, costs, pairs, now), BoughtSoFar(plan, target, costs, now),
         Saved(now) < target, NEW o \in Offers(now),
         NEW next, next = Bought(now, o)
  PROVE  BoughtSoFar(plan, target, costs, next)
<1>1. /\ o.of \in DOMAIN now.used /\ HasRoom(now, o.of)
      /\ o.days = now.used[o.of] + 1 /\ o.before = now.end /\ o.after < o.before
  BY OfferIs
<1>2. PICK s, t, N : s = now.options /\ t = next.options /\ N = Len(s)
  OBVIOUS
<1>3. /\ next.end = o.after /\ t = Append(s, o) /\ DOMAIN next.used = DOMAIN now.used
      /\ next.used[o.of] = now.used[o.of] + 1
      /\ \A l \in DOMAIN now.used \ {o.of} : next.used[l] = now.used[l]
  BY <1>1, <1>2, BoughtIs
<1>4. /\ \A l \in DOMAIN now.used : now.used[l] \in Nat
      /\ \A l \in DOMAIN now.used : IsCrash(l) => l[1] \in DOMAIN costs
      /\ now.costs = costs /\ now.original = plan
  BY LeversAre
<1>0. s = [n \in 1..N |-> s[n]] /\ N \in Nat
  BY <1>2 DEF BoughtSoFar
<1>5. /\ DOMAIN s = 1..N /\ N \in Nat
      /\ \A n \in 1..N :
           /\ s[n].of \in DOMAIN now.used /\ s[n].days \in Int
           /\ 1 <= s[n].days /\ s[n].days <= now.used[s[n].of]
           /\ s[n].before = (IF n = 1 THEN FinishDay(plan) ELSE s[n - 1].after)
           /\ s[n].after < s[n].before
           /\ IsCrash(s[n].of) => s[n].days <= costs[s[n].of[1]].max
           /\ FinishDay(plan) - s[n].before < target
      /\ \A of \in DOMAIN now.used : now.used[of] # 0 =>
           \E n \in 1..N : s[n].of = of /\ s[n].days = now.used[of]
      /\ now.end = (IF N = 0 THEN FinishDay(plan) ELSE s[N].after)
  <2>1. DOMAIN s = 1..N
    BY <1>0
  <2>2. N \in Nat
    BY <1>0
  <2>3. OptionsSoFar(plan, target, costs, now)
    BY SoFarIs
  <2>4. /\ \A n \in DOMAIN s :
           /\ s[n].of \in DOMAIN now.used /\ s[n].days \in Int
           /\ 1 <= s[n].days /\ s[n].days <= now.used[s[n].of]
           /\ s[n].before = (IF n = 1 THEN FinishDay(plan) ELSE s[n - 1].after)
           /\ s[n].after < s[n].before
           /\ IsCrash(s[n].of) => s[n].days <= costs[s[n].of[1]].max
           /\ FinishDay(plan) - s[n].before < target
        /\ \A of \in DOMAIN now.used : now.used[of] # 0 =>
             \E n \in DOMAIN s : s[n].of = of /\ s[n].days = now.used[of]
        /\ now.end = (IF N = 0 THEN FinishDay(plan) ELSE s[N].after)
    BY <1>2, <2>3 DEF OptionsSoFar
  <2> QED BY <2>1, <2>2, <2>4
<1>11. t = [n \in 1..(N + 1) |-> t[n]] /\ Len(t) = N + 1 /\ t[N + 1] = o /\ \A n \in 1..N : t[n] = s[n]
  <2>1. PICK X : X = {s[n] : n \in 1..N} \cup {o}
    OBVIOUS
  <2>2. s \in Seq(X) /\ o \in X
    BY <1>0, <2>1
  <2>3. t \in Seq(X) /\ Len(t) = N + 1 /\ t[N + 1] = o /\ \A n \in 1..N : t[n] = s[n]
    BY <1>2, <1>3, <2>2
  <2> QED BY <1>0, <2>3
<1>6. /\ Len(t) = N + 1 /\ t[N + 1] = o /\ \A n \in 1..N : t[n] = s[n]
      /\ DOMAIN s = 1..N /\ DOMAIN t = 1..(N + 1)
  BY <1>5, <1>11
<1>7. ASSUME NEW n \in DOMAIN t
      PROVE  /\ t[n].of \in DOMAIN next.used /\ t[n].days \in Int
             /\ 1 <= t[n].days /\ t[n].days <= next.used[t[n].of]
             /\ t[n].before = (IF n = 1 THEN FinishDay(plan) ELSE t[n - 1].after)
             /\ t[n].after < t[n].before
             /\ IsCrash(t[n].of) => t[n].days <= costs[t[n].of[1]].max
             /\ FinishDay(plan) - t[n].before < target
  <2>1. CASE n \in 1..N
    <3>1. t[n] = s[n] /\ (n # 1 => t[n - 1] = s[n - 1])
      <4>1. \A m \in 1..N : t[m] = s[m]
        BY <1>6
      <4>2. n # 1 => n - 1 \in 1..N
        BY <1>0, <2>1
      <4> QED BY <2>1, <4>1, <4>2
    <3>2. PICK l : l = s[n].of
      OBVIOUS
    <3>3. l \in DOMAIN now.used /\ now.used[l] <= next.used[l] /\ next.used[l] \in Int /\ now.used[l] \in Int
      <4>1. l \in DOMAIN now.used /\ now.used[l] \in Nat
        BY <1>4, <1>5, <1>6, <2>1, <3>2
      <4> QED BY <1>3, <4>1
    <3>4. /\ s[n].days \in Int /\ 1 <= s[n].days /\ s[n].days <= now.used[l]
          /\ s[n].before = (IF n = 1 THEN FinishDay(plan) ELSE s[n - 1].after)
          /\ s[n].after < s[n].before
          /\ IsCrash(l) => s[n].days <= costs[l[1]].max
          /\ FinishDay(plan) - s[n].before < target
      BY <1>5, <2>1, <3>2
    <3>5. t[n].of \in DOMAIN next.used /\ s[n].days <= next.used[l]
      BY <1>3, <3>1, <3>2, <3>3, <3>4
    <3>6. t[n].before = (IF n = 1 THEN FinishDay(plan) ELSE t[n - 1].after)
      BY <3>1, <3>4
    <3> QED BY <3>1, <3>2, <3>4, <3>5, <3>6
  <2>2. CASE n = N + 1
    <3>1. now.used[o.of] \in Nat /\ t[n] = o
      BY <1>1, <1>4, <1>6, <2>2
    <3>2. o.before = (IF n = 1 THEN FinishDay(plan) ELSE t[n - 1].after)
      <4>1. CASE N = 0
        BY <1>1, <1>5, <2>2, <4>1
      <4>2. CASE N # 0
        <5>1. N \in 1..N /\ n - 1 = N /\ n # 1
          BY <1>5, <2>2, <4>2
        <5> QED BY <1>1, <1>5, <1>6, <4>2, <5>1
      <4> QED BY <4>1, <4>2
    <3>3. IsCrash(o.of) => o.days <= costs[o.of[1]].max
      <4>1. SUFFICES ASSUME IsCrash(o.of) PROVE o.days <= costs[o.of[1]].max
        OBVIOUS
      <4>2. now.used[o.of] < costs[o.of[1]].max
        BY <1>1, <1>4, <4>1 DEF HasRoom
      <4>3. costs[o.of[1]].max \in Int
        BY <1>1, <1>4, <4>1 DEF CompressionAsked
      <4> QED BY <1>1, <3>1, <4>2, <4>3
    <3>4. FinishDay(plan) - o.before < target
      BY <1>1, <1>4 DEF Saved
    <3> QED BY <1>1, <1>3, <3>1, <3>2, <3>3, <3>4
  <2>3. n \in 1..N \/ n = N + 1
    BY <1>5, <1>6
  <2> QED BY <2>1, <2>2, <2>3
<1>8. ASSUME NEW of \in DOMAIN next.used, next.used[of] # 0
      PROVE  \E n \in DOMAIN t : t[n].of = of /\ t[n].days = next.used[of]
  <2>1. CASE of = o.of
    <3>1. N + 1 \in DOMAIN t /\ t[N + 1].of = of /\ t[N + 1].days = next.used[of]
      BY <1>1, <1>3, <1>5, <1>6, <2>1
    <3> QED BY <3>1
  <2>2. CASE of # o.of
    <3>1. of \in DOMAIN now.used /\ next.used[of] = now.used[of]
      BY <1>3, <2>2
    <3>2. PICK n \in 1..N : s[n].of = of /\ s[n].days = now.used[of]
      BY <1>5, <1>8, <3>1
    <3>3. n \in DOMAIN t /\ t[n] = s[n]
      BY <1>5, <1>6
    <3> QED BY <3>1, <3>2, <3>3
  <2> QED BY <2>1, <2>2
<1>9. next.end = (IF Len(t) = 0 THEN FinishDay(plan) ELSE t[Len(t)].after)
  BY <1>3, <1>5, <1>6
<1>10. t = [n \in 1..Len(t) |-> t[n]] /\ Len(t) \in Nat
  BY <1>5, <1>11
<1> QED BY <1>2, <1>7, <1>8, <1>9, <1>10 DEF BoughtSoFar

\* The promise after a day bought.
LEMMA PromiseFurther ==
  ASSUME NEW plan, NEW target, NEW costs, NEW pairs, CompressionAsked(plan, target, costs, pairs),
         NEW now, Compressing(plan, target, costs, pairs, now),
         NEW o, IsBestOffer(now, o), NEW next, next = Bought(now, o)
  PROVE  /\ IsRound(plan, target, costs, pairs, next)
         /\ WorkShortened(plan, next) /\ LinksOverlapped(plan, next)
         /\ PromiseSoFar(plan, costs, pairs, next)
<1>1. /\ IsRound(plan, target, costs, pairs, now)
      /\ WorkShortened(plan, now) /\ LinksOverlapped(plan, now) /\ IsPlan(plan)
      /\ PromiseSoFar(plan, costs, pairs, now)
  BY DEF Compressing, CompressionAsked
<1>2. /\ o \in Offers(now) /\ o.of \in DOMAIN now.used /\ HasRoom(now, o.of)
      /\ o.days = now.used[o.of] + 1 /\ o.before = now.end /\ o.after < o.before
      /\ o.after = FinishDay(Pulled(now, o.of))
  <2>1. o \in Offers(now)
    BY DEF IsBestOffer
  <2> QED BY <2>1, OfferIs
<1>3. /\ Further(now, next, o.of) /\ next.plan = Pulled(now, o.of) /\ next.end = o.after
      /\ DOMAIN next.used = DOMAIN now.used
      /\ next.used[o.of] = now.used[o.of] + 1
      /\ \A l \in DOMAIN now.used \ {o.of} : next.used[l] = now.used[l]
      /\ IsRound(plan, target, costs, pairs, next) <=> next.end = FinishDay(next.plan)
  BY <1>1, <1>2, BoughtIs
<1>4. IsRound(plan, target, costs, pairs, next) /\ next.end = FinishDay(next.plan)
  BY <1>2, <1>3
<1>5. OneMore(plan, target, costs, pairs, now, o.of)
  BY <1>1, <1>2 DEF OneMore
<1>6. WorkShortened(plan, next) /\ LinksOverlapped(plan, next)
  BY <1>3, <1>5, CrashedFurther, OverlappedFurther
<1>7. /\ \A l : UsedOf(now, l) \in Nat /\ UsedOf(next, l) \in Nat
      /\ now.used[o.of] \in Nat
  <2>1. \A l : UsedOf(now, l) \in Nat
    BY <1>1, LeversAre
  <2>2. \A l : UsedOf(next, l) \in Nat
    BY <1>4, LeversAre
  <2>3. now.used[o.of] \in Nat
    BY <1>1, <1>2, LeversAre
  <2> QED BY <2>1, <2>2, <2>3
<1>8. PICK D, E : D = Delivered(plan, now) /\ E = Delivered(plan, next)
  OBVIOUS
<1>9. IsPlan(D) /\ IsPlan(E) /\ IsPlan(now.plan) /\ IsPlan(next.plan)
  BY <1>1, <1>6, <1>7, <1>8, RoundIsPlan
<1>10. /\ FinishDay(D) \in Int /\ FinishDay(E) \in Int /\ now.end \in Int /\ next.end \in Int
       /\ next.end < now.end
  <2>1. /\ FinishDay(D) \in Int /\ FinishDay(E) \in Int
        /\ FinishDay(now.plan) \in Int /\ FinishDay(next.plan) \in Int
    BY <1>9, FinishIs
  <2> QED BY <1>1, <1>2, <1>3, <1>4, <2>1 DEF IsRound
<1>11. ASSUME (\A a \in DOMAIN costs : costs[a].cost > 0) \/ pairs = {}
       PROVE  /\ FinishDay(E) = next.end
              /\ NothingShortened(next) =>
                   \A k \in DOMAIN plan.links : UsedOf(next, PairOf(plan, k)) # 0 =>
                     next.plan.links[k].lag
                       = next.plan.tasks[plan.links[k].pred].dur - UsedOf(next, PairOf(plan, k))
              /\ NothingShortened(next) \/ ~OverlapsPay(next)
  <2>1. /\ FinishDay(D) = now.end
        /\ NothingShortened(now) =>
             \A k \in DOMAIN plan.links : UsedOf(now, PairOf(plan, k)) # 0 =>
               now.plan.links[k].lag
                 = now.plan.tasks[plan.links[k].pred].dur - UsedOf(now, PairOf(plan, k))
        /\ NothingShortened(now) \/ ~OverlapsPay(now)
    BY <1>1, <1>8, <1>11 DEF PromiseSoFar
  <2>2. CASE IsCrash(o.of)
    <3>1. ~NothingShortened(next)
      <4>1. o.of \in DOMAIN next.used /\ next.used[o.of] # 0
        BY <1>2, <1>3, <1>7
      <4> QED BY <2>2, <4>1 DEF NothingShortened
    <3>2. ~OverlapsPay(now)
      BY <1>1, <1>11, <2>2, OverlapsFirst
    <3>3. ~OverlapsPay(next)
      BY <1>3, <1>4, <1>5, <1>10, <2>2, <3>2, OverlapsStayIdle
    <3>4. FinishDay(D) <= FinishDay(E) + 1
      <4>1. OneDayLess(D, E, o.of[1])
        BY <1>3, <1>5, <1>8, <2>2, DeliveredADayLess
      <4> QED BY <1>9, <4>1, ADayAtMost
    <3>5. FinishDay(E) <= next.end
      BY <1>1, <1>4, <1>6, <1>7, <1>8, DeliveredFinishesBy
    <3>6. FinishDay(E) = next.end
      BY <1>10, <2>1, <3>4, <3>5
    <3> QED BY <3>1, <3>3, <3>6
  <2>3. CASE ~IsCrash(o.of)
    <3>1. NothingShortened(now)
      <4>1. OverlapsPay(now)
        BY <1>2, <2>3 DEF OverlapsPay
      <4> QED BY <2>1, <4>1
    <3>2. NothingShortened(next)
      BY <1>3, <2>3, <3>1 DEF NothingShortened
    <3>3. /\ next.plan.tasks = now.plan.tasks
          /\ \A k \in DOMAIN plan.links :
               /\ PairOf(plan, k) # o.of => next.plan.links[k] = now.plan.links[k]
               /\ PairOf(plan, k) = o.of =>
                    next.plan.links[k].lag = now.plan.tasks[o.of[1]].dur - UsedOf(next, o.of)
      BY <1>3, <1>5, <2>3, OverlappedFurther
    <3>4. ASSUME NEW k \in DOMAIN plan.links, UsedOf(next, PairOf(plan, k)) # 0
          PROVE  next.plan.links[k].lag
                   = next.plan.tasks[plan.links[k].pred].dur - UsedOf(next, PairOf(plan, k))
      <4>1. CASE PairOf(plan, k) = o.of
        <5>1. o.of[1] = plan.links[k].pred
          BY <4>1 DEF PairOf
        <5> QED BY <3>3, <4>1, <5>1
      <4>2. CASE PairOf(plan, k) # o.of
        <5>1. UsedOf(next, PairOf(plan, k)) = UsedOf(now, PairOf(plan, k))
          BY <1>3, <4>2 DEF Further
        <5> QED BY <2>1, <3>1, <3>3, <3>4, <4>2, <5>1
      <4> QED BY <4>1, <4>2
    <3>5. FinishDay(E) = FinishDay(next.plan)
      BY <1>1, <1>6, <1>7, <1>8, <3>4, DeliveredFinishesBy
    <3> QED BY <1>4, <3>2, <3>4, <3>5
  <2> QED BY <2>2, <2>3
<1> QED BY <1>4, <1>6, <1>8, <1>11 DEF PromiseSoFar

\* A round leads to a round.
LEMMA NextRound ==
  ASSUME NEW plan, NEW target, NEW costs, NEW pairs, CompressionAsked(plan, target, costs, pairs),
         NEW now, Compressing(plan, target, costs, pairs, now), Saved(now) < now.target,
         NEW o, IsBestOffer(now, o), NEW next, next = Bought(now, o)
  PROVE  Compressing(plan, target, costs, pairs, next)
<1>1. /\ IsRound(plan, target, costs, pairs, now) /\ BoughtSoFar(plan, target, costs, now)
      /\ target \in Int /\ o \in Offers(now)
  BY DEF Compressing, CompressionAsked, IsBestOffer
<1>2. now.target = target
  BY <1>1, LeversAre
<1>3. BoughtSoFar(plan, target, costs, next)
  BY <1>1, <1>2, BoughtFurther
<1>4. /\ IsRound(plan, target, costs, pairs, next)
      /\ WorkShortened(plan, next) /\ LinksOverlapped(plan, next)
      /\ PromiseSoFar(plan, costs, pairs, next)
  BY PromiseFurther
<1> QED BY <1>3, <1>4 DEF Compressing

\* A compression that is not refused begins with nothing bought.
LEMMA FirstRound ==
  ASSUME NEW plan, NEW target, NEW costs, NEW pairs, CompressionAsked(plan, target, costs, pairs),
         NEW now, now = FirstState(plan, target, costs, pairs)
  PROVE  Compressing(plan, target, costs, pairs, now)
<1>1. PICK none : none = [of \in Levers(costs, pairs) |-> 0]
  OBVIOUS
<1>2. now = Round(plan, plan, target, costs, FinishDay(plan), none, <<>>)
  BY <1>1 DEF FirstState, Round, Levers
<1>3. /\ now.plan = plan /\ now.end = FinishDay(plan) /\ now.used = none /\ now.options = <<>>
      /\ IsPlan(plan)
  BY <1>2 DEF Round, CompressionAsked
<1>4. /\ DOMAIN none = Levers(costs, pairs)
      /\ \A l \in DOMAIN none : none[l] = 0 /\ now.used[l] = 0
  BY <1>1, <1>3
<1>5. \A l : UsedOf(now, l) = 0
  BY <1>3, <1>4 DEF UsedOf
<1>6. IsRound(plan, target, costs, pairs, now)
  <2>1. now = Round(plan, now.plan, target, costs, now.end, now.used, now.options)
    BY <1>2, <1>3
  <2>2. none = [of \in Levers(costs, pairs) |-> none[of]] /\ \A l \in Levers(costs, pairs) : none[l] \in Nat
    BY <1>1
  <2> QED BY <1>3, <2>1, <2>2 DEF IsRound, Round
<1>7. WorkShortened(plan, now)
  <2>1. plan = [tasks |-> plan.tasks, links |-> plan.links]
        /\ plan.tasks \in [DOMAIN plan.tasks -> [dur : Nat, floor : Nat, code : Nat]]
    BY <1>3 DEF IsPlan
  <2>2. plan.tasks = [a \in DOMAIN plan.tasks |-> plan.tasks[a]]
    BY <2>1
  <2>3. ASSUME NEW a \in DOMAIN plan.tasks
        PROVE  /\ plan.tasks[a].dur \in Nat
               /\ plan.tasks[a] = [dur   |-> plan.tasks[a].dur - UsedOf(now, <<a, 0>>),
                                   floor |-> plan.tasks[a].floor, code |-> plan.tasks[a].code]
    <3>1. PICK t : t = plan.tasks[a]
      OBVIOUS
    <3>2. t \in [dur : Nat, floor : Nat, code : Nat]
      BY <1>3, <3>1, InPlan
    <3>3. t.dur \in Nat /\ t = [dur |-> t.dur, floor |-> t.floor, code |-> t.code]
      BY <3>2
    <3>4. t.dur - UsedOf(now, <<a, 0>>) = t.dur
      BY <1>5, <3>3
    <3> QED BY <3>1, <3>3, <3>4
  <2> QED BY <1>3, <1>5, <2>1, <2>2, <2>3 DEF WorkShortened
<1>8. LinksOverlapped(plan, now)
  <2>1. PICK Y : plan.links \in Seq(Y)
    BY <1>3 DEF IsPlan
  <2>2. plan.links = [k \in DOMAIN plan.links |-> plan.links[k]]
    BY <2>1
  <2> QED BY <1>3, <1>5, <2>2 DEF LinksOverlapped
<1>9. BoughtSoFar(plan, target, costs, now)
  <2>1. PICK o : o = now.options
    OBVIOUS
  <2>2. o = <<>> /\ Len(o) = 0 /\ DOMAIN o = {}
    BY <1>3, <2>1
  <2>3. o = [n \in 1..Len(o) |-> o[n]]
    BY <2>2
  <2> QED BY <1>3, <1>4, <2>1, <2>2, <2>3 DEF BoughtSoFar
<1>10. PromiseSoFar(plan, costs, pairs, now)
  <2>1. FinishDay(Delivered(plan, now)) = FinishDay(now.plan)
    <3>1. \A of : UsedOf(now, of) \in Nat
      BY <1>5
    <3> QED BY <1>3, <1>5, <1>7, <1>8, <3>1, DeliveredFinishesBy
  <2>2. NothingShortened(now)
    BY <1>3, <1>4 DEF NothingShortened
  <2> QED BY <1>3, <1>5, <2>1, <2>2 DEF PromiseSoFar
<1> QED BY <1>6, <1>7, <1>8, <1>9, <1>10 DEF Compressing

\* A request that is not refused is one of these.
LEMMA CompressionIsAsked ==
  ASSUME NEW r, IsRequest(r), r.study = "compression",
         CanCompress(r.plan, r.target, r.costs, r.pairs)
  PROVE  CompressionAsked(r.plan, r.target, r.costs, r.pairs)
<1>1. PICK plan, target, costs, pairs :
        plan = r.plan /\ target = r.target /\ costs = r.costs /\ pairs = r.pairs
  OBVIOUS
<1>2. /\ IsListed(plan) /\ target \in Int
      /\ costs \in [DOMAIN costs -> [cost : Int, max : Int]]
      /\ pairs \subseteq Nat \X (Nat \ {Absent})
  BY <1>1 DEF IsRequest
<1>3. IsPlan(plan) /\ Absent \notin DOMAIN plan.tasks
  BY <1>2 DEF IsListed
<1>4. ASSUME NEW a \in DOMAIN costs
      PROVE  a \in DOMAIN plan.tasks /\ costs[a].cost \in Nat /\ costs[a].max \in Int
  <2>1. a \in DOMAIN plan.tasks /\ costs[a].cost >= 0
    BY <1>1 DEF CanCompress
  <2>2. costs[a] \in [cost : Int, max : Int]
    BY <1>2
  <2> QED BY <2>1, <2>2
<1>5. ASSUME NEW of \in pairs
      PROVE  /\ of = <<of[1], of[2]>> /\ of[2] # 0
             /\ of[1] \in DOMAIN plan.tasks /\ of[2] \in DOMAIN plan.tasks
  <2>1. LinksOf(plan, of) # {}
    BY <1>1 DEF CanCompress
  <2>2. PICK k \in DOMAIN plan.links : plan.links[k].pred = of[1] /\ plan.links[k].succ = of[2]
    BY <2>1 DEF LinksOf
  <2>3. of[1] \in DOMAIN plan.tasks /\ of[2] \in DOMAIN plan.tasks
    BY <1>3, <2>2, InPlan
  <2>4. of \in Nat \X (Nat \ {Absent})
    BY <1>2
  <2> QED BY <2>3, <2>4 DEF Absent
<1> QED BY <1>1, <1>2, <1>3, <1>4, <1>5 DEF CompressionAsked

\* A compression under way, and one that was answered.
UnderWay(now) ==
  /\ CompressionAsked(request.plan, request.target, request.costs, request.pairs)
  /\ Compressing(request.plan, request.target, request.costs, request.pairs, now)

CompressionInv ==
  /\ answer.status = "compressing" => UnderWay(answer.now)
  /\ Answered("compression") => UnderWay(answer.result)

\* Whatever was bought so far, round by round.
LEMMA CompressionInvHolds ==
  StudiesSpec => []CompressionInv
<1>1. StudiesInit => CompressionInv
  <2>1. SUFFICES ASSUME StudiesInit PROVE CompressionInv
    OBVIOUS
  <2>2. answer.status = "nothing to show"
    BY <2>1 DEF StudiesInit, NotThere
  <2>3. answer.status # "compressing" /\ answer.status # "answered"
    BY <2>2
  <2> QED BY <2>3 DEF CompressionInv, Answered
<1>2. ASSUME StudyInv, CompressionInv, [StudiesNext]_studyVars PROVE CompressionInv'
  <2>0. \A x : Found(x).status = "answered" /\ Found(x).result = x
    BY DEF Found
  <2>01. ASSUME answer'.status \notin {"compressing", "answered"} PROVE CompressionInv'
    BY <2>01 DEF CompressionInv, Answered
  <2>02. ASSUME request'.study # "compression", answer'.status # "compressing" PROVE CompressionInv'
    BY <2>02 DEF CompressionInv, Answered
  <2>03. Declined.status = "refused" /\ Pending.status = "pending" /\ NotThere.status = "nothing to show"
    BY DEF Declined, Pending, NotThere
  <2>04. "answered" # "compressing"
    OBVIOUS
  <2>1. CASE UNCHANGED studyVars
    BY <1>2, <2>1 DEF CompressionInv, studyVars, Answered, UnderWay
  <2>2. CASE Asks
    <3>1. answer'.status = "pending"
      BY <2>2 DEF Asks, Pending
    <3> QED BY <2>01, <3>1
  <2>3. CASE \/ CompareBaselines \/ CompareToBaseline \/ AnalyseWindows \/ ModelDelay
             \/ SchedulePortfolio \/ ScheduleLinear \/ LinearSchedule \/ ScheduleTakt \/ TaktPlan
             \/ ParseQuantities \/ ApplyWeather \/ MeasureProgress \/ MeasureEarnedSchedule
    <3>1. request'.study # "compression" /\ answer'.status # "compressing"
      <4>1. CASE CompareBaselines
        BY <2>0, <2>04, <4>1 DEF CompareBaselines, IsOpen, Reply
      <4>2. CASE CompareToBaseline
        BY <2>0, <2>03, <2>04, <4>2 DEF CompareToBaseline, IsOpen, Reply
      <4>3. CASE AnalyseWindows
        BY <2>0, <2>03, <2>04, <4>3 DEF AnalyseWindows, IsOpen, Reply
      <4>4. CASE ModelDelay
        BY <2>0, <2>03, <2>04, <4>4 DEF ModelDelay, IsOpen, Reply
      <4>5. CASE SchedulePortfolio
        BY <2>0, <2>03, <2>04, <4>5 DEF SchedulePortfolio, IsOpen, Reply
      <4>6. CASE ScheduleLinear
        BY <2>0, <2>03, <2>04, <4>6 DEF ScheduleLinear, IsOpen, Reply
      <4>7. CASE LinearSchedule
        BY <2>0, <2>03, <2>04, <4>7 DEF LinearSchedule, IsOpen, Reply
      <4>8. CASE ScheduleTakt
        BY <2>0, <2>03, <2>04, <4>8 DEF ScheduleTakt, IsOpen, Reply
      <4>9. CASE TaktPlan
        BY <2>0, <2>03, <2>04, <4>9 DEF TaktPlan, IsOpen, Reply
      <4>10. CASE ParseQuantities
        BY <2>0, <2>03, <2>04, <4>10 DEF ParseQuantities, IsOpen, Reply
      <4>11. CASE ApplyWeather
        BY <2>0, <2>03, <2>04, <4>11 DEF ApplyWeather, IsOpen, Reply
      <4>12. CASE MeasureProgress
        BY <2>0, <2>03, <2>04, <4>12 DEF MeasureProgress, IsOpen, Reply
      <4>13. CASE MeasureEarnedSchedule
        BY <2>0, <2>03, <2>04, <4>13 DEF MeasureEarnedSchedule, IsOpen, Reply
      <4> QED BY <2>3, <4>1, <4>2, <4>3, <4>4, <4>5, <4>6, <4>7, <4>8, <4>9, <4>10, <4>11, <4>12, <4>13
    <3> QED BY <2>02, <3>1
  <2>4. CASE StartCompressing
    <3>1. request' = request /\ request.study = "compression"
      BY <2>4 DEF StartCompressing, IsOpen, Reply
    <3>2. CASE CanCompress(request.plan, request.target, request.costs, request.pairs)
      <4>1. answer' = [status |-> "compressing",
                       now |-> FirstState(request.plan, request.target, request.costs, request.pairs)]
        BY <2>4, <3>2 DEF StartCompressing, Reply
      <4>2. /\ answer'.status = "compressing"
            /\ answer'.now = FirstState(request.plan, request.target, request.costs, request.pairs)
        BY <4>1
      <4>3. IsRequest(request)
        BY <1>2, <3>1, AskedIsRequest
      <4>4. CompressionAsked(request.plan, request.target, request.costs, request.pairs)
        BY <3>1, <3>2, <4>3, CompressionIsAsked
      <4>5. Compressing(request.plan, request.target, request.costs, request.pairs, answer'.now)
        BY <4>2, <4>4, FirstRound
      <4> QED BY <2>04, <3>1, <4>2, <4>4, <4>5 DEF CompressionInv, Answered, UnderWay
    <3>3. CASE ~CanCompress(request.plan, request.target, request.costs, request.pairs)
      <4>1. answer' = Declined
        BY <2>4, <3>3 DEF StartCompressing, Reply
      <4> QED BY <2>01, <2>03, <4>1
    <3> QED BY <3>2, <3>3
  <2>5. CASE BuyADay
    <3>1. /\ answer.status = "compressing" /\ request' = request
          /\ Saved(answer.now) < answer.now.target
      BY <2>5 DEF BuyADay, IsCompressing, WantsMore, Reply
    <3>2. answer = [status |-> "compressing", now |-> answer.now]
      BY <1>2, <3>1 DEF StudyInv
    <3>3. PICK o : /\ IsBestOffer(answer.now, o)
                   /\ answer' = [answer EXCEPT !.now = Bought(@, o)]
      BY <2>5 DEF BuyADay, Reply
    <3>4. answer'.status = "compressing" /\ answer'.now = Bought(answer.now, o)
      BY <3>2, <3>3
    <3>5. /\ CompressionAsked(request.plan, request.target, request.costs, request.pairs)
          /\ Compressing(request.plan, request.target, request.costs, request.pairs, answer.now)
      BY <1>2, <3>1 DEF CompressionInv, UnderWay
    <3>6. Compressing(request.plan, request.target, request.costs, request.pairs, answer'.now)
      BY <3>1, <3>3, <3>4, <3>5, NextRound
    <3> QED BY <2>04, <3>1, <3>4, <3>5, <3>6 DEF CompressionInv, Answered, UnderWay
  <2>6. CASE StopCompressing
    <3>1. answer.status = "compressing" /\ request' = request /\ answer' = Found(answer.now)
      BY <2>6 DEF StopCompressing, IsCompressing, Reply
    <3>2. /\ CompressionAsked(request.plan, request.target, request.costs, request.pairs)
          /\ Compressing(request.plan, request.target, request.costs, request.pairs, answer.now)
      BY <1>2, <3>1 DEF CompressionInv, UnderWay
    <3>3. answer'.status = "answered" /\ answer'.result = answer.now
      BY <2>0, <3>1
    <3> QED BY <2>04, <3>1, <3>2, <3>3 DEF CompressionInv, Answered, UnderWay
  <2> QED BY <1>2, <2>1, <2>2, <2>3, <2>4, <2>5, <2>6 DEF StudiesNext
<1> QED BY <1>1, <1>2, StudyInvHolds, PTL DEF StudiesSpec

\* A compression can be delivered (compression.py:212-437).
THEOREM CompressionsAreDeliverable ==
  StudiesSpec => []PlanIsDeliverable
<1>1. ASSUME CompressionInv, Answered("compression")
      PROVE  /\ PromiseIsKept(Applied(request.plan, answer.result.options))
             /\ WorkIsLeft(Applied(request.plan, answer.result.options))
             /\ PurchasesInOrder
  <2>1. PICK plan, target, costs, pairs, now :
          /\ plan = request.plan /\ target = request.target /\ costs = request.costs
          /\ pairs = request.pairs /\ now = answer.result
    OBVIOUS
  <2>2. /\ CompressionAsked(plan, target, costs, pairs)
        /\ IsRound(plan, target, costs, pairs, now)
        /\ WorkShortened(plan, now) /\ LinksOverlapped(plan, now)
        /\ BoughtSoFar(plan, target, costs, now)
        /\ PromiseSoFar(plan, costs, pairs, now)
    BY <1>1, <2>1 DEF CompressionInv, UnderWay, Compressing
  <2>3. IsPlan(plan) /\ \A of : UsedOf(now, of) \in Nat
    BY <2>2, LeversAre DEF CompressionAsked
  <2>4. PICK D : D = Delivered(plan, now)
    OBVIOUS
  <2>5. Applied(request.plan, answer.result.options) = D
    BY <2>1, <2>2, <2>3, <2>4, AppliedIs
  <2>6. PromiseIsKept(D)
    <3>1. FinishDay(D) <= now.end
      BY <2>2, <2>3, <2>4, DeliveredFinishesBy DEF IsRound
    <3>2. (\A a \in DOMAIN costs : costs[a].cost > 0) \/ pairs = {} => FinishDay(D) = now.end
      BY <2>2, <2>4 DEF PromiseSoFar
    <3> QED BY <2>1, <3>1, <3>2 DEF PromiseIsKept, EveryCrashCosts
  <2>7. WorkIsLeft(D)
    <3>1. SUFFICES ASSUME NEW a \in DOMAIN plan.tasks
                   PROVE  D.tasks[a] = plan.tasks[a] \/ D.tasks[a].dur >= 1
      <4>1. D.tasks = now.plan.tasks
        BY <2>4 DEF Delivered
      <4>2. DOMAIN D.tasks = DOMAIN plan.tasks
        BY <2>2, <4>1 DEF WorkShortened
      <4> QED BY <2>1, <3>1, <4>2 DEF WorkIsLeft
    <3>2. PICK t, u : t = plan.tasks[a] /\ u = UsedOf(now, <<a, 0>>)
      OBVIOUS
    <3>3. /\ D.tasks[a] = [dur |-> t.dur - u, floor |-> t.floor, code |-> t.code]
          /\ u # 0 => D.tasks[a].dur >= 1
      BY <2>2, <2>4, <3>2 DEF Delivered, WorkShortened
    <3>4. t \in [dur : Nat, floor : Nat, code : Nat]
      BY <2>3, <3>2, InPlan
    <3>5. t = [dur |-> t.dur, floor |-> t.floor, code |-> t.code] /\ t.dur \in Nat
      BY <3>4
    <3>6. u = 0 => t.dur - u = t.dur
      BY <3>5
    <3> QED BY <3>2, <3>3, <3>5, <3>6
  <2>8. PurchasesInOrder
    <3>1. PICK o : o = now.options
      OBVIOUS
    <3>2. \A n \in DOMAIN o :
            /\ o[n].before = (IF n = 1 THEN FinishDay(plan) ELSE o[n - 1].after)
            /\ o[n].after < o[n].before
            /\ IsCrash(o[n].of) => o[n].days <= costs[o[n].of[1]].max
            /\ FinishDay(plan) - o[n].before < target
      BY <2>2, <3>1 DEF BoughtSoFar
    <3> QED BY <2>1, <3>1, <3>2 DEF PurchasesInOrder
  <2> QED BY <2>5, <2>6, <2>7, <2>8
<1>2. CompressionInv => PlanIsDeliverable
  BY <1>1 DEF PlanIsDeliverable
<1> QED BY <1>2, CompressionInvHolds, PTL

=============================================================================
