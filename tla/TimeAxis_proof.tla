---------------------------- MODULE TimeAxis_proof ----------------------------
(***************************************************************************)
(* What the working-day arithmetic of TimeAxis promises on every finite    *)
(* lattice, also one too short for the date asked for; and, first, what    *)
(* the other proofs share about finite sets and sums over them.            *)
(***************************************************************************)
EXTENDS TimeAxis, TLAPS, FiniteSetTheorems

-----------------------------------------------------------------------------
\* Finite sets of instants have a first and a last.

\* No member of a set of sets lies strictly inside this one.
IsMinimal(T, B) == \A U \in B : ~(U \subseteq T /\ U # T)

\* A set of subsets of a finite set has a minimal member.
LEMMA SmallestSubset ==
  ASSUME NEW S, IsFiniteSet(S), NEW B, B \subseteq SUBSET S, B # {}
  PROVE  \E T \in B : IsMinimal(T, B)
<1>1. IsWellFoundedOn(StrictSubsetOrdering(S), SUBSET S)
  BY FS_StrictSubsetOrderingWellFounded, FS_FiniteSubsetsOfFinite
<1>2. PICK T \in B : \A U \in B : ~(<<U, T>> \in StrictSubsetOrdering(S))
  BY <1>1, WFMin
<1> QED BY <1>2 DEF StrictSubsetOrdering, IsMinimal

\* A finite set of integers has a least member.
LEMMA HasLeast ==
  ASSUME NEW K \in SUBSET Int, IsFiniteSet(K), K # {}
  PROVE  \E x \in K : \A y \in K : x <= y
<1> DEFINE Below(x) == {y \in K : y <= x}
           B == {Below(x) : x \in K}
<1>1. PICK T \in B : IsMinimal(T, B)
  <2>1. B \subseteq SUBSET K
    OBVIOUS
  <2>2. B # {}
    OBVIOUS
  <2> HIDE DEF B, Below
  <2> QED BY <2>1, <2>2, SmallestSubset, Zenon
<1>2. PICK t \in K : T = Below(t)
  OBVIOUS
<1>3. ASSUME NEW y \in K, y < t PROVE FALSE
  <2>1. t \in T /\ t \notin Below(y)
    BY <1>2, <1>3
  <2>2. \A z \in K : z <= y => z <= t
    BY <1>3
  <2>3. Below(y) \subseteq T
    BY <1>2, <2>2
  <2>4. Below(y) \in B
    OBVIOUS
  <2> HIDE DEF Below, B
  <2> QED BY <1>1, <2>1, <2>3, <2>4 DEF IsMinimal
<1> QED BY <1>3

\* And a greatest.
LEMMA HasGreatest ==
  ASSUME NEW K \in SUBSET Int, IsFiniteSet(K), K # {}
  PROVE  \E x \in K : \A y \in K : y <= x
<1> DEFINE Above(x) == {y \in K : x <= y}
           B == {Above(x) : x \in K}
<1>1. PICK T \in B : IsMinimal(T, B)
  <2>1. B \subseteq SUBSET K
    OBVIOUS
  <2>2. B # {}
    OBVIOUS
  <2> HIDE DEF B, Above
  <2> QED BY <2>1, <2>2, SmallestSubset, Zenon
<1>2. PICK t \in K : T = Above(t)
  OBVIOUS
<1>3. ASSUME NEW y \in K, t < y PROVE FALSE
  <2>1. t \in T /\ t \notin Above(y)
    BY <1>2, <1>3
  <2>2. \A z \in K : y <= z => t <= z
    BY <1>3
  <2>3. Above(y) \subseteq T
    BY <1>2, <2>2
  <2>4. Above(y) \in B
    OBVIOUS
  <2> HIDE DEF Above, B
  <2> QED BY <1>1, <2>1, <2>3, <2>4 DEF IsMinimal
<1> QED BY <1>3

\* The values of a function on a finite set are finitely many.
LEMMA FinitelyMany ==
  ASSUME NEW K, IsFiniteSet(K), NEW f, DOMAIN f = K
  PROVE  IsFiniteSet({f[k] : k \in K})
<1> DEFINE T == {f[k] : k \in K}
           g == [k \in K |-> f[k]]
<1>1. g \in Surjection(K, T)
  BY DEF Surjection
<1> HIDE DEF T
<1> QED BY <1>1, FS_Surjection DEF T

-----------------------------------------------------------------------------
\* Sums.  A fold adds in an order of its own; what a sum is does not depend on it.

Chosen(s) == CHOOSE x \in s : TRUE

\* f is the running sum of a fold over the subsets of S.
IsTally(w, S, f) ==
  f = [s \in SUBSET S |-> IF s = {} THEN 0
                          ELSE w[Chosen(s)] + f[s \ {Chosen(s)}]]

\* The values of w on S, together.
SumOver(w, S) == (CHOOSE f : IsTally(w, S, f))[S]

\* One step of a tally.
LEMMA TallyStep ==
  ASSUME NEW w, NEW S, NEW f, IsTally(w, S, f), NEW s \in SUBSET S
  PROVE  f[s] = IF s = {} THEN 0 ELSE w[Chosen(s)] + f[s \ {Chosen(s)}]
BY DEF IsTally

\* An element chosen from a set is one of it.
LEMMA ChosenFrom ==
  ASSUME NEW s, s # {}
  PROVE  Chosen(s) \in s
BY DEF Chosen

\* Two tallies of a finite set are the same.
LEMMA OneTally ==
  ASSUME NEW w, NEW S, IsFiniteSet(S), NEW f, IsTally(w, S, f), NEW g, IsTally(w, S, g)
  PROVE  f = g
<1> DEFINE B == {s \in SUBSET S : f[s] # g[s]}
<1>1. ASSUME B # {} PROVE FALSE
  <2>1. PICK s \in B : IsMinimal(s, B)
    <3>1. B \subseteq SUBSET S
      OBVIOUS
    <3> HIDE DEF B
    <3> QED BY <1>1, <3>1, SmallestSubset
  <2>2. s # {}
    BY TallyStep
  <2>3. s \ {Chosen(s)} \in SUBSET S /\ s \ {Chosen(s)} \notin B
    BY <2>1, <2>2, ChosenFrom DEF IsMinimal
  <2> QED BY <2>2, <2>3, TallyStep
<1>2. \A s \in SUBSET S : f[s] = g[s]
  BY <1>1
<1> QED BY <1>2 DEF IsTally

\* A tally of a set, read on a subset, is a tally of the subset.
LEMMA TallyOfPart ==
  ASSUME NEW w, NEW S, NEW f, IsTally(w, S, f), NEW T \in SUBSET S
  PROVE  IsTally(w, T, [s \in SUBSET T |-> f[s]])
<1>1. ASSUME NEW s \in SUBSET T
      PROVE  /\ f[s] = IF s = {} THEN 0
                       ELSE w[Chosen(s)] + f[s \ {Chosen(s)}]
             /\ s \ {Chosen(s)} \in SUBSET T
  BY TallyStep
<1> QED BY <1>1 DEF IsTally

\* Every finite set has a tally: a smallest set without one could be given one
\* from the tallies of its parts.
LEMMA TallyExists ==
  ASSUME NEW w, NEW S, IsFiniteSet(S)
  PROVE  \E f : IsTally(w, S, f)
<1> DEFINE B == {T \in SUBSET S : ~\E f : IsTally(w, T, f)}
<1>1. ASSUME B # {} PROVE FALSE
  <2>1. PICK T \in B : IsMinimal(T, B)
    <3>1. B \subseteq SUBSET S
      OBVIOUS
    <3> HIDE DEF B
    <3> QED BY <1>1, <3>1, SmallestSubset
  <2> DEFINE F(U) == CHOOSE f : IsTally(w, U, f)
             f == [s \in SUBSET T |-> IF s = {} THEN 0
                     ELSE w[Chosen(s)] + F(s \ {Chosen(s)})[s \ {Chosen(s)}]]
  <2>2. ASSUME NEW U \in SUBSET T, U # T
        PROVE  IsTally(w, U, F(U)) /\ IsFiniteSet(U)
    <3>1. U \in SUBSET S /\ U \notin B
      BY <2>1, <2>2 DEF IsMinimal
    <3>2. \E g : IsTally(w, U, g)
      BY <3>1
    <3> QED BY <3>1, <3>2, FS_Subset
  <2>3. ASSUME NEW U \in SUBSET T, U # T
        PROVE  f[U] = F(U)[U]
    <3> DEFINE V == U \ {Chosen(U)}
    <3>1. F(U)[U] = IF U = {} THEN 0 ELSE w[Chosen(U)] + F(U)[V]
      BY <2>2, <2>3, TallyStep
    <3>2. f[U] = IF U = {} THEN 0 ELSE w[Chosen(U)] + F(V)[V]
      OBVIOUS
    <3>3. V \in SUBSET U /\ V \in SUBSET T /\ (U # {} => V # T)
      BY ChosenFrom
    <3>4. ASSUME U # {} PROVE F(U)[V] = F(V)[V]
      <4>1. IsTally(w, V, [s \in SUBSET V |-> F(U)[s]])
        BY <2>2, <2>3, <3>3, TallyOfPart
      <4>2. IsTally(w, V, F(V)) /\ IsFiniteSet(V)
        BY <2>2, <3>3, <3>4
      <4>3. F(V) = [s \in SUBSET V |-> F(U)[s]]
        BY <4>1, <4>2, OneTally
      <4>4. V \in SUBSET V
        OBVIOUS
      <4> HIDE DEF F, V
      <4> QED BY <4>3, <4>4
    <3> HIDE DEF F, V, f
    <3> QED BY <3>1, <3>2, <3>4
  <2>4. IsTally(w, T, f)
    <3>1. ASSUME NEW s \in SUBSET T, s # {}
          PROVE  f[s] = w[Chosen(s)] + f[s \ {Chosen(s)}]
      <4>1. s \ {Chosen(s)} \in SUBSET T /\ s \ {Chosen(s)} # T
        BY <3>1, ChosenFrom
      <4>2. f[s \ {Chosen(s)}] = F(s \ {Chosen(s)})[s \ {Chosen(s)}]
        BY <4>1, <2>3
      <4>3. f[s] = w[Chosen(s)] + F(s \ {Chosen(s)})[s \ {Chosen(s)}]
        BY <3>1
      <4> HIDE DEF F, f
      <4> QED BY <4>2, <4>3
    <3>2. ASSUME {} \in SUBSET T PROVE f[{}] = 0
      OBVIOUS
    <3>3. f = [s \in SUBSET T |-> f[s]]
      OBVIOUS
    <3> HIDE DEF f
    <3>4. \A s \in SUBSET T : f[s] = IF s = {} THEN 0
                       ELSE w[Chosen(s)] + f[s \ {Chosen(s)}]
      BY <3>1, <3>2
    <3> QED BY <3>3, <3>4 DEF IsTally
  <2> QED BY <2>1, <2>4
<1>2. S \in SUBSET S
  OBVIOUS
<1> QED BY <1>1, <1>2

\* The recursion the fold is: a sum is one value and the sum of the others.
LEMMA SumUnfolds ==
  ASSUME NEW w, NEW S, IsFiniteSet(S)
  PROVE  SumOver(w, S) = IF S = {} THEN 0
                         ELSE w[Chosen(S)] + SumOver(w, S \ {Chosen(S)})
<1> DEFINE F(U) == CHOOSE f : IsTally(w, U, f)
           V == S \ {Chosen(S)}
<1>1. IsTally(w, S, F(S))
  BY TallyExists
<1>2. IsFiniteSet(V) /\ V \in SUBSET S
  BY FS_Subset
<1>3. IsTally(w, V, F(V))
  BY <1>2, TallyExists
<1>4. F(V) = [s \in SUBSET V |-> F(S)[s]]
  <2> HIDE DEF F, V
  <2>1. IsTally(w, V, [s \in SUBSET V |-> F(S)[s]])
    BY <1>1, <1>2, TallyOfPart
  <2> QED BY <1>2, <1>3, <2>1, OneTally
<1>5. SumOver(w, S) = F(S)[S] /\ SumOver(w, V) = F(V)[V]
  BY DEF SumOver
<1>6. F(S)[S] = IF S = {} THEN 0 ELSE w[Chosen(S)] + F(S)[V]
  <2>1. S \in SUBSET S
    OBVIOUS
  <2> HIDE DEF F
  <2> QED BY <1>1, <2>1, TallyStep
<1>7. F(V)[V] = F(S)[V]
  <2>1. V \in SUBSET V
    OBVIOUS
  <2> HIDE DEF F, V
  <2> QED BY <1>4, <2>1
<1> HIDE DEF F
<1> QED BY <1>5, <1>6, <1>7

\* Sums of integers are integers.
LEMMA SumIsWhole ==
  ASSUME NEW w, NEW S, IsFiniteSet(S), \A i \in S : w[i] \in Int
  PROVE  SumOver(w, S) \in Int
<1> DEFINE B == {T \in SUBSET S : SumOver(w, T) \notin Int}
<1>1. ASSUME B # {} PROVE FALSE
  <2>1. PICK T \in B : IsMinimal(T, B)
    <3>1. B \subseteq SUBSET S
      OBVIOUS
    <3> HIDE DEF B
    <3> QED BY <1>1, <3>1, SmallestSubset
  <2>2. IsFiniteSet(T)
    BY FS_Subset
  <2>3. SumOver(w, T) = IF T = {} THEN 0
                        ELSE w[Chosen(T)] + SumOver(w, T \ {Chosen(T)})
    BY <2>2, SumUnfolds
  <2>4. T # {}
    BY <2>3
  <2>5. Chosen(T) \in S /\ T \ {Chosen(T)} \in SUBSET S /\ T \ {Chosen(T)} \notin B
    BY <2>1, <2>4, ChosenFrom DEF IsMinimal
  <2>6. SumOver(w, T \ {Chosen(T)}) \in Int /\ w[Chosen(T)] \in Int
    BY <2>5
  <2> QED BY <2>3, <2>4, <2>6
<1> QED BY <1>1

\* Any one value may be added last.
LEMMA SumTakesAny ==
  ASSUME NEW w, NEW S, IsFiniteSet(S), \A i \in S : w[i] \in Int, NEW any \in S
  PROVE  SumOver(w, S) = SumOver(w, S \ {any}) + w[any]
<1> DEFINE Takes(T, x) == SumOver(w, T) = SumOver(w, T \ {x}) + w[x]
           B == {T \in SUBSET S : \E x \in T : ~Takes(T, x)}
<1>1. ASSUME B # {} PROVE FALSE
  <2>1. PICK T \in B : IsMinimal(T, B)
    <3>1. B \subseteq SUBSET S
      OBVIOUS
    <3> HIDE DEF B
    <3> QED BY <1>1, <3>1, SmallestSubset
  <2>2. PICK x \in T : ~Takes(T, x)
    BY <2>1
  <2> DEFINE c == Chosen(T)
             U == (T \ {c}) \ {x}
  <2>3. T \in SUBSET S /\ T # {} /\ c \in T
    BY <2>1, <2>2, ChosenFrom
  <2>4. Takes(T, c)
    <3>1. SumOver(w, T) = w[c] + SumOver(w, T \ {c})
      BY <2>3, SumUnfolds, FS_Subset
    <3>2. SumOver(w, T \ {c}) \in Int /\ w[c] \in Int
      <4>1. T \ {c} \in SUBSET S /\ IsFiniteSet(T \ {c}) /\ c \in S
        BY <2>3, FS_Subset
      <4> QED BY <4>1, SumIsWhole
    <3> HIDE DEF c
    <3> QED BY <3>1, <3>2
  <2>5. c # x
    BY <2>2, <2>4
  <2>6. Takes(T \ {c}, x)
    <3>1. T \ {c} \in SUBSET S /\ T \ {c} \notin B /\ x \in T \ {c}
      BY <2>1, <2>2, <2>3, <2>5 DEF IsMinimal
    <3> QED BY <3>1
  <2>7. Takes(T \ {x}, c)
    <3>1. T \ {x} \in SUBSET S /\ T \ {x} \notin B /\ c \in T \ {x}
      BY <2>1, <2>2, <2>3, <2>5 DEF IsMinimal
    <3> QED BY <3>1
  <2>8. U = (T \ {x}) \ {c}
    OBVIOUS
  <2>9. SumOver(w, U) \in Int /\ w[x] \in Int /\ w[c] \in Int
    <3>1. U \in SUBSET S /\ IsFiniteSet(U) /\ c \in S /\ x \in S
      BY <2>2, <2>3, FS_Subset
    <3> QED BY <3>1, SumIsWhole
  <2> HIDE DEF c, U
  <2>10. /\ SumOver(w, T) = SumOver(w, T \ {c}) + w[c]
         /\ SumOver(w, T \ {c}) = SumOver(w, U) + w[x]
         /\ SumOver(w, T \ {x}) = SumOver(w, U) + w[c]
    BY <2>4, <2>6, <2>7, <2>8 DEF U
  <2>11. SumOver(w, T) = SumOver(w, T \ {x}) + w[x]
    BY <2>9, <2>10
  <2> QED BY <2>2, <2>11
<1>2. S \in SUBSET S /\ S \notin B
  BY <1>1
<1> QED BY <1>2

\* A sum of nothing is nothing.
LEMMA SumOfNone ==
  ASSUME NEW w
  PROVE  SumOver(w, {}) = 0
BY SumUnfolds, FS_EmptySet

\* What counts is the values on the set.
LEMMA SumAgrees ==
  ASSUME NEW w, NEW v, NEW S, IsFiniteSet(S), \A x \in S : w[x] = v[x]
  PROVE  SumOver(w, S) = SumOver(v, S)
<1> DEFINE B == {T \in SUBSET S : SumOver(w, T) # SumOver(v, T)}
<1>1. ASSUME B # {} PROVE FALSE
  <2>1. PICK T \in B : IsMinimal(T, B)
    <3>1. B \subseteq SUBSET S
      OBVIOUS
    <3> HIDE DEF B
    <3> QED BY <1>1, <3>1, SmallestSubset
  <2>2. IsFiniteSet(T) /\ T \subseteq S
    BY FS_Subset
  <2>3. /\ SumOver(w, T) = IF T = {} THEN 0 ELSE w[Chosen(T)] + SumOver(w, T \ {Chosen(T)})
        /\ SumOver(v, T) = IF T = {} THEN 0 ELSE v[Chosen(T)] + SumOver(v, T \ {Chosen(T)})
    BY <2>2, SumUnfolds
  <2>4. T # {}
    BY <2>3
  <2>5. Chosen(T) \in S /\ T \ {Chosen(T)} \in SUBSET S /\ T \ {Chosen(T)} \notin B
    BY <2>1, <2>4, ChosenFrom DEF IsMinimal
  <2> QED BY <2>3, <2>4, <2>5
<1> QED BY <1>1

\* Two parts with nothing in common are added up.
LEMMA SumSplits ==
  ASSUME NEW w, NEW S, NEW T, IsFiniteSet(S \cup T), S \cap T = {},
         \A x \in S \cup T : w[x] \in Int
  PROVE  SumOver(w, S \cup T) = SumOver(w, S) + SumOver(w, T)
<1> DEFINE B == {U \in SUBSET S : SumOver(w, U \cup T) # SumOver(w, U) + SumOver(w, T)}
<1>0. IsFiniteSet(S) /\ IsFiniteSet(T)
  BY FS_Subset
<1>1. ASSUME B # {} PROVE FALSE
  <2>1. PICK U \in B : IsMinimal(U, B)
    <3>1. B \subseteq SUBSET S
      OBVIOUS
    <3> HIDE DEF B
    <3> QED BY <1>0, <1>1, <3>1, SmallestSubset
  <2>2. U \in SUBSET S /\ IsFiniteSet(U) /\ IsFiniteSet(U \cup T)
    BY <1>0, FS_Subset
  <2>3. SumOver(w, T) \in Int
    BY <1>0, SumIsWhole
  <2>10. U # {}
    <3>1. SumOver(w, {}) = 0 /\ {} \cup T = T
      BY SumOfNone
    <3>2. {} \notin B
      BY <2>3, <3>1
    <3> QED BY <2>1, <3>2
  <2>4. PICK x \in U : TRUE
    BY <2>10
  <2> DEFINE V == U \ {x}
  <2>5. V \in SUBSET S /\ IsFiniteSet(V) /\ V \notin B /\ (U \cup T) \ {x} = V \cup T
    BY <2>1, <2>2, <2>4, FS_Subset DEF IsMinimal
  <2>6. SumOver(w, U) = SumOver(w, V) + w[x]
    BY <2>2, <2>4, SumTakesAny
  <2>7. SumOver(w, U \cup T) = SumOver(w, V \cup T) + w[x]
    <3>1. x \in U \cup T /\ \A y \in U \cup T : w[y] \in Int
      BY <2>2, <2>4
    <3>2. SumOver(w, U \cup T) = SumOver(w, (U \cup T) \ {x}) + w[x]
      BY <2>2, <3>1, SumTakesAny
    <3> QED BY <2>5, <3>2
  <2>8. SumOver(w, V) \in Int /\ w[x] \in Int
    BY <2>2, <2>4, <2>5, SumIsWhole
  <2>9. SumOver(w, V \cup T) = SumOver(w, V) + SumOver(w, T)
    BY <2>5
  <2> HIDE DEF V
  <2> QED BY <2>3, <2>6, <2>7, <2>8, <2>9
<1>2. S \in SUBSET S /\ S \notin B
  BY <1>1
<1> QED BY <1>2

\* A sum of what is not negative is not, and is no less than any part of it.
LEMMA SumGrows ==
  ASSUME NEW w, NEW T, IsFiniteSet(T), NEW S \in SUBSET T, \A x \in T : w[x] \in Nat
  PROVE  SumOver(w, S) \in Nat /\ SumOver(w, T) \in Nat /\ SumOver(w, S) <= SumOver(w, T)
<1>1. ASSUME NEW U \in SUBSET T PROVE SumOver(w, U) \in Nat
  <2> DEFINE B == {V \in SUBSET U : SumOver(w, V) \notin Nat}
  <2>0. IsFiniteSet(U)
    BY FS_Subset
  <2>1. ASSUME B # {} PROVE FALSE
    <3>1. PICK V \in B : IsMinimal(V, B)
      <4>1. B \subseteq SUBSET U
        OBVIOUS
      <4> HIDE DEF B
      <4> QED BY <2>0, <2>1, <4>1, SmallestSubset
    <3>2. IsFiniteSet(V)
      BY <2>0, FS_Subset
    <3>3. SumOver(w, V) = IF V = {} THEN 0 ELSE w[Chosen(V)] + SumOver(w, V \ {Chosen(V)})
      BY <3>2, SumUnfolds
    <3>4. V # {}
      BY <3>3
    <3>5. Chosen(V) \in T /\ V \ {Chosen(V)} \in SUBSET U /\ V \ {Chosen(V)} \notin B
      BY <3>1, <3>4, ChosenFrom DEF IsMinimal
    <3>6. w[Chosen(V)] \in Nat /\ SumOver(w, V \ {Chosen(V)}) \in Nat
      BY <3>5
    <3> QED BY <3>3, <3>4, <3>6
  <2> QED BY <2>1
<1>2. SumOver(w, T) = SumOver(w, S) + SumOver(w, T \ S)
  <2>1. S \cup (T \ S) = T /\ S \cap (T \ S) = {} /\ \A x \in T : w[x] \in Int
    OBVIOUS
  <2>2. SumOver(w, S \cup (T \ S)) = SumOver(w, S) + SumOver(w, T \ S)
    BY <2>1, SumSplits
  <2> QED BY <2>1, <2>2
<1>3. T \ S \in SUBSET T
  OBVIOUS
<1>4. SumOver(w, S) \in Nat /\ SumOver(w, T \ S) \in Nat
  BY <1>1, <1>3
<1> QED BY <1>2, <1>4

\* Sorted by g, the parts add up to the whole.
LEMMA SumByParts ==
  ASSUME NEW w, NEW S, IsFiniteSet(S), \A x \in S : w[x] \in Int, NEW g,
         NEW K, IsFiniteSet(K), \A x \in S : g[x] \in K,
         NEW class, \A c \in K : \A x : x \in class[c] <=> x \in S /\ g[x] = c,
         NEW part, \A c \in K : part[c] = SumOver(w, class[c])
  PROVE  SumOver(part, K) = SumOver(w, S)
<1> DEFINE In(L) == {x \in S : g[x] \in L}
           B == {L \in SUBSET K : SumOver(part, L) # SumOver(w, In(L))}
<1>0. ASSUME NEW P \in SUBSET S PROVE IsFiniteSet(P) /\ SumOver(w, P) \in Int
  <2>1. IsFiniteSet(P)
    BY FS_Subset
  <2> QED BY <2>1, SumIsWhole
<1>1. ASSUME B # {} PROVE FALSE
  <2>1. PICK L \in B : IsMinimal(L, B)
    <3>1. B \subseteq SUBSET K
      OBVIOUS
    <3> HIDE DEF B
    <3> QED BY <1>1, <3>1, SmallestSubset
  <2>2. L \in SUBSET K /\ IsFiniteSet(L)
    BY FS_Subset
  <2>3. PICK c \in L : TRUE
    <3>1. In({}) = {}
      OBVIOUS
    <3>2. SumOver(part, {}) = 0 /\ SumOver(w, {}) = 0
      BY SumOfNone
    <3>3. {} \notin B
      <4> HIDE DEF In
      <4> QED BY <3>1, <3>2
    <3> HIDE DEF B
    <3> QED BY <3>3
  <2> DEFINE M == L \ {c}
             one == {x \in S : g[x] = c}
  <2>4. M \in SUBSET K /\ M \notin B
    BY <2>1, <2>2, <2>3 DEF IsMinimal
  <2>5. SumOver(part, M) = SumOver(w, In(M))
    BY <2>4
  <2>6. In(L) = In(M) \cup one /\ In(M) \cap one = {} /\ In(L) \in SUBSET S
        /\ In(M) \in SUBSET S /\ one \in SUBSET S
    BY <2>3
  <2>7. part[c] = SumOver(w, one)
    <3>1. class[c] = one /\ c \in K
      BY <2>2, <2>3
    <3> QED BY <3>1
  <2>8. SumOver(part, L) = SumOver(part, M) + part[c]
    <3>1. \A d \in L : part[d] \in Int
      <4> SUFFICES ASSUME NEW d \in L PROVE part[d] \in Int
        OBVIOUS
      <4>1. part[d] = SumOver(w, class[d])
        BY <2>2
      <4>2. class[d] \in SUBSET S
        <5>1. \A x : x \in class[d] <=> x \in S /\ g[x] = d
          BY <2>2
        <5> QED BY <5>1
      <4> QED BY <1>0, <4>1, <4>2
    <3> HIDE DEF B, In, one
    <3> QED BY <2>2, <2>3, <3>1, SumTakesAny
  <2>9. L \in B
    OBVIOUS
  <2>10. SumOver(part, L) # SumOver(w, In(L))
    BY <2>9
  <2> HIDE DEF In, M, one, B
  <2>11. SumOver(w, In(L)) = SumOver(w, In(M)) + SumOver(w, one)
    <3>1. IsFiniteSet(In(M) \cup one) /\ \A x \in In(M) \cup one : w[x] \in Int
      BY <1>0, <2>6
    <3>2. SumOver(w, In(M) \cup one) = SumOver(w, In(M)) + SumOver(w, one)
      BY <2>6, <3>1, SumSplits
    <3> QED BY <2>6, <3>2
  <2> QED BY <2>5, <2>7, <2>8, <2>10, <2>11
<1>2. K \in SUBSET K /\ K \notin B
  BY <1>1
<1>3. In(K) = S
  OBVIOUS
<1> HIDE DEF In
<1> QED BY <1>2, <1>3

\* What each step adds is what the last value is above the first.
LEMMA SumOfSteps ==
  ASSUME NEW f, NEW n \in Nat \ {0}, \A i \in 1..n : f[i] \in Int,
         NEW step, \A i \in 1..(n - 1) : step[i] = f[i + 1] - f[i]
  PROVE  SumOver(step, 1..(n - 1)) = f[n] - f[1]
<1> DEFINE B == {m \in 1..n : SumOver(step, 1..(m - 1)) # f[m] - f[1]}
<1>1. ASSUME B # {} PROVE FALSE
  <2>1. PICK m \in B : \A k \in B : m <= k
    <3>1. B \in SUBSET Int /\ IsFiniteSet(B)
      <4>1. B \in SUBSET (1..n) /\ IsFiniteSet(1..n)
        BY FS_Interval
      <4> QED BY <4>1, FS_Subset
    <3> HIDE DEF B
    <3> QED BY <1>1, <3>1, HasLeast
  <2>2. m # 1
    <3>1. SumOver(step, {}) = 0
      BY SumOfNone
    <3>2. 1..(1 - 1) = {}
      OBVIOUS
    <3>3. f[1] \in Int
      OBVIOUS
    <3>4. 1 \notin B
      BY <3>1, <3>2, <3>3
    <3> QED BY <3>4
  <2> DEFINE l == m - 1
  <2>3. l \in 1..n /\ l + 1 = m /\ l \notin B /\ m \in 1..n
    BY <2>1, <2>2
  <2>4. SumOver(step, 1..(l - 1)) = f[l] - f[1]
    BY <2>3
  <2>5. step[l] = f[m] - f[l] /\ f[l] \in Int /\ f[m] \in Int /\ f[1] \in Int
    BY <2>3
  <2>6. SumOver(step, 1..l) = SumOver(step, 1..(l - 1)) + step[l]
    <3>0. l \in Nat \ {0} /\ l <= n - 1
      BY <2>3
    <3>1. IsFiniteSet(1..l) /\ l \in 1..l /\ (1..l) \ {l} = 1..(l - 1)
      <4> HIDE DEF l, B
      <4>1. IsFiniteSet(1..l)
        BY <3>0, FS_Interval
      <4> QED BY <3>0, <4>1
    <3>2. \A i \in 1..l : step[i] \in Int
      <4> SUFFICES ASSUME NEW i \in 1..l PROVE step[i] \in Int
        OBVIOUS
      <4> HIDE DEF l, B
      <4>1. i \in 1..(n - 1) /\ i \in 1..n /\ i + 1 \in 1..n
        BY <3>0
      <4>2. f[i] \in Int /\ f[i + 1] \in Int
        BY <4>1
      <4>3. step[i] = f[i + 1] - f[i]
        BY <4>1
      <4> QED BY <4>2, <4>3
    <3>3. SumOver(step, 1..l) = SumOver(step, (1..l) \ {l}) + step[l]
      BY <3>1, <3>2, SumTakesAny
    <3> QED BY <3>1, <3>3
  <2>7. SumOver(step, 1..(m - 1)) # f[m] - f[1]
    OBVIOUS
  <2> HIDE DEF B, l
  <2>8. m - 1 = l
    BY <2>3 DEF l
  <2> QED BY <2>4, <2>5, <2>6, <2>7, <2>8
<1>2. n \in 1..n
  OBVIOUS
<1> QED BY <1>1, <1>2

-----------------------------------------------------------------------------
\* Lattices.

IsLattice(lat) == lat \in SUBSET Int /\ IsFiniteSet(lat)

\* Snapping a start never moves it the wrong way.
LEMMA SnapForwardMovesForward ==
  ASSUME NEW lat, IsLattice(lat), NEW i \in Int
  PROVE  SnapStartForward(lat, i) \in Int /\ SnapStartForward(lat, i) >= i
<1> DEFINE later == AtOrAfter(lat, i)
<1>1. \A w \in later : w \in Int /\ w >= i
  BY DEF IsLattice, AtOrAfter
<1>2. CASE \E w \in later : IsLeast(later, w)
  <2>1. IsLeast(later, CHOOSE w \in later : IsLeast(later, w))
    BY <1>2
  <2> QED BY <1>1, <1>2, <2>1 DEF SnapStartForward, IsLeast
<1>3. CASE ~ \E w \in later : IsLeast(later, w)
  BY <1>3 DEF SnapStartForward
<1> QED BY <1>2, <1>3

\* Snapping a start back never moves it forward.
LEMMA SnapBackMovesBack ==
  ASSUME NEW lat, IsLattice(lat), NEW i \in Int
  PROVE  SnapStartBack(lat, i) \in Int /\ SnapStartBack(lat, i) <= i
<1> DEFINE earlier == AtOrBefore(lat, i)
<1>1. \A w \in earlier : w \in Int /\ w <= i
  BY DEF IsLattice, AtOrBefore
<1>2. CASE \E w \in earlier : IsGreatest(earlier, w)
  <2>1. IsGreatest(earlier, CHOOSE w \in earlier : IsGreatest(earlier, w))
    BY <1>2
  <2> QED BY <1>1, <1>2, <2>1 DEF SnapStartBack, IsGreatest
<1>3. CASE ~ \E w \in earlier : IsGreatest(earlier, w)
  BY <1>3 DEF SnapStartBack
<1> QED BY <1>2, <1>3

\* Finish boundaries likewise.
LEMMA SnapFinishMoves ==
  ASSUME NEW lat, IsLattice(lat), NEW i \in Int
  PROVE  /\ SnapFinishForward(lat, i) \in Int /\ SnapFinishForward(lat, i) >= i
         /\ SnapFinishBack(lat, i) \in Int /\ SnapFinishBack(lat, i) <= i
<1>1. i - 1 \in Int
  OBVIOUS
<1>2. SnapStartForward(lat, i - 1) \in Int /\ SnapStartForward(lat, i - 1) >= i - 1
  BY <1>1, SnapForwardMovesForward
<1>3. SnapStartBack(lat, i - 1) \in Int /\ SnapStartBack(lat, i - 1) <= i - 1
  BY <1>1, SnapBackMovesBack
<1> QED BY <1>2, <1>3 DEF SnapFinishForward, SnapFinishBack

\* Positions in the lattice are counts.
LEMMA PositionsCount ==
  ASSUME NEW lat, IsLattice(lat), NEW i
  PROVE  BisectLeft(lat, i) \in Nat
<1>1. IsFiniteSet(DaysBefore(lat, i))
  <2>1. DaysBefore(lat, i) \in SUBSET lat
    BY DEF DaysBefore
  <2> QED BY <2>1, FS_Subset DEF IsLattice
<1> QED BY <1>1, FS_CardinalityType DEF BisectLeft

\* The number of working days between two instants is an integer.
LEMMA CountIsInteger ==
  ASSUME NEW lat, IsLattice(lat), NEW a, NEW b
  PROVE  CountWorkingDays(lat, a, b) \in Int
BY PositionsCount DEF CountWorkingDays

\* Positions grow with the instants, strictly past a working instant.
LEMMA PositionsGrow ==
  ASSUME NEW lat, IsLattice(lat), NEW i \in Int, NEW j \in Int, i <= j
  PROVE  /\ BisectLeft(lat, i) <= BisectLeft(lat, j)
         /\ i \in lat /\ i < j => BisectLeft(lat, i) < BisectLeft(lat, j)
<1>1. /\ DaysBefore(lat, i) \in SUBSET DaysBefore(lat, j)
      /\ DaysBefore(lat, j) \in SUBSET lat
  <2>1. \A w \in lat : w \in Int
    BY DEF IsLattice
  <2>2. \A w \in DaysBefore(lat, i) : w \in DaysBefore(lat, j)
    BY <2>1 DEF DaysBefore
  <2> QED BY <2>2 DEF DaysBefore
<1>2. IsFiniteSet(DaysBefore(lat, j))
  BY <1>1, FS_Subset DEF IsLattice
<1>3. /\ BisectLeft(lat, i) <= BisectLeft(lat, j)
      /\ BisectLeft(lat, i) = BisectLeft(lat, j) => DaysBefore(lat, i) = DaysBefore(lat, j)
  BY <1>1, <1>2, FS_Subset DEF BisectLeft
<1>4. i \in lat /\ i < j => i \in DaysBefore(lat, j) /\ i \notin DaysBefore(lat, i)
  BY DEF DaysBefore
<1> QED BY <1>3, <1>4, PositionsCount

\* Two working instants at one position are the same day: the choice in
\* AddWorkingDays is the list element the code indexes.
LEMMA PositionsAreUnique ==
  ASSUME NEW lat, IsLattice(lat), NEW v \in lat, NEW w \in lat,
         BisectLeft(lat, v) = BisectLeft(lat, w)
  PROVE  v = w
<1>1. v \in Int /\ w \in Int
  BY DEF IsLattice
<1>2. v < w => BisectLeft(lat, v) < BisectLeft(lat, w)
  BY <1>1, PositionsGrow
<1>3. w < v => BisectLeft(lat, w) < BisectLeft(lat, v)
  BY <1>1, PositionsGrow
<1> QED BY <1>1, <1>2, <1>3, PositionsCount

\* Adding working days never moves an instant back, taking them away never
\* moves a working instant forward.
LEMMA AddingMovesForward ==
  ASSUME NEW lat, IsLattice(lat), NEW i \in Int, NEW n \in Int
  PROVE  /\ AddWorkingDays(lat, i, n) \in Int
         /\ n >= 0 => AddWorkingDays(lat, i, n) >= i
<1>1. CASE \E w \in lat : IsDaysFrom(lat, i, n, w)
  <2> DEFINE w == CHOOSE w \in lat : IsDaysFrom(lat, i, n, w)
  <2>1. w \in lat /\ IsDaysFrom(lat, i, n, w)
    BY <1>1
  <2>2. w \in Int /\ BisectLeft(lat, w) = BisectLeft(lat, i) + n
    BY <2>1 DEF IsLattice, IsDaysFrom
  <2>3. w < i => BisectLeft(lat, w) < BisectLeft(lat, i)
    BY <2>1, <2>2, PositionsGrow
  <2>4. n >= 0 => w >= i
    <3>1. BisectLeft(lat, w) \in Nat /\ BisectLeft(lat, i) \in Nat
      BY PositionsCount
    <3> QED BY <2>2, <2>3, <3>1
  <2> QED BY <1>1, <2>2, <2>4 DEF AddWorkingDays
<1>2. CASE ~ \E w \in lat : IsDaysFrom(lat, i, n, w)
  BY <1>2 DEF AddWorkingDays
<1> QED BY <1>1, <1>2

\* Counting undoes adding: an instant moved by n working days, if the lattice
\* reaches that far, is n working days away.
LEMMA CountUndoesAdd ==
  ASSUME NEW lat, IsLattice(lat), NEW i \in lat, NEW n \in Int,
         \E w \in lat : IsDaysFrom(lat, i, n, w)
  PROVE  /\ AddWorkingDays(lat, i, n) \in lat
         /\ CountWorkingDays(lat, i, AddWorkingDays(lat, i, n)) = n
<1> DEFINE w == CHOOSE w \in lat : IsDaysFrom(lat, i, n, w)
<1>1. w \in lat /\ IsDaysFrom(lat, i, n, w) /\ AddWorkingDays(lat, i, n) = w
  BY DEF AddWorkingDays
<1>2. BisectLeft(lat, i) \in Nat /\ BisectLeft(lat, w) = BisectLeft(lat, i) + n
  BY <1>1, PositionsCount DEF IsDaysFrom
<1> QED BY <1>1, <1>2 DEF CountWorkingDays

\* ... and taking the days away again returns to where one started.
LEMMA SubUndoesAdd ==
  ASSUME NEW lat, IsLattice(lat), NEW i \in lat, NEW n \in Int,
         \E w \in lat : IsDaysFrom(lat, i, n, w)
  PROVE  SubWorkingDays(lat, AddWorkingDays(lat, i, n), n) = i
<1> DEFINE w == AddWorkingDays(lat, i, n)
<1>1. w \in lat /\ CountWorkingDays(lat, i, w) = n
  BY CountUndoesAdd
<1>2. BisectLeft(lat, w) \in Nat /\ BisectLeft(lat, i) \in Nat
  BY PositionsCount
<1>3. BisectLeft(lat, w) - BisectLeft(lat, i) = n
  BY <1>1 DEF CountWorkingDays
<1>4. IsDaysFrom(lat, w, -n, i)
  BY <1>2, <1>3 DEF IsDaysFrom
<1> DEFINE v == CHOOSE v \in lat : IsDaysFrom(lat, w, -n, v)
<1>5. v \in lat /\ IsDaysFrom(lat, w, -n, v) /\ AddWorkingDays(lat, w, -n) = v
  BY <1>4 DEF AddWorkingDays
<1>6. BisectLeft(lat, v) = BisectLeft(lat, i)
  BY <1>4, <1>5 DEF IsDaysFrom
<1> HIDE DEF v, w
<1>7. v = i
  BY <1>5, <1>6, PositionsAreUnique
<1> QED BY <1>5, <1>7 DEF SubWorkingDays, w

-----------------------------------------------------------------------------
\* Spans.

\* A working instant is its own snap, both ways.
LEMMA WorkingInstantsStay ==
  ASSUME NEW lat, IsLattice(lat), NEW i \in lat
  PROVE  SnapStartForward(lat, i) = i /\ SnapStartBack(lat, i) = i
<1>1. i \in Int
  BY DEF IsLattice
<1>2. /\ i \in AtOrAfter(lat, i) /\ IsLeast(AtOrAfter(lat, i), i)
      /\ i \in AtOrBefore(lat, i) /\ IsGreatest(AtOrBefore(lat, i), i)
  BY <1>1 DEF AtOrAfter, AtOrBefore, IsLeast, IsGreatest
<1>3. \A v : IsLeast(AtOrAfter(lat, i), v) => v = i
  BY <1>1, <1>2 DEF AtOrAfter, IsLeast, IsLattice
<1>4. \A v : IsGreatest(AtOrBefore(lat, i), v) => v = i
  BY <1>1, <1>2 DEF AtOrBefore, IsGreatest, IsLattice
<1>5. SnapStartForward(lat, i) = i
  BY <1>2, <1>3 DEF SnapStartForward
<1>6. SnapStartBack(lat, i) = i
  BY <1>2, <1>4 DEF SnapStartBack
<1> QED BY <1>5, <1>6

\* The last day worked is within the lattice's reach.
Reaches(lat, start, duration) ==
  duration > 0 => \E w \in lat : IsDaysFrom(lat, start, duration - 1, w)

\* Both passes agree about spans: the start recovered from the finish of a span
\* is the start it was computed from (the backward pass relies on it to give
\* an activity without slack the same dates as the forward pass).
THEOREM StartFromFinishUndoesFinishFromStart ==
  ASSUME NEW lat, IsLattice(lat), NEW start \in lat, NEW duration \in Nat,
         Reaches(lat, start, duration)
  PROVE  StartFromFinish(lat, FinishFromStart(lat, start, duration), duration) = start
<1>1. CASE duration = 0
  BY <1>1 DEF FinishFromStart, StartFromFinish
<1>2. CASE duration > 0
  <2> DEFINE n    == duration - 1
             last == AddWorkingDays(lat, start, n)
  <2>1. n \in Int /\ \E w \in lat : IsDaysFrom(lat, start, n, w)
    BY <1>2 DEF Reaches
  <2>2. FinishFromStart(lat, start, duration) = last + 1
    BY <1>2, WorkingInstantsStay DEF FinishFromStart
  <2> HIDE DEF n
  <2>3. last \in lat /\ SubWorkingDays(lat, last, n) = start
    BY <2>1, CountUndoesAdd, SubUndoesAdd
  <2> HIDE DEF last
  <2>4. last \in Int /\ (last + 1) - 1 = last
    <3>1. last \in Int
      BY <2>3 DEF IsLattice
    <3> QED BY <3>1
  <2>5. SnapStartBack(lat, (last + 1) - 1) = last
    BY <2>3, <2>4, WorkingInstantsStay
  <2> QED BY <1>2, <2>2, <2>3, <2>5 DEF StartFromFinish, n
<1> QED BY <1>1, <1>2

\* A span never ends before it starts, and covers exactly its duration.
THEOREM SpanHasItsDuration ==
  ASSUME NEW lat, IsLattice(lat), NEW start \in lat, NEW duration \in Nat,
         Reaches(lat, start, duration)
  PROVE  CountWorkingDays(lat, start, FinishFromStart(lat, start, duration)) = duration
<1>1. CASE duration = 0
  BY <1>1, PositionsCount DEF FinishFromStart, CountWorkingDays
<1>2. CASE duration > 0
  <2> DEFINE n    == duration - 1
             last == AddWorkingDays(lat, start, n)
  <2>1. n \in Int /\ \E w \in lat : IsDaysFrom(lat, start, n, w)
    BY <1>2 DEF Reaches
  <2>2. FinishFromStart(lat, start, duration) = last + 1
    BY <1>2, WorkingInstantsStay DEF FinishFromStart
  <2> HIDE DEF n
  <2>3. last \in lat /\ CountWorkingDays(lat, start, last) = n
    BY <2>1, CountUndoesAdd
  <2> HIDE DEF last
  <2>4. last \in Int
    BY <2>3 DEF IsLattice
  <2>5. DaysBefore(lat, last + 1) = DaysBefore(lat, last) \cup {last}
    <3>1. \A w \in lat : w \in Int /\ (w < last + 1 <=> w < last \/ w = last)
      BY <2>4 DEF IsLattice
    <3> QED BY <2>3, <3>1 DEF DaysBefore
  <2>6. last \notin DaysBefore(lat, last) /\ IsFiniteSet(DaysBefore(lat, last))
    <3>1. DaysBefore(lat, last) \in SUBSET lat
      BY DEF DaysBefore
    <3> QED BY <2>4, <3>1, FS_Subset DEF DaysBefore, IsLattice
  <2>7. BisectLeft(lat, last + 1) = BisectLeft(lat, last) + 1
    BY <2>5, <2>6, FS_AddElement DEF BisectLeft
  <2>8. /\ BisectLeft(lat, last) \in Nat /\ BisectLeft(lat, start) \in Nat
        /\ BisectLeft(lat, last) - BisectLeft(lat, start) = duration - 1
    BY <2>3, PositionsCount DEF CountWorkingDays, n
  <2> QED BY <2>2, <2>7, <2>8 DEF CountWorkingDays
<1> QED BY <1>1, <1>2

\* The conversions return instants.
LEMMA SpansAreInstants ==
  ASSUME NEW lat, IsLattice(lat), NEW i \in Int, NEW d \in Int
  PROVE  FinishFromStart(lat, i, d) \in Int /\ StartFromFinish(lat, i, d) \in Int
<1>1. SnapStartForward(lat, i) \in Int /\ d - 1 \in Int /\ -(d - 1) \in Int
  BY SnapForwardMovesForward
<1>2. AddWorkingDays(lat, SnapStartForward(lat, i), d - 1) \in Int
  BY <1>1, AddingMovesForward
<1>3. i - 1 \in Int
  OBVIOUS
<1>4. SnapStartBack(lat, i - 1) \in Int
  BY <1>3, SnapBackMovesBack
<1>5. AddWorkingDays(lat, SnapStartBack(lat, i - 1), -(d - 1)) \in Int
  BY <1>1, <1>4, AddingMovesForward
<1> QED BY <1>2, <1>5 DEF FinishFromStart, StartFromFinish, SubWorkingDays

-----------------------------------------------------------------------------
\* Sliding a span.

\* One more day is counted past a working instant.
LEMMA PastAWorkingDay ==
  ASSUME NEW lat, IsLattice(lat), NEW w \in lat
  PROVE  BisectLeft(lat, w + 1) = BisectLeft(lat, w) + 1
<1>1. w \in Int
  BY DEF IsLattice
<1>2. DaysBefore(lat, w + 1) = DaysBefore(lat, w) \cup {w}
  <2>1. \A v \in lat : v \in Int /\ (v < w + 1 <=> v < w \/ v = w)
    BY <1>1 DEF IsLattice
  <2> QED BY <2>1 DEF DaysBefore
<1>3. w \notin DaysBefore(lat, w) /\ IsFiniteSet(DaysBefore(lat, w))
  <2>1. DaysBefore(lat, w) \in SUBSET lat
    BY DEF DaysBefore
  <2> QED BY <1>1, <2>1, FS_Subset DEF DaysBefore, IsLattice
<1> QED BY <1>2, <1>3, FS_AddElement DEF BisectLeft

\* An instant with working days before it has a last one, whose position is
\* the one before.
LEMMA LastDayBefore ==
  ASSUME NEW lat, IsLattice(lat), NEW i \in Int, BisectLeft(lat, i) > 0
  PROVE  \E w \in lat : w < i /\ BisectLeft(lat, i) = BisectLeft(lat, w) + 1
<1> DEFINE D == DaysBefore(lat, i)
<1>1. D \in SUBSET lat /\ IsFiniteSet(D) /\ D \in SUBSET Int
  <2>1. D \in SUBSET lat
    BY DEF DaysBefore
  <2> QED BY <2>1, FS_Subset DEF IsLattice
<1>2. D # {}
  BY FS_EmptySet DEF BisectLeft
<1> HIDE DEF D
<1>3. PICK w \in D : \A v \in D : v <= w
  BY <1>1, <1>2, HasGreatest
<1>4. w \in lat /\ w < i /\ w \in Int
  BY <1>1, <1>3 DEF D, DaysBefore
<1>5. DaysBefore(lat, i) = DaysBefore(lat, w + 1)
  <2>1. \A v \in lat : v \in Int /\ (v < i <=> v < w + 1)
    <3> SUFFICES ASSUME NEW v \in lat
                 PROVE  v \in Int /\ (v < i <=> v < w + 1)
      OBVIOUS
    <3>1. v \in Int
      BY DEF IsLattice
    <3>2. v < i => v <= w
      BY <1>3 DEF D, DaysBefore
    <3> QED BY <3>1, <3>2, <1>4
  <2> QED BY <2>1 DEF DaysBefore
<1>6. BisectLeft(lat, i) = BisectLeft(lat, w) + 1
  BY <1>4, <1>5, PastAWorkingDay DEF BisectLeft
<1> QED BY <1>4, <1>6

\* Positions have no gaps: every count below the one of an instant is the
\* position of some working instant.
LEMMA PositionsHaveNoGaps ==
  ASSUME NEW lat, IsLattice(lat), NEW i \in Int, NEW n \in Nat, n < BisectLeft(lat, i)
  PROVE  \E w \in lat : BisectLeft(lat, w) = n
<1> DEFINE K == {w \in lat : w < i /\ BisectLeft(lat, w) >= n}
<1>1. K \in SUBSET lat /\ K \in SUBSET Int /\ IsFiniteSet(K)
  <2>1. K \in SUBSET lat
    OBVIOUS
  <2> HIDE DEF K
  <2> QED BY <2>1, FS_Subset DEF IsLattice
<1>2. K # {}
  <2>1. PICK w \in lat : w < i /\ BisectLeft(lat, i) = BisectLeft(lat, w) + 1
    <3>1. BisectLeft(lat, i) > 0
      BY PositionsCount
    <3> QED BY <3>1, LastDayBefore
  <2>2. BisectLeft(lat, w) >= n
    BY <2>1, PositionsCount
  <2> QED BY <2>1, <2>2
<1>3. PICK u \in K : \A v \in K : u <= v
  <2> HIDE DEF K
  <2> QED BY <1>1, <1>2, HasLeast
<1>4. u \in lat /\ u \in Int /\ u < i /\ BisectLeft(lat, u) >= n /\ BisectLeft(lat, u) \in Nat
  BY <1>1, PositionsCount
<1>5. ASSUME BisectLeft(lat, u) > n PROVE FALSE
  <2>1. PICK w \in lat : w < u /\ BisectLeft(lat, u) = BisectLeft(lat, w) + 1
    <3>1. BisectLeft(lat, u) > 0
      BY <1>4, <1>5
    <3> QED BY <3>1, <1>4, LastDayBefore
  <2>2. w \in Int /\ BisectLeft(lat, w) \in Nat
    BY PositionsCount DEF IsLattice
  <2>3. w < i /\ BisectLeft(lat, w) >= n
    BY <1>4, <1>5, <2>1, <2>2
  <2>4. u <= w
    BY <1>3, <2>3
  <2> QED BY <2>1, <2>2, <2>4, <1>4
<1> QED BY <1>4, <1>5

\* A snapped start is a working instant, unless no working instant follows;
\* either way it is its own snap.
LEMMA SnapIsSettled ==
  ASSUME NEW lat, IsLattice(lat), NEW i \in Int
  PROVE  LET s == SnapStartForward(lat, i)
         IN  /\ SnapStartForward(lat, s) = s
             /\ s \in lat \/ (\A w \in lat : w < s)
<1> DEFINE later == AtOrAfter(lat, i)
<1>1. CASE \E w \in lat : w >= i
  <2>1. later \in SUBSET lat /\ later # {}
    BY <1>1 DEF AtOrAfter
  <2>2. later \in SUBSET Int /\ IsFiniteSet(later)
    BY <2>1, FS_Subset DEF IsLattice
  <2> HIDE DEF later
  <2>3. \E w \in later : IsLeast(later, w)
    BY <2>1, <2>2, HasLeast DEF IsLeast
  <2>4. SnapStartForward(lat, i) \in later
    BY <2>3 DEF SnapStartForward, later
  <2> QED BY <2>1, <2>4, WorkingInstantsStay
<1>2. CASE ~\E w \in lat : w >= i
  <2>1. later = {} /\ SnapStartForward(lat, i) = i
    BY <1>2 DEF AtOrAfter, SnapStartForward
  <2>2. \A w \in lat : w < i
    BY <1>2 DEF IsLattice
  <2> QED BY <2>1, <2>2
<1> QED BY <1>1, <1>2

\* The position counted to bounds the instant: what is counted below the day
\* after a working day is not after it, and the other way round.
LEMMA PositionsDecide ==
  ASSUME NEW lat, IsLattice(lat), NEW w \in lat, NEW i \in Int
  PROVE  /\ BisectLeft(lat, i) > BisectLeft(lat, w) => i >= w + 1
         /\ i \in lat /\ BisectLeft(lat, i) >= BisectLeft(lat, w) => i >= w
<1>1. w \in Int /\ BisectLeft(lat, i) \in Nat /\ BisectLeft(lat, w) \in Nat
  BY PositionsCount DEF IsLattice
<1>2. i <= w => BisectLeft(lat, i) <= BisectLeft(lat, w)
  BY <1>1, PositionsGrow
<1>3. i \in lat /\ i < w => BisectLeft(lat, i) < BisectLeft(lat, w)
  BY <1>1, PositionsGrow
<1> QED BY <1>1, <1>2, <1>3

\* The last day of a span: the position d - 1 after its start, and if the
\* lattice does not reach so far, the start itself.
LEMMA FinishOfSpan ==
  ASSUME NEW lat, IsLattice(lat), NEW s \in lat, NEW d \in Nat, d > 0
  PROVE  \E v \in lat :
           /\ FinishFromStart(lat, s, d) = v + 1
           /\ \/ BisectLeft(lat, v) = BisectLeft(lat, s) + (d - 1)
              \/ v = s /\ \A u \in lat : BisectLeft(lat, u) # BisectLeft(lat, s) + (d - 1)
<1>1. FinishFromStart(lat, s, d) = AddWorkingDays(lat, s, d - 1) + 1
  BY WorkingInstantsStay DEF FinishFromStart
<1>2. CASE \E w \in lat : IsDaysFrom(lat, s, d - 1, w)
  <2> DEFINE w == CHOOSE w \in lat : IsDaysFrom(lat, s, d - 1, w)
  <2>1. w \in lat /\ IsDaysFrom(lat, s, d - 1, w)
    BY <1>2
  <2>2. AddWorkingDays(lat, s, d - 1) = w
    BY <1>2 DEF AddWorkingDays
  <2> HIDE DEF w
  <2> QED BY <1>1, <2>1, <2>2 DEF IsDaysFrom
<1>3. CASE ~\E w \in lat : IsDaysFrom(lat, s, d - 1, w)
  <2>1. AddWorkingDays(lat, s, d - 1) = s
    BY <1>3 DEF AddWorkingDays
  <2> QED BY <1>1, <1>3, <2>1 DEF IsDaysFrom
<1> QED BY <1>2, <1>3

\* A span slid by its room, counted from its finish up to an instant, moves
\* later and still ends by that instant; a milestone does if the instant is a
\* working one.  Off the end of the lattice it stays where it is.
LEMMA SlidingFits ==
  ASSUME NEW lat, IsLattice(lat), NEW s \in Int, SnapStartForward(lat, s) = s,
         s \in lat \/ (\A w \in lat : w < s),
         NEW d \in Nat, NEW f, f = FinishFromStart(lat, s, d),
         NEW i \in Int, NEW room \in Int, room > 0, room <= CountWorkingDays(lat, f, i),
         NEW start, start = AddWorkingDays(lat, s, room),
         NEW finish, finish = FinishFromStart(lat, start, d)
  PROVE  /\ start \in Int /\ start >= s
         /\ start = s => finish = f
         /\ start # s => start > s /\ finish > f
         /\ f <= i /\ (d > 0 \/ i \in lat) => finish <= i
<1> DEFINE B(j) == BisectLeft(lat, j)
<1>1. \A j : B(j) \in Nat
  BY PositionsCount
<1>2. start \in Int /\ start >= s
  BY AddingMovesForward
<1>3. f \in Int /\ finish \in Int
  BY <1>2, SpansAreInstants
<1>4. room <= B(i) - B(f)
  BY DEF CountWorkingDays
<1>5. start = s => finish = f
  OBVIOUS
<1>6. CASE start = s
  BY <1>2, <1>3, <1>5, <1>6
<1>7. CASE start # s
  <2>1. start \in lat /\ B(start) = B(s) + room /\ start > s
    <3>1. CASE \E w \in lat : IsDaysFrom(lat, s, room, w)
      <4> DEFINE w == CHOOSE w \in lat : IsDaysFrom(lat, s, room, w)
      <4>1. w \in lat /\ IsDaysFrom(lat, s, room, w)
        BY <3>1
      <4>2. start = w
        BY <3>1 DEF AddWorkingDays
      <4> HIDE DEF w
      <4> QED BY <1>2, <1>7, <4>1, <4>2 DEF IsDaysFrom
    <3>2. CASE ~\E w \in lat : IsDaysFrom(lat, s, room, w)
      BY <1>7, <3>2 DEF AddWorkingDays
    <3> QED BY <3>1, <3>2
  <2>2. s \in lat
    BY <1>2, <2>1
  <2>3. CASE d = 0
    <3>1. f = s /\ finish = start
      BY <2>3 DEF FinishFromStart
    <3>2. B(i) >= B(start)
      BY <1>1, <1>4, <2>1, <3>1
    <3> HIDE DEF B
    <3>3. i \in lat => i >= start
      BY <2>1, <3>2, PositionsDecide DEF B
    <3> QED BY <1>2, <2>1, <2>3, <3>1, <3>3
  <2>4. CASE d > 0
    <3>1. PICK u \in lat :
            /\ f = u + 1
            /\ \/ B(u) = B(s) + (d - 1)
               \/ u = s /\ \A w \in lat : B(w) # B(s) + (d - 1)
      BY <2>2, <2>4, FinishOfSpan
    <3>2. PICK v \in lat :
            /\ finish = v + 1
            /\ \/ B(v) = B(start) + (d - 1)
               \/ v = start /\ \A w \in lat : B(w) # B(start) + (d - 1)
      BY <2>1, <2>4, FinishOfSpan
    <3>3. u \in Int /\ v \in Int /\ B(f) = B(u) + 1
      BY <3>1, PastAWorkingDay DEF IsLattice
    <3>4. B(i) > B(u) + room
      BY <1>1, <1>4, <3>3
    <3>5. CASE B(u) = B(s) + (d - 1)
      <4>1. B(start) + (d - 1) = B(u) + room /\ B(start) + (d - 1) \in Nat
        BY <1>1, <2>1, <2>4, <3>5
      <4>2. \E w \in lat : B(w) = B(start) + (d - 1)
        BY <3>4, <4>1, PositionsHaveNoGaps
      <4>3. B(v) = B(u) + room
        BY <3>2, <4>1, <4>2
      <4> HIDE DEF B
      <4>4. i >= v + 1
        BY <3>4, <4>3, PositionsDecide DEF B
      <4>5. v >= u + 1
        BY <1>1, <3>3, <4>3, PositionsDecide DEF B
      <4> QED BY <2>1, <3>1, <3>2, <3>3, <4>4, <4>5
    <3>6. CASE u = s /\ \A w \in lat : B(w) # B(s) + (d - 1)
      <4>1. v = start
        <5>1. SUFFICES ASSUME B(v) = B(start) + (d - 1)
                       PROVE  FALSE
          BY <3>2
        <5>2. B(s) + (d - 1) \in Nat /\ B(s) + (d - 1) < B(v)
          BY <1>1, <2>1, <2>4, <5>1
        <5>3. \E w \in lat : B(w) = B(s) + (d - 1)
          BY <3>3, <5>2, PositionsHaveNoGaps
        <5> QED BY <3>6, <5>3
      <4>2. B(i) > B(start)
        BY <1>1, <2>1, <3>4, <3>6
      <4> HIDE DEF B
      <4>3. i >= start + 1
        BY <2>1, <4>2, PositionsDecide DEF B
      <4> QED BY <2>1, <3>1, <3>2, <3>6, <4>1, <4>3
    <3> QED BY <3>1, <3>5, <3>6
  <2> QED BY <2>3, <2>4
<1> QED BY <1>2, <1>6, <1>7

-----------------------------------------------------------------------------
\* The day a boundary closes.

\* No working day lies between an instant and its snap.
LEMMA SnapSkipsNothing ==
  ASSUME NEW lat, IsLattice(lat), NEW i \in Int
  PROVE  /\ \A w \in lat : w < SnapStartForward(lat, i) => w < i
         /\ BisectLeft(lat, SnapStartForward(lat, i)) = BisectLeft(lat, i)
<1> DEFINE s == SnapStartForward(lat, i)
<1>1. s \in Int /\ s >= i
  BY SnapForwardMovesForward
<1>2. \A w \in lat : w \in Int
  BY DEF IsLattice
<1>3. ASSUME NEW w \in lat, w < s, w >= i PROVE FALSE
  <2>1. w \in AtOrAfter(lat, i)
    BY <1>3 DEF AtOrAfter
  <2>2. \A v : IsLeast(AtOrAfter(lat, i), v) => v <= w
    BY <2>1 DEF IsLeast
  <2>3. CASE \E v \in AtOrAfter(lat, i) : IsLeast(AtOrAfter(lat, i), v)
    <3>1. IsLeast(AtOrAfter(lat, i), s)
      BY <2>3 DEF SnapStartForward
    <3>2. s <= w
      BY <2>2, <3>1
    <3> QED BY <1>1, <1>2, <1>3, <3>2
  <2>4. CASE ~\E v \in AtOrAfter(lat, i) : IsLeast(AtOrAfter(lat, i), v)
    <3>1. s = i
      BY <2>4 DEF SnapStartForward
    <3> QED BY <1>2, <1>3, <3>1
  <2> QED BY <2>3, <2>4
<1> HIDE DEF s
<1>4. \A w \in lat : w < s <=> w < i
  BY <1>1, <1>2, <1>3
<1>5. DaysBefore(lat, s) = DaysBefore(lat, i)
  BY <1>4 DEF DaysBefore
<1> QED BY <1>4, <1>5 DEF s, BisectLeft

\* The working day that a snapped boundary closes is the one it was snapped
\* from, and no boundary up to it closes a later one.
LEMMA SnapClosesItsDay ==
  ASSUME NEW lat, IsLattice(lat), NEW w \in lat, NEW i \in Int,
         i <= SnapStartForward(lat, w + 1) - 1
  PROVE  /\ SnapStartBack(lat, i) \in Int /\ SnapStartBack(lat, i) <= w
         /\ i = SnapStartForward(lat, w + 1) - 1 => SnapStartBack(lat, i) = w
<1> DEFINE s == SnapStartForward(lat, w + 1)
           earlier == AtOrBefore(lat, i)
<1>0. /\ w \in Int /\ w + 1 \in Int
      /\ \A v \in lat : v \in Int
  BY DEF IsLattice
<1>1. /\ s \in Int /\ s >= w + 1
      /\ \A v \in lat : v < s => v < w + 1
  BY <1>0, SnapForwardMovesForward, SnapSkipsNothing
<1>2. \A v \in earlier : v \in lat /\ v <= w
  <2>1. i < s
    BY <1>1
  <2>2. ASSUME NEW v \in lat, v <= i PROVE v <= w
    <3>1. v < s => v < w + 1
      BY <1>1
    <3>2. v \in Int
      BY <1>0
    <3> HIDE DEF s
    <3> QED BY <1>0, <1>1, <2>1, <2>2, <3>1, <3>2
  <2> QED BY <2>2 DEF AtOrBefore
<1>3. SnapStartBack(lat, i) \in Int /\ SnapStartBack(lat, i) <= i
  BY SnapBackMovesBack
<1>4. CASE w <= i
  <2>1. w \in earlier
    BY <1>4 DEF AtOrBefore
  <2>2. IsGreatest(earlier, w) /\ \A v : IsGreatest(earlier, v) => v = w
    <3> HIDE DEF earlier
    <3>1. \A v \in earlier : v \in Int /\ v <= w
      BY <1>0, <1>2
    <3>2. IsGreatest(earlier, w)
      BY <2>1, <3>1 DEF IsGreatest
    <3>3. ASSUME NEW v, IsGreatest(earlier, v) PROVE v = w
      <4>1. v \in earlier /\ w <= v
        BY <2>1, <3>3 DEF IsGreatest
      <4> QED BY <1>0, <3>1, <4>1
    <3> QED BY <3>2, <3>3
  <2>3. SnapStartBack(lat, i) = w
    BY <2>1, <2>2 DEF SnapStartBack
  <2> QED BY <1>0, <2>3
<1>5. CASE ~(w <= i)
  BY <1>0, <1>1, <1>3, <1>5
<1> QED BY <1>4, <1>5

-----------------------------------------------------------------------------
\* Caps.

\* Snapped back, an instant that some working day precedes is a working day.
LEMMA SnapBackLands ==
  ASSUME NEW lat, IsLattice(lat), NEW i \in Int, \E w \in lat : w <= i
  PROVE  SnapStartBack(lat, i) \in lat
<1> DEFINE earlier == AtOrBefore(lat, i)
<1>1. earlier \in SUBSET lat /\ earlier # {}
  BY DEF AtOrBefore
<1>2. earlier \in SUBSET Int /\ IsFiniteSet(earlier)
  BY <1>1, FS_Subset DEF IsLattice
<1> HIDE DEF earlier
<1>3. \E w \in earlier : IsGreatest(earlier, w)
  BY <1>1, <1>2, HasGreatest DEF IsGreatest
<1>4. SnapStartBack(lat, i) \in earlier
  BY <1>3 DEF SnapStartBack, earlier
<1> QED BY <1>1, <1>4

\* Work that ends after the boundary e by which it must end starts after the
\* day on which it must start for that.
LEMMA MissedFinish ==
  ASSUME NEW lat, IsLattice(lat), NEW d \in Nat, d > 0,
         NEW s \in lat, NEW f, f = FinishFromStart(lat, s, d), CountWorkingDays(lat, s, f) = d,
         NEW l, NEW e \in Int, CountWorkingDays(lat, l, e) = d, e < f
  PROVE  CountWorkingDays(lat, s, l) < 0
<1> DEFINE B(j) == BisectLeft(lat, j)
<1>1. \A j : B(j) \in Nat
  BY PositionsCount
<1>2. PICK v \in lat : f = v + 1
  BY FinishOfSpan
<1>3. v \in Int /\ B(f) = B(v) + 1
  BY <1>2, PastAWorkingDay DEF IsLattice
<1>4. e <= v
  BY <1>2, <1>3
<1>5. B(e) <= B(v)
  BY <1>3, <1>4, PositionsGrow
<1>6. B(f) - B(s) = d /\ B(e) - B(l) = d
  BY DEF CountWorkingDays
<1> HIDE DEF B
<1>7. B(l) - B(s) < 0
  BY <1>1, <1>3, <1>5, <1>6
<1> QED BY <1>7 DEF B, CountWorkingDays

\* The same for work that starts after the instant c by which it must start,
\* where it must end by what it would if it started then.
LEMMA MissedStart ==
  ASSUME NEW lat, IsLattice(lat), NEW d \in Nat, d > 0,
         NEW s \in lat, NEW c \in Int, c < s, \E w \in lat : w <= c,
         NEW l, NEW e \in Int, CountWorkingDays(lat, l, e) = d,
         e <= FinishFromStart(lat, SnapStartBack(lat, c), d)
  PROVE  CountWorkingDays(lat, s, l) < 0
<1> DEFINE B(j) == BisectLeft(lat, j)
<1>1. \A j : B(j) \in Nat
  BY PositionsCount
<1>2. PICK b \in lat : b = SnapStartBack(lat, c) /\ b <= c
  BY SnapBackLands, SnapBackMovesBack
<1>3. b \in Int /\ s \in Int /\ b < s
  BY <1>2 DEF IsLattice
<1>4. B(b) < B(s)
  BY <1>2, <1>3, PositionsGrow
<1>5. PICK v \in lat :
        /\ FinishFromStart(lat, b, d) = v + 1
        /\ B(v) = B(b) + (d - 1) \/ v = b
  BY <1>2, FinishOfSpan
<1>6. v \in Int /\ v + 1 \in Int /\ B(v + 1) = B(v) + 1 /\ e <= v + 1
  <2>1. v \in Int /\ v + 1 \in Int
    BY <1>5 DEF IsLattice
  <2>2. BisectLeft(lat, v + 1) = BisectLeft(lat, v) + 1
    BY <1>5, PastAWorkingDay
  <2>3. e <= v + 1
    BY <1>2, <1>5
  <2> QED BY <2>1, <2>2, <2>3
<1>7. B(e) <= B(v + 1)
  BY <1>6, PositionsGrow
<1>8. B(e) - B(l) = d
  BY DEF CountWorkingDays
<1> HIDE DEF B
<1>9. B(v) <= B(b) + (d - 1)
  BY <1>1, <1>5
<1>10. B(l) - B(s) < 0
  BY <1>1, <1>4, <1>6, <1>7, <1>8, <1>9
<1> QED BY <1>10 DEF B, CountWorkingDays

-----------------------------------------------------------------------------
\* The arithmetic is monotone as long as it stays on the lattice.

\* A snapped start is a working instant, or where it was.
LEMMA SnapForwardIs ==
  ASSUME NEW lat, IsLattice(lat), NEW i \in Int
  PROVE  SnapStartForward(lat, i) \in lat \/ SnapStartForward(lat, i) = i
<1>1. CASE \E w \in AtOrAfter(lat, i) : IsLeast(AtOrAfter(lat, i), w)
  <2>1. SnapStartForward(lat, i) \in AtOrAfter(lat, i)
    BY <1>1 DEF SnapStartForward
  <2> QED BY <2>1 DEF AtOrAfter
<1>2. CASE ~\E w \in AtOrAfter(lat, i) : IsLeast(AtOrAfter(lat, i), w)
  BY <1>2 DEF SnapStartForward
<1> QED BY <1>1, <1>2

\* A later instant is not snapped to an earlier start.
LEMMA SnapForwardGrows ==
  ASSUME NEW lat, IsLattice(lat), NEW i \in Int, NEW j \in Int, i <= j
  PROVE  SnapStartForward(lat, i) <= SnapStartForward(lat, j)
<1> DEFINE x == SnapStartForward(lat, i)
           y == SnapStartForward(lat, j)
<1>1. x \in Int /\ y \in Int /\ y >= j
  BY SnapForwardMovesForward
<1>2. \A w \in lat : w < x => w < i
  BY SnapSkipsNothing
<1>3. y \in lat \/ (\A w \in lat : w < y)
  BY SnapIsSettled
<1>4. x \in lat \/ x = i
  BY SnapForwardIs
<1> HIDE DEF x, y
<1>5. ASSUME y < x PROVE FALSE
  <2>1. CASE y \in lat
    BY <1>1, <1>2, <1>5, <2>1
  <2>2. CASE \A w \in lat : w < y
    BY <1>1, <1>4, <1>5, <2>2
  <2> QED BY <1>3, <2>1, <2>2
<1> QED BY <1>1, <1>5 DEF x, y

\* What a start snaps back to: the last working instant that precedes it, if any.
LEMMA SnapBackIs ==
  ASSUME NEW lat, IsLattice(lat), NEW i \in Int
  PROVE  /\ \A w \in lat : w <= i => w <= SnapStartBack(lat, i)
         /\ (~\E w \in lat : w <= i) => SnapStartBack(lat, i) = i
<1> DEFINE earlier == AtOrBefore(lat, i)
<1>1. \A w : w \in earlier <=> w \in lat /\ w <= i
  BY DEF AtOrBefore
<1>2. earlier \in SUBSET Int /\ IsFiniteSet(earlier)
  <2>1. earlier \in SUBSET lat
    BY <1>1
  <2> HIDE DEF earlier
  <2> QED BY <2>1, FS_Subset DEF IsLattice
<1> HIDE DEF earlier
<1>3. CASE earlier # {}
  <2>1. \E w \in earlier : IsGreatest(earlier, w)
    BY <1>2, <1>3, HasGreatest DEF IsGreatest
  <2>2. IsGreatest(earlier, SnapStartBack(lat, i))
    BY <2>1 DEF SnapStartBack, earlier
  <2> QED BY <1>1, <1>3, <2>2 DEF IsGreatest
<1>4. CASE earlier = {}
  <2>1. SnapStartBack(lat, i) = i
    BY <1>4 DEF SnapStartBack, earlier
  <2> QED BY <1>1, <1>4, <2>1
<1> QED BY <1>3, <1>4

\* A later instant is not snapped back to an earlier start.
LEMMA SnapBackGrows ==
  ASSUME NEW lat, IsLattice(lat), NEW i \in Int, NEW j \in Int, i <= j
  PROVE  SnapStartBack(lat, i) <= SnapStartBack(lat, j)
<1> DEFINE x == SnapStartBack(lat, i)
           y == SnapStartBack(lat, j)
<1>1. x \in Int /\ y \in Int /\ x <= i /\ y <= j
  BY SnapBackMovesBack
<1>2. \A w \in lat : w \in Int
  BY DEF IsLattice
<1>3. /\ \A w \in lat : w <= j => w <= y
      /\ (~\E w \in lat : w <= j) => y = j
  BY SnapBackIs
<1>4. (\E w \in lat : w <= i) => x \in lat
  BY SnapBackLands
<1>5. (\E w \in lat : w <= j) => y \in lat
  BY SnapBackLands
<1> HIDE DEF x, y
<1>6. CASE \E w \in lat : w <= i
  <2>1. x \in lat /\ x <= j
    BY <1>1, <1>4, <1>6
  <2> QED BY <1>3, <2>1 DEF x, y
<1>7. CASE ~\E w \in lat : w <= i
  <2>1. CASE \E w \in lat : w <= j
    <3>1. y \in lat
      BY <1>5, <2>1
    <3>2. ~(y <= i)
      BY <1>7, <3>1
    <3> QED BY <1>1, <3>2 DEF x, y
  <2>2. CASE ~\E w \in lat : w <= j
    BY <1>1, <1>3, <2>2 DEF x, y
  <2> QED BY <2>1, <2>2
<1> QED BY <1>6, <1>7

\* There is a working instant n positions from where i stands.
Lands(lat, i, n) == \E w \in lat : IsDaysFrom(lat, i, n, w)

\* Then adding n working days finds it.
LEMMA AddLands ==
  ASSUME NEW lat, IsLattice(lat), NEW i, NEW n \in Int, Lands(lat, i, n)
  PROVE  /\ AddWorkingDays(lat, i, n) \in lat
         /\ BisectLeft(lat, AddWorkingDays(lat, i, n)) = BisectLeft(lat, i) + n
<1> DEFINE w == CHOOSE w \in lat : IsDaysFrom(lat, i, n, w)
<1>1. w \in lat /\ IsDaysFrom(lat, i, n, w) /\ AddWorkingDays(lat, i, n) = w
  BY DEF AddWorkingDays, Lands
<1> QED BY <1>1 DEF IsDaysFrom

\* Counted from a later instant, as many days lead to no earlier one.
LEMMA AddingGrows ==
  ASSUME NEW lat, IsLattice(lat), NEW i \in Int, NEW j \in Int, i <= j, NEW n \in Int,
         Lands(lat, i, n), Lands(lat, j, n)
  PROVE  AddWorkingDays(lat, i, n) <= AddWorkingDays(lat, j, n)
<1>1. PICK v \in lat : v = AddWorkingDays(lat, i, n) /\ BisectLeft(lat, v) = BisectLeft(lat, i) + n
  BY AddLands
<1>2. PICK w \in lat : w = AddWorkingDays(lat, j, n) /\ BisectLeft(lat, w) = BisectLeft(lat, j) + n
  BY AddLands
<1>3. BisectLeft(lat, i) <= BisectLeft(lat, j)
  BY PositionsGrow
<1>4. v \in Int /\ w \in Int /\ BisectLeft(lat, i) \in Nat /\ BisectLeft(lat, j) \in Nat
  BY PositionsCount DEF IsLattice
<1>5. BisectLeft(lat, w) >= BisectLeft(lat, v)
  BY <1>1, <1>2, <1>3, <1>4
<1> QED BY <1>1, <1>2, <1>4, <1>5, PositionsDecide

\* The days of a span that starts at s are on the lattice.
SpanLands(lat, s, d) == d = 0 \/ Lands(lat, SnapStartForward(lat, s), d - 1)

\* The days of a span that ends at f are.
SpanLandsBack(lat, f, d) == d = 0 \/ Lands(lat, SnapStartBack(lat, f - 1), 1 - d)

\* As much work finishes no earlier if it starts no earlier, and the other way
\* round.
LEMMA SpansGrow ==
  ASSUME NEW lat, IsLattice(lat), NEW i \in Int, NEW j \in Int, i <= j, NEW d \in Int
  PROVE  /\ SpanLands(lat, i, d) /\ SpanLands(lat, j, d) =>
              FinishFromStart(lat, i, d) <= FinishFromStart(lat, j, d)
         /\ SpanLandsBack(lat, i, d) /\ SpanLandsBack(lat, j, d) =>
              StartFromFinish(lat, i, d) <= StartFromFinish(lat, j, d)
<1>1. CASE d = 0
  BY <1>1 DEF FinishFromStart, StartFromFinish
<1>2. ASSUME d # 0, SpanLands(lat, i, d), SpanLands(lat, j, d)
      PROVE  FinishFromStart(lat, i, d) <= FinishFromStart(lat, j, d)
  <2>1. PICK s \in Int : s = SnapStartForward(lat, i)
    BY SnapForwardMovesForward
  <2>2. PICK t \in Int : t = SnapStartForward(lat, j)
    BY SnapForwardMovesForward
  <2>3. s <= t /\ d - 1 \in Int
    BY <2>1, <2>2, SnapForwardGrows
  <2>4. AddWorkingDays(lat, s, d - 1) <= AddWorkingDays(lat, t, d - 1)
    BY <1>2, <2>1, <2>2, <2>3, AddingGrows DEF SpanLands
  <2>5. AddWorkingDays(lat, s, d - 1) \in Int /\ AddWorkingDays(lat, t, d - 1) \in Int
    BY <2>3, AddingMovesForward
  <2> QED BY <1>2, <2>1, <2>2, <2>4, <2>5 DEF FinishFromStart
<1>3. ASSUME d # 0, SpanLandsBack(lat, i, d), SpanLandsBack(lat, j, d)
      PROVE  StartFromFinish(lat, i, d) <= StartFromFinish(lat, j, d)
  <2>1. PICK s \in Int : s = SnapStartBack(lat, i - 1)
    BY SnapBackMovesBack
  <2>2. PICK t \in Int : t = SnapStartBack(lat, j - 1)
    BY SnapBackMovesBack
  <2>3. s <= t /\ 1 - d \in Int /\ -(d - 1) = 1 - d
    BY <2>1, <2>2, SnapBackGrows
  <2>4. AddWorkingDays(lat, s, 1 - d) <= AddWorkingDays(lat, t, 1 - d)
    BY <1>3, <2>1, <2>2, <2>3, AddingGrows DEF SpanLandsBack
  <2> QED BY <1>3, <2>1, <2>2, <2>3, <2>4 DEF StartFromFinish, SubWorkingDays
<1> QED BY <1>1, <1>2, <1>3

=============================================================================
