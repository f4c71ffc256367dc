------------------------------ MODULE CPM_proof ------------------------------
(***************************************************************************)
(* Proofs about the sort and the critical-path calculation, for every      *)
(* network, any finite calendars and every choice of options.              *)
(*                                                                         *)
(* First the sort alone: KahnInv is inductive.  Its core is DegreesCount:  *)
(* the degree the code keeps of an activity is the number of links into it *)
(* that the inner loop has not released yet.                               *)
(*                                                                         *)
(* The calculation refines the sort it starts with, so KahnInv holds       *)
(* throughout; on top of it Structure says what each phase may rely on,    *)
(* and LinksConsidered what the loop over the predecessors has done.       *)
(***************************************************************************)
EXTENDS CPMProperties, TimeAxis_proof, SequenceTheorems

-----------------------------------------------------------------------------
\* Sequences as queues of distinct elements.

\* Appending adds one element.
LEMMA AppendElements ==
  ASSUME NEW S, NEW s \in Seq(S), NEW e \in S
  PROVE  Elements(Append(s, e)) = Elements(s) \cup {e}
<1> DEFINE t == Append(s, e)
<1>1. /\ Len(t) = Len(s) + 1
      /\ DOMAIN t = 1..Len(t)
      /\ DOMAIN s = 1..Len(s)
      /\ Len(s) \in Nat
  BY AppendProperties, LenProperties
<1>2. /\ \A i \in 1..Len(s) : t[i] = s[i]
      /\ t[Len(s) + 1] = e
  BY AppendProperties
<1>3. \A i \in DOMAIN t : i \in DOMAIN s \/ i = Len(s) + 1
  BY <1>1
<1>4. \A i \in DOMAIN s : i \in DOMAIN t
  BY <1>1
<1>5. Len(s) + 1 \in DOMAIN t
  BY <1>1
<1> QED BY <1>1, <1>2, <1>3, <1>4, <1>5 DEF Elements

\* ... and keeps a sequence free of repetitions if the element is new.
LEMMA AppendKeepsInjective ==
  ASSUME NEW S, NEW s \in Seq(S), NEW e \in S, Injective(s), e \notin Elements(s)
  PROVE  Injective(Append(s, e))
<1> DEFINE t == Append(s, e)
<1>1. /\ DOMAIN t = 1..(Len(s) + 1) /\ DOMAIN s = 1..Len(s) /\ Len(s) \in Nat
      /\ \A i \in 1..Len(s) : t[i] = s[i]
      /\ t[Len(s) + 1] = e
  BY AppendProperties, LenProperties
<1>2. \A i \in 1..Len(s) : s[i] # e
  BY <1>1 DEF Elements
<1>3. SUFFICES ASSUME NEW i \in DOMAIN t, NEW j \in DOMAIN t, t[i] = t[j]
               PROVE  i = j
  BY DEF Injective
<1>4. i \in 1..Len(s) \/ i = Len(s) + 1
  BY <1>1
<1>5. j \in 1..Len(s) \/ j = Len(s) + 1
  BY <1>1
<1> QED BY <1>1, <1>2, <1>3, <1>4, <1>5 DEF Injective

\* Taking the head off a sequence without repetitions removes one element.
LEMMA HeadAndTail ==
  ASSUME NEW S, NEW s \in Seq(S), s # <<>>, Injective(s)
  PROVE  /\ Head(s) \in S /\ Tail(s) \in Seq(S)
         /\ Elements(s) = {Head(s)} \cup Elements(Tail(s))
         /\ Head(s) \notin Elements(Tail(s))
         /\ Injective(Tail(s))
<1> DEFINE t == Tail(s)
<1>1. /\ Head(s) \in S /\ t \in Seq(S)
      /\ Len(t) = Len(s) - 1 /\ \A i \in 1..Len(t) : t[i] = s[i + 1]
  BY HeadTailProperties
<1>2. /\ DOMAIN t = 1..Len(t) /\ DOMAIN s = 1..Len(s) /\ Len(s) \in Nat \ {0}
  BY <1>1, LenProperties, EmptySeq
<1>3. Head(s) = s[1]
  OBVIOUS
<1>4. \A i \in DOMAIN s : i = 1 \/ (i - 1 \in DOMAIN t /\ t[i - 1] = s[i])
  BY <1>1, <1>2
<1>5. \A i \in DOMAIN t : i + 1 \in DOMAIN s /\ t[i] = s[i + 1] /\ i + 1 # 1
  BY <1>1, <1>2
<1>6. 1 \in DOMAIN s
  BY <1>2
<1>7. Elements(s) = {Head(s)} \cup Elements(t)
  <2>1. ASSUME NEW i \in DOMAIN s
        PROVE  s[i] \in {Head(s)} \cup Elements(t)
    BY <1>3, <1>4 DEF Elements
  <2>2. ASSUME NEW i \in DOMAIN t
        PROVE  t[i] \in Elements(s)
    BY <1>5 DEF Elements
  <2>3. Head(s) \in Elements(s)
    BY <1>3, <1>6 DEF Elements
  <2> QED BY <2>1, <2>2, <2>3 DEF Elements
<1>8. Head(s) \notin Elements(t)
  BY <1>3, <1>5, <1>6 DEF Elements, Injective
<1>9. Injective(t)
  <2> SUFFICES ASSUME NEW i \in DOMAIN t, NEW j \in DOMAIN t, t[i] = t[j]
               PROVE  i = j
    BY DEF Injective
  <2>1. i + 1 = j + 1
    BY <1>5 DEF Injective
  <2> QED BY <2>1, <1>2
<1> QED BY <1>1, <1>7, <1>8, <1>9

\* A sequence without repetitions is as long as it has elements.
LEMMA InjectiveLength ==
  ASSUME NEW S, NEW s \in Seq(S), Injective(s)
  PROVE  IsFiniteSet(Elements(s)) /\ Cardinality(Elements(s)) = Len(s)
<1>1. s \in [1..Len(s) -> S] /\ DOMAIN s = 1..Len(s) /\ Len(s) \in Nat
  BY LenProperties
<1>2. s \in Bijection(1..Len(s), Elements(s))
  <2>1. s \in [1..Len(s) -> Elements(s)]
    BY <1>1 DEF Elements
  <2>2. \A i, j \in 1..Len(s) : s[i] = s[j] => i = j
    BY <1>1 DEF Injective
  <2>3. \A x \in Elements(s) : \E i \in 1..Len(s) : s[i] = x
    BY <1>1 DEF Elements
  <2> QED BY <2>1, <2>2, <2>3 DEF Bijection, Injection, Surjection, IsInjective
<1>3. IsFiniteSet(1..Len(s)) /\ Cardinality(1..Len(s)) = Len(s)
  <2>1. IsFiniteSet(1..Len(s))
        /\ Cardinality(1..Len(s)) = IF 1 > Len(s) THEN 0 ELSE Len(s) - 1 + 1
    BY <1>1, FS_Interval
  <2> QED BY <2>1, <1>1
<1> QED BY <1>2, <1>3, FS_Bijection DEF ExistsBijection

-----------------------------------------------------------------------------
\* The network.

\* Only finitely many links lead into an activity, so degrees are naturals,
\* and a degree of zero means nothing is waited for.
LEMMA WaitingIsFinite ==
  ASSUME IsGraph, NEW n
  PROVE  /\ IsFiniteSet(EdgesInto(n)) /\ Cardinality(EdgesInto(n)) \in Nat
         /\ IsFiniteSet(Waiting(n)) /\ Cardinality(Waiting(n)) \in Nat
         /\ Cardinality(Waiting(n)) = 0 <=> Waiting(n) = {}
<1>1. IsFiniteSet(DOMAIN edges)
  BY DEF IsGraph
<1>2. EdgesInto(n) \in SUBSET DOMAIN edges /\ Waiting(n) \in SUBSET DOMAIN edges
  BY DEF EdgesInto, Waiting
<1>3. IsFiniteSet(EdgesInto(n)) /\ IsFiniteSet(Waiting(n))
  BY <1>1, <1>2, FS_Subset
<1> QED BY <1>3, FS_CardinalityType, FS_EmptySet

\* The declaration list names each activity exactly once, so a position stands
\* for an activity and every activity has one.
LEMMA NodesListed ==
  ASSUME IsGraph
  PROVE  /\ DOMAIN nodes = 1..Len(nodes) /\ Len(nodes) \in Nat
         /\ \A i \in 1..Len(nodes) : nodes[i] \in Node
         /\ \A n \in Node : \E i \in 1..Len(nodes) : nodes[i] = n
         /\ \A i, j \in 1..Len(nodes) : nodes[i] = nodes[j] => i = j
<1>1. nodes \in Seq(Node) /\ Elements(nodes) = Node
  BY DEF IsGraph
<1>2. DOMAIN nodes = 1..Len(nodes) /\ Len(nodes) \in Nat
  BY <1>1, LenProperties
<1>3. \A i \in 1..Len(nodes) : nodes[i] \in Node
  BY <1>1, ElementOfSeq
<1>4. \A n \in Node : \E i \in 1..Len(nodes) : nodes[i] = n
  BY <1>1, <1>2 DEF Elements
<1> QED BY <1>2, <1>3, <1>4 DEF IsGraph

\* What has been placed is a set of activities.
LEMMA LineIsNodes ==
  ASSUME KahnTypeOK
  PROVE  Placed \subseteq Node /\ Elements(ready) \subseteq Node
<1>1. /\ DOMAIN order = 1..Len(order) /\ DOMAIN ready = 1..Len(ready)
      /\ \A i \in 1..Len(order) : order[i] \in Node
      /\ \A i \in 1..Len(ready) : ready[i] \in Node
  BY LenProperties, ElementOfSeq DEF KahnTypeOK
<1> QED BY <1>1 DEF Placed, Elements

-----------------------------------------------------------------------------
\* The invariant holds initially and is preserved by each step.

\* Before anything is seeded the invariant holds: nothing is released, so every
\* degree counts all the links into its node.
LEMMA InitEstablishes ==
  ASSUME IsGraph, KahnInit
  PROVE  KahnInv
<1>1. Placed = {} /\ Elements(ready) = {}
  BY DEF KahnInit, Placed, Elements
<1>2. \A n : Waiting(n) = EdgesInto(n)
  BY <1>1 DEF Waiting, Released, EdgesInto
<1>3. \A n \in Node : Cardinality(EdgesInto(n)) \in Nat
  BY WaitingIsFinite
<1>4. KahnTypeOK
  <2>1. <<>> \in Seq(Node)
    BY EmptySeq
  <2>2. Len(nodes) \in Nat
    BY NodesListed
  <2>3. inDegree \in [Node -> Nat]
    BY <1>3 DEF KahnInit
  <2> QED BY <2>1, <2>2, <2>3 DEF KahnTypeOK, KahnInit
<1>5. DegreesCount
  BY <1>2 DEF DegreesCount, KahnInit
<1>6. LineIsFree
  BY <1>1 DEF LineIsFree
<1>7. PlacedOnce
  BY <1>1 DEF PlacedOnce, Injective, KahnInit
<1>8. SeedScan
  BY <1>1, NodesListed DEF SeedScan, KahnInit
<1>9. FreeIsInLine /\ LoopWasDone
  BY DEF FreeIsInLine, LoopWasDone, KahnInit
<1>10. OrderRespectsEdges
  BY DEF OrderRespectsEdges, KahnInit
<1> QED BY <1>4, <1>5, <1>6, <1>7, <1>8, <1>9, <1>10 DEF KahnInv

\* Seeding one node, which queues it if nothing points at it, keeps the invariant.
LEMMA SeedStep ==
  ASSUME KahnInv, Seed
  PROVE  KahnInv'
<1> DEFINE n == nodes[seeded + 1]
<1> USE DEF KahnInv
<1>1. /\ UNCHANGED <<nodes, edges, inDegree, order, cursor, sort, path>>
      /\ sort = "seed" /\ seeded < Len(nodes) /\ seeded' = seeded + 1
      /\ ready' = IF inDegree[n] = 0 THEN Append(ready, n) ELSE ready
  BY DEF Seed, IsFree, Enqueue
<1>2. /\ ready \in Seq(Node) /\ seeded \in 0..Len(nodes) /\ n \in Node
      /\ Len(nodes) \in Nat /\ seeded + 1 \in 1..Len(nodes)
  BY <1>1, NodesListed DEF KahnTypeOK
<1>3. Placed' = Placed /\ IsGraph' /\ OrderRespectsEdges'
  BY <1>1 DEF Placed, IsGraph, OrderRespectsEdges, Elements
<1>4. \A m : Waiting(m)' = Waiting(m)
  BY <1>1, <1>3 DEF Waiting, Released, EdgesInto, Current
<1>5. n \notin Elements(ready)
  <2>1. \A i \in 1..seeded : nodes[i] # n
    BY <1>2, NodesListed
  <2> QED BY <2>1, <1>1 DEF SeedScan
<1>6. Elements(ready') = IF inDegree[n] = 0 THEN Elements(ready) \cup {n} ELSE Elements(ready)
  <2>1. Elements(Append(ready, n)) = Elements(ready) \cup {n}
    BY <1>2, AppendElements
  <2> QED BY <2>1, <1>1
<1>7. KahnTypeOK'
  BY <1>1, <1>2, AppendProperties DEF KahnTypeOK
<1>8. DegreesCount'
  BY <1>1, <1>4 DEF DegreesCount
<1>9. LineIsFree'
  <2>1. inDegree[n] = 0 => Waiting(n) = {}
    BY <1>2, WaitingIsFinite DEF DegreesCount
  <2> QED BY <2>1, <1>3, <1>4, <1>6 DEF LineIsFree
<1>10. PlacedOnce'
  <2>1. Placed = {}
    BY <1>1 DEF SeedScan, Placed, Elements
  <2>2. Injective(ready')
    BY <1>1, <1>2, <1>5, AppendKeepsInjective DEF PlacedOnce
  <2> QED BY <2>1, <2>2, <1>1, <1>3 DEF PlacedOnce
<1>11. SeedScan'
  <2>1. 1..(seeded + 1) = 1..seeded \cup {seeded + 1}
    BY <1>2
  <2>2. {nodes[i] : i \in {i \in 1..(seeded + 1) : inDegree[nodes[i]] = 0}}
          = {nodes[i] : i \in {i \in 1..seeded : inDegree[nodes[i]] = 0}}
              \cup (IF inDegree[n] = 0 THEN {n} ELSE {})
    BY <2>1
  <2> QED BY <2>2, <1>1, <1>6 DEF SeedScan
<1>12. FreeIsInLine' /\ LoopWasDone'
  BY <1>1 DEF FreeIsInLine, LoopWasDone
<1> QED BY <1>3, <1>7, <1>8, <1>9, <1>10, <1>11, <1>12

\* Going over from seeding to the main loop keeps the invariant.
LEMMA StartLoopStep ==
  ASSUME KahnInv, StartLoop
  PROVE  KahnInv'
<1> USE DEF KahnInv
<1>1. /\ UNCHANGED <<nodes, edges, inDegree, seeded, ready, order, cursor, path>>
      /\ sort = "seed" /\ seeded = Len(nodes) /\ sort' = "loop"
  BY DEF StartLoop
<1>2. Placed' = Placed /\ Elements(ready)' = Elements(ready) /\ IsGraph'
  BY <1>1 DEF Placed, IsGraph, Elements
<1>3. \A m : Waiting(m)' = Waiting(m)
  BY <1>1, <1>2 DEF Waiting, Released, EdgesInto, Current
<1>4. KahnTypeOK' /\ PlacedOnce' /\ OrderRespectsEdges'
  BY <1>1, <1>2 DEF KahnTypeOK, PlacedOnce, Injective, OrderRespectsEdges
<1>5. DegreesCount' /\ LineIsFree'
  BY <1>1, <1>2, <1>3 DEF DegreesCount, LineIsFree
<1>6. FreeIsInLine'
  <2>1. \A m \in Node : inDegree[m] = 0 => m \in Elements(ready)
    BY <1>1, NodesListed DEF SeedScan
  <2> QED BY <2>1, <1>1, <1>2 DEF FreeIsInLine
<1>7. SeedScan' /\ LoopWasDone'
  BY <1>1 DEF SeedScan, LoopWasDone
<1> QED BY <1>2, <1>4, <1>5, <1>6, <1>7

\* Placing the head of the queue: its own edges become the ones to release.
LEMMA DequeueStep ==
  ASSUME KahnInv, Dequeue
  PROVE  /\ KahnInv'
         /\ Waiting(Head(ready)) = {} /\ Head(ready) \in Node \ Placed
         /\ order' = Append(order, Head(ready))
<1> DEFINE n == Head(ready)
<1> USE DEF KahnInv
<1>1. /\ UNCHANGED <<nodes, edges, inDegree, seeded, sort, path>>
      /\ sort = "loop" /\ InnerLoopDone /\ ready # <<>>
      /\ order' = Append(order, n) /\ ready' = Tail(ready) /\ cursor' = 1
  BY DEF Dequeue
<1>2. /\ ready \in Seq(Node) /\ order \in Seq(Node) /\ Len(order) \in Nat
      /\ DOMAIN order = 1..Len(order)
  BY LenProperties DEF KahnTypeOK
<1>3. /\ n \in Node /\ Tail(ready) \in Seq(Node)
      /\ Elements(ready) = {n} \cup Elements(Tail(ready))
      /\ n \notin Elements(Tail(ready))
      /\ Injective(Tail(ready))
  BY <1>1, <1>2, HeadAndTail DEF PlacedOnce
<1>4. n \notin Placed
  BY <1>3 DEF PlacedOnce
<1>5. Waiting(n) = {}
  BY <1>3 DEF LineIsFree
<1>6. Placed' = Placed \cup {n} /\ Elements(ready)' = Elements(ready) \ {n}
  <2>1. Elements(Append(order, n)) = Elements(order) \cup {n}
    BY <1>2, <1>3, AppendElements
  <2>2. Elements(ready)' = Elements(Tail(ready))
    BY <1>1 DEF Elements
  <2>3. Placed' = Elements(Append(order, n))
    BY <1>1 DEF Placed, Elements
  <2> QED BY <2>1, <2>2, <2>3, <1>3 DEF Placed
<1>7. /\ order' \in Seq(Node) /\ Len(order') = Len(order) + 1
      /\ DOMAIN order' = 1..(Len(order) + 1)
      /\ \A i \in 1..Len(order) : order'[i] = order[i]
      /\ order'[Len(order) + 1] = n
  BY <1>1, <1>2, <1>3, AppendProperties, LenProperties
<1>8. Current' = n
  BY <1>7 DEF Current
<1>9. \A k \in DOMAIN edges : k \in Nat \ {0}
  BY DEF IsGraph
<1>10. \A m : Waiting(m)' = Waiting(m)
  <2>1. ASSUME NEW k \in DOMAIN edges
        PROVE  Released(k)' <=> Released(k)
    <3>1. CASE edges[k][1] = n
      BY <3>1, <1>1, <1>4, <1>8, <1>9 DEF Released
    <3>2. CASE edges[k][1] # n /\ edges[k][1] \notin Placed
      BY <3>2, <1>1, <1>6 DEF Released
    <3>3. CASE edges[k][1] # n /\ edges[k][1] \in Placed
      <4>1. order # <<>>
        BY <3>3 DEF Placed, Elements
      <4>2. edges[k][1] = Current => k < cursor
        BY <1>1, <1>9, <4>1 DEF InnerLoopDone, KahnTypeOK
      <4> QED BY <3>3, <4>2, <1>1, <1>6, <1>8 DEF Released
    <3> QED BY <3>1, <3>2, <3>3
  <2> QED BY <2>1, <1>1 DEF Waiting, EdgesInto
<1>11. IsGraph' /\ KahnTypeOK'
  <2>1. IsGraph'
    BY <1>1 DEF IsGraph, Elements
  <2>2. KahnTypeOK'
    BY <1>1, <1>3, <1>7 DEF KahnTypeOK
  <2> QED BY <2>1, <2>2
<1>12. DegreesCount' /\ LineIsFree'
  BY <1>1, <1>3, <1>6, <1>10 DEF DegreesCount, LineIsFree
<1>13. PlacedOnce'
  <2>1. Injective(order')
    BY <1>1, <1>2, <1>3, <1>4, AppendKeepsInjective DEF PlacedOnce, Placed
  <2>2. Injective(ready')
    BY <1>1, <1>3
  <2> QED BY <2>1, <2>2, <1>3, <1>4, <1>6 DEF PlacedOnce, Injective
<1>14. SeedScan' /\ FreeIsInLine' /\ LoopWasDone'
  BY <1>1, <1>6 DEF SeedScan, FreeIsInLine, LoopWasDone
<1>15. OrderRespectsEdges'
  <2>0. edges' = edges /\ DOMAIN order' = 1..(Len(order) + 1)
    BY <1>1, <1>7
  <2> SUFFICES ASSUME NEW k \in DOMAIN edges, NEW j \in 1..(Len(order) + 1),
                      order'[j] = edges[k][2]
               PROVE  \E i \in 1..(Len(order) + 1) : i < j /\ order'[i] = edges[k][1]
    BY <2>0 DEF OrderRespectsEdges
  <2>1. CASE j \in 1..Len(order)
    <3>1. order[j] = edges[k][2]
      BY <2>1, <1>7
    <3>2. PICK i \in 1..Len(order) : i < j /\ order[i] = edges[k][1]
      BY <3>1, <2>1, <1>2 DEF OrderRespectsEdges
    <3> QED BY <3>2, <1>2, <1>7
  <2>2. CASE j = Len(order) + 1
    <3>1. edges[k][2] = n
      BY <2>2, <1>7
    <3>2. edges[k][1] \in Placed
      BY <3>1, <1>5 DEF Waiting, EdgesInto, Released
    <3>3. PICK i \in 1..Len(order) : order[i] = edges[k][1]
      BY <3>2, <1>2 DEF Placed, Elements
    <3> QED BY <3>3, <2>2, <1>2, <1>7
  <2> QED BY <2>1, <2>2, <1>2
<1> QED BY <1>1, <1>3, <1>4, <1>5, <1>11, <1>12, <1>13, <1>14, <1>15

\* Releasing one edge: exactly that edge is no longer waited for.
LEMMA ReleaseStep ==
  ASSUME KahnInv, Release
  PROVE  KahnInv' /\ order' = order
<1> USE DEF KahnInv
<1>1. /\ UNCHANGED <<nodes, edges, seeded, order, sort, path>>
      /\ sort = "loop" /\ order # <<>>
  BY DEF Release
<1>2. PICK k \in DOMAIN edges :
        /\ IsNextEdge(Current, cursor, k)
        /\ cursor' = k + 1
        /\ inDegree' = [inDegree EXCEPT ![edges[k][2]] = @ - 1]
        /\ ready' = IF inDegree[edges[k][2]] = 1
                    THEN Append(ready, edges[k][2]) ELSE ready
  BY DEF Release, BecomesFree, Enqueue
<1>2a. PICK succ \in Node : succ = edges[k][2]
  BY DEF IsGraph
<1>3. /\ ready \in Seq(Node) /\ order \in Seq(Node) /\ Len(order) \in Nat \ {0}
      /\ DOMAIN order = 1..Len(order)
      /\ inDegree \in [Node -> Nat] /\ cursor \in Nat
  BY <1>1, LenProperties, EmptySeq DEF KahnTypeOK
<1>4. succ \in Node /\ k \in Nat /\ \A j \in DOMAIN edges : j \in Nat
  BY <1>2a DEF IsGraph
<1>5. /\ edges[k][1] = Current /\ k >= cursor
      /\ \A j \in DOMAIN edges : j >= cursor /\ edges[j][1] = Current => k <= j
  BY <1>2, <1>2a DEF IsNextEdge
<1>6. Current \in Placed
  <2>1. Len(order) \in DOMAIN order
    BY <1>3
  <2> QED BY <2>1 DEF Current, Placed, Elements
<1>7. Placed' = Placed /\ Current' = Current
  BY <1>1 DEF Placed, Elements, Current
<1>8. k \in Waiting(succ) /\ \A m : m # succ => k \notin Waiting(m)
  BY <1>2a, <1>3, <1>4, <1>5 DEF Waiting, EdgesInto, Released
<1>9. \A m : Waiting(m)' = Waiting(m) \ {k}
  <2>1. ASSUME NEW j \in DOMAIN edges
        PROVE  Released(j)' <=> Released(j) \/ j = k
    <3>1. CASE edges[j][1] # Current
      BY <3>1, <1>1, <1>5, <1>7 DEF Released
    <3>2. CASE edges[j][1] = Current
      <4>1. Released(j)' <=> j < k + 1
        BY <3>2, <1>1, <1>2, <1>2a, <1>6, <1>7 DEF Released
      <4>2. Released(j) <=> j < cursor
        BY <3>2, <1>6 DEF Released
      <4>3. j < k + 1 <=> j < cursor \/ j = k
        BY <3>2, <1>3, <1>4, <1>5
      <4> QED BY <4>1, <4>2, <4>3
    <3> QED BY <3>1, <3>2
  <2> QED BY <2>1, <1>1 DEF Waiting, EdgesInto
<1>10. succ \notin Placed \cup Elements(ready)
  BY <1>8 DEF LineIsFree
<1>11. DegreesCount'
  <2> SUFFICES ASSUME NEW m \in Node
               PROVE  inDegree'[m] = Cardinality(Waiting(m) \ {k})
    BY <1>9 DEF DegreesCount
  <2>1. /\ IsFiniteSet(Waiting(m)) /\ inDegree[m] = Cardinality(Waiting(m))
    BY WaitingIsFinite DEF DegreesCount
  <2>2. Cardinality(Waiting(m) \ {k}) = IF k \in Waiting(m) THEN Cardinality(Waiting(m)) - 1
                                        ELSE Cardinality(Waiting(m))
    BY <2>1, FS_RemoveElement
  <2>3. CASE m = succ
    BY <2>1, <2>2, <2>3, <1>2, <1>2a, <1>3, <1>4, <1>8
  <2>4. CASE m # succ
    BY <2>1, <2>2, <2>4, <1>2, <1>2a, <1>3, <1>4, <1>8
  <2> QED BY <2>3, <2>4
<1>12. inDegree[succ] \in Nat \ {0} /\ (inDegree[succ] = 1 => Waiting(succ)' = {})
  <2>1. /\ IsFiniteSet(Waiting(succ)) /\ inDegree[succ] = Cardinality(Waiting(succ))
        /\ inDegree[succ] \in Nat /\ (inDegree[succ] = 0 <=> Waiting(succ) = {})
    BY <1>3, <1>4, WaitingIsFinite DEF DegreesCount
  <2>2. inDegree[succ] # 0
    BY <2>1, <1>8
  <2>3. ASSUME inDegree[succ] = 1
        PROVE  Waiting(succ)' = {}
    <3>1. /\ IsFiniteSet(Waiting(succ) \ {k})
          /\ Cardinality(Waiting(succ) \ {k}) = Cardinality(Waiting(succ)) - 1
      BY <2>1, <1>8, FS_RemoveElement
    <3> QED BY <3>1, <2>1, <2>3, <1>9, FS_EmptySet
  <2> QED BY <2>1, <2>2, <2>3
<1>13. Elements(ready)' = IF inDegree[succ] = 1 THEN Elements(ready) \cup {succ}
                          ELSE Elements(ready)
  <2>1. Elements(Append(ready, succ)) = Elements(ready) \cup {succ}
    BY <1>3, <1>4, AppendElements
  <2> QED BY <2>1, <1>2, <1>2a DEF Elements
<1>14. IsGraph' /\ OrderRespectsEdges'
  BY <1>1 DEF IsGraph, Elements, OrderRespectsEdges
<1>15. KahnTypeOK'
  <2>1. ready' \in Seq(Node)
    BY <1>2, <1>2a, <1>3, <1>4, AppendProperties
  <2>2. inDegree' \in [Node -> Nat]
    BY <1>2, <1>2a, <1>3, <1>4, <1>12
  <2>3. cursor' \in Nat
    BY <1>2, <1>2a, <1>4
  <2> QED BY <2>1, <2>2, <2>3, <1>1 DEF KahnTypeOK
<1>16. LineIsFree'
  <2>1. \A m \in Placed \cup Elements(ready) : Waiting(m)' = {}
    BY <1>9 DEF LineIsFree
  <2> QED BY <2>1, <1>7, <1>12, <1>13 DEF LineIsFree
<1>17. PlacedOnce'
  <2>1. Injective(ready')
    BY <1>2, <1>2a, <1>3, <1>4, <1>10, AppendKeepsInjective DEF PlacedOnce
  <2>2. Injective(order')
    BY <1>1 DEF PlacedOnce
  <2>3. Placed' \cap Elements(ready)' = {}
    BY <1>7, <1>10, <1>13 DEF PlacedOnce
  <2> QED BY <2>1, <2>2, <2>3 DEF PlacedOnce, Injective
<1>18. FreeIsInLine'
  <2> SUFFICES ASSUME NEW m \in Node, inDegree'[m] = 0
               PROVE  m \in Placed \cup Elements(ready)'
    BY <1>7 DEF FreeIsInLine
  <2>1. CASE m = succ
    <3>1. inDegree[succ] = 1
      BY <2>1, <1>2, <1>2a, <1>3, <1>4, <1>12
    <3> QED BY <3>1, <2>1, <1>13
  <2>2. CASE m # succ
    <3>1. inDegree[m] = 0
      BY <2>2, <1>2, <1>2a, <1>3, <1>4
    <3> QED BY <3>1, <1>1, <1>13 DEF FreeIsInLine
  <2> QED BY <2>1, <2>2
<1>19. SeedScan' /\ LoopWasDone'
  BY <1>1 DEF SeedScan, LoopWasDone
<1> QED BY <1>1, <1>11, <1>14, <1>15, <1>16, <1>17, <1>18, <1>19

-----------------------------------------------------------------------------
\* The end of the loop, and the walk, leave the sort itself alone.

\* A step that only touches the walked path or the verdict keeps the invariant.
LEMMA PathStep ==
  ASSUME KahnInv, UNCHANGED <<nodes, edges, inDegree, seeded, ready, order, cursor>>,
         path' \in Seq(Node), sort' \in {"loop", "ordered", "cycle", "named"}, sort # "seed",
         LoopWasDone'
  PROVE  KahnInv'
<1> USE DEF KahnInv
<1>1. Placed' = Placed /\ Elements(ready)' = Elements(ready) /\ IsGraph'
  BY DEF Placed, IsGraph, Elements
<1>2. \A m : Waiting(m)' = Waiting(m)
  BY <1>1 DEF Waiting, Released, EdgesInto, Current
<1>3. KahnTypeOK' /\ PlacedOnce' /\ OrderRespectsEdges'
  BY <1>1 DEF KahnTypeOK, PlacedOnce, Injective, OrderRespectsEdges
<1>4. DegreesCount' /\ LineIsFree'
  BY <1>1, <1>2 DEF DegreesCount, LineIsFree
<1>5. FreeIsInLine' /\ SeedScan'
  BY <1>1 DEF FreeIsInLine, SeedScan
<1> QED BY <1>1, <1>3, <1>4, <1>5

\* Ending the main loop keeps the invariant: a short order leaves only nodes
\* that wait on nodes left over.
LEMMA FinishStep ==
  ASSUME KahnInv, Finish
  PROVE  KahnInv'
<1> USE DEF KahnInv
<1>1. /\ UNCHANGED <<nodes, edges, inDegree, seeded, ready, order, cursor>>
      /\ sort = "loop" /\ InnerLoopDone /\ ready = <<>>
      /\ sort' = IF Len(order) = Len(nodes) THEN "ordered" ELSE "cycle"
  BY DEF Finish
<1>2. path' \in Seq(Node)
  <2>1. CASE Len(order) = Len(nodes)
    BY <2>1 DEF Finish, KahnTypeOK
  <2>2. CASE Len(order) # Len(nodes)
    <3>1. PICK i \in DOMAIN nodes : path' = <<nodes[i]>>
      BY <2>2 DEF Finish
    <3> QED BY <3>1, NodesListed
  <2> QED BY <2>1, <2>2
<1>3. LoopWasDone'
  BY <1>1 DEF LoopWasDone, InnerLoopDone, Current
<1> QED BY <1>1, <1>2, <1>3, PathStep

\* Naming the loop touches neither the order nor the degrees.
LEMMA WalkStep ==
  ASSUME KahnInv, Walk \/ WalkEnds
  PROVE  KahnInv'
<1> USE DEF KahnInv
<1>1. /\ UNCHANGED <<nodes, edges, inDegree, seeded, ready, order, cursor>>
      /\ sort = "cycle" /\ sort' \in {"cycle", "named"}
  BY DEF Walk, WalkEnds
<1>2. path' \in Seq(Node)
  <2>1. CASE WalkEnds
    BY <2>1 DEF WalkEnds, KahnTypeOK
  <2>2. CASE Walk
    <3>1. PICK k \in DOMAIN edges, i \in DOMAIN path \cup {0} :
            \/ path' = Append(path, edges[k][2])
            \/ i \in DOMAIN path /\ path' = Append(SubSeq(path, i, Len(path)), edges[k][2])
      BY <2>2 DEF Walk
    <3>2. edges[k][2] \in Node
      BY DEF IsGraph
    <3>3. path \in Seq(Node) /\ DOMAIN path = 1..Len(path) /\ Len(path) \in Nat
      BY LenProperties DEF KahnTypeOK
    <3>4. ASSUME NEW m \in DOMAIN path
          PROVE  SubSeq(path, m, Len(path)) \in Seq(Node)
      <4>1. m \in Int /\ Len(path) \in Int /\ \A j \in m..Len(path) : path[j] \in Node
        BY <3>3, ElementOfSeq
      <4> QED BY <4>1, SubSeqProperties
    <3>5. CASE path' = Append(path, edges[k][2])
      BY <3>2, <3>3, <3>5, AppendProperties
    <3>6. CASE i \in DOMAIN path /\ path' = Append(SubSeq(path, i, Len(path)), edges[k][2])
      BY <3>2, <3>4, <3>6, AppendProperties
    <3> QED BY <3>1, <3>5, <3>6
  <2> QED BY <2>1, <2>2
<1>3. LoopWasDone'
  BY <1>1 DEF LoopWasDone, InnerLoopDone, Current
<1> QED BY <1>1, <1>2, <1>3, PathStep

\* A step of something else keeps the invariant.
LEMMA StutterStep ==
  ASSUME KahnInv, UNCHANGED kahnVars
  PROVE  KahnInv'
<1> USE DEF KahnInv
<1>1. UNCHANGED <<nodes, edges, inDegree, seeded, ready, order, cursor, sort, path>>
  BY DEF kahnVars
<1>2. /\ Placed' = Placed /\ Elements(ready)' = Elements(ready)
      /\ Current' = Current /\ IsGraph'
  BY <1>1 DEF Placed, IsGraph, Elements, Current
<1>3. \A m : Waiting(m)' = Waiting(m)
  BY <1>1, <1>2 DEF Waiting, Released, EdgesInto
<1>4. KahnTypeOK' /\ PlacedOnce' /\ OrderRespectsEdges'
  BY <1>1, <1>2 DEF KahnTypeOK, PlacedOnce, Injective, OrderRespectsEdges
<1>5. DegreesCount' /\ LineIsFree'
  BY <1>1, <1>2, <1>3 DEF DegreesCount, LineIsFree
<1>6. FreeIsInLine' /\ SeedScan'
  BY <1>1, <1>2 DEF FreeIsInLine, SeedScan
<1>7. LoopWasDone'
  BY <1>1, <1>2 DEF LoopWasDone, InnerLoopDone
<1> QED BY <1>2, <1>4, <1>5, <1>6, <1>7

-----------------------------------------------------------------------------
\* The invariant, and what follows from it.

\* Every step of the sort keeps it.
LEMMA KahnSteps ==
  ASSUME KahnInv, [KahnNext]_kahnVars
  PROVE  KahnInv'
<1>1. CASE Seed
  BY <1>1, SeedStep
<1>2. CASE StartLoop
  BY <1>2, StartLoopStep
<1>3. CASE Dequeue
  BY <1>3, DequeueStep
<1>4. CASE Release
  BY <1>4, ReleaseStep
<1>5. CASE Finish
  BY <1>5, FinishStep
<1>6. CASE Walk \/ WalkEnds
  BY <1>6, WalkStep
<1>7. CASE UNCHANGED kahnVars
  BY <1>7, StutterStep
<1> QED BY <1>1, <1>2, <1>3, <1>4, <1>5, <1>6, <1>7 DEF KahnNext

\* KahnInv holds throughout every sort of every network that validate_network
\* accepts.
THEOREM KahnInvariant == KahnSpec => []KahnInv
<1>1. IsGraph /\ KahnInit => KahnInv
  BY InitEstablishes
<1>2. KahnInv /\ [KahnNext]_kahnVars => KahnInv'
  BY KahnSteps
<1> QED BY <1>1, <1>2, PTL DEF KahnSpec

\* In-degrees are never negative, and the order and the queue hold activities.
THEOREM KahnTypeCorrect == KahnSpec => []KahnTypeOK
<1>1. KahnInv => KahnTypeOK
  BY DEF KahnInv
<1> QED BY <1>1, KahnInvariant, PTL

\* At every moment, whatever the network, an activity that has been placed
\* comes after all its predecessors.
THEOREM OrderCorrect == KahnSpec => []OrderRespectsEdges
<1>1. KahnInv => OrderRespectsEdges
  BY DEF KahnInv
<1> QED BY <1>1, KahnInvariant, PTL

\* No activity is placed or queued twice, however often a link is repeated.
THEOREM NothingPlacedTwice == KahnSpec => []PlacedOnce
<1>1. KahnInv => PlacedOnce
  BY DEF KahnInv
<1> QED BY <1>1, KahnInvariant, PTL

\* The lengths the code compares decide whether everything has been placed.
LEMMA LengthDecides ==
  ASSUME KahnInv
  PROVE  Len(order) = Len(nodes) <=> Placed = Node
<1> USE DEF KahnInv
<1>1. Cardinality(Placed) = Len(order) /\ IsFiniteSet(Placed)
  BY InjectiveLength DEF PlacedOnce, Placed, KahnTypeOK
<1>2. Cardinality(Node) = Len(nodes) /\ IsFiniteSet(Node)
  <2>1. nodes \in Seq(Node) /\ Injective(nodes) /\ Elements(nodes) = Node
    BY DEF IsGraph, Injective
  <2> QED BY <2>1, InjectiveLength
<1>3. Placed \in SUBSET Node
  BY LineIsNodes
<1> QED BY <1>1, <1>2, <1>3, FS_Subset

\* Once the loop has nothing queued, an activity left over waits on another.
LEMMA LeftoverWaits ==
  ASSUME KahnInv, sort # "seed", ready = <<>>, InnerLoopDone, NEW n \in Node \ Placed
  PROVE  \E k \in DOMAIN edges : edges[k][2] = n /\ edges[k][1] \in Unplaced
<1> USE DEF KahnInv
<1>1. Elements(ready) = {}
  BY DEF Elements
<1>2. inDegree[n] # 0
  BY <1>1 DEF FreeIsInLine
<1>3. Waiting(n) # {}
  BY <1>2, WaitingIsFinite DEF DegreesCount
<1>4. PICK k \in DOMAIN edges : edges[k][2] = n /\ ~Released(k)
  BY <1>3 DEF Waiting, EdgesInto
<1>5. edges[k][1] \in Node /\ k \in Nat /\ cursor \in Nat
  BY DEF IsGraph, KahnTypeOK
<1>6. edges[k][1] \notin Placed
  <2> SUFFICES ASSUME edges[k][1] \in Placed
               PROVE  FALSE
    OBVIOUS
  <2>1. order # <<>>
    BY DEF Placed, Elements
  <2>2. edges[k][1] = Current /\ k >= cursor
    BY <1>4, <1>5 DEF Released
  <2> QED BY <2>1, <2>2 DEF InnerLoopDone
<1> QED BY <1>4, <1>5, <1>6 DEF Unplaced, IsGraph

\* A network is refused only if there is work that can never be ordered.
THEOREM RefusalIsReal == KahnSpec => []CycleIsReal
<1>1. KahnInv => CycleIsReal
  <2> SUFFICES ASSUME KahnInv, sort \in {"cycle", "named"}
               PROVE  /\ Unplaced # {}
                      /\ \A n \in Unplaced :
                           \E k \in DOMAIN edges :
                             edges[k][2] = n /\ edges[k][1] \in Unplaced
    BY DEF CycleIsReal
  <2>1. ready = <<>> /\ InnerLoopDone /\ Len(order) # Len(nodes)
    BY DEF KahnInv, LoopWasDone
  <2>2. Unplaced = Node \ Placed
    BY DEF Unplaced, KahnInv, IsGraph
  <2>3. Unplaced # {}
    BY <2>1, <2>2, LengthDecides, LineIsNodes DEF KahnInv
  <2> QED BY <2>1, <2>2, <2>3, LeftoverWaits
<1> QED BY <1>1, KahnInvariant, PTL

\* A sort that succeeds has dropped nothing.
THEOREM OrderComplete == KahnSpec => []OrderIsComplete
<1>1. KahnInv => OrderIsComplete
  BY LengthDecides DEF KahnInv, LoopWasDone, OrderIsComplete, IsGraph
<1> QED BY <1>1, KahnInvariant, PTL

-----------------------------------------------------------------------------
\* Kahn's algorithm implements the definition of a topological order.

\* What the abstract sort means by placed, and by may be placed, read off the
\* code's order and queue.
LEMMA TopoVocabulary ==
  ASSUME IsGraph
  PROVE  /\ \A n : Topo!IsPlaced(n) <=> n \in Placed
         /\ Topo!Members(nodes) = Node
         /\ \A n : Topo!MayPlace(n) <=>
              /\ n \in Node \ Placed
              /\ \A k \in DOMAIN edges : edges[k][2] = n => edges[k][1] \in Placed
<1>1. \A n : Topo!IsPlaced(n) <=> n \in Placed
  BY DEF Topo!IsPlaced, Topo!Members, Placed, Elements
<1>2. Topo!Members(nodes) = Node
  BY DEF Topo!Members, IsGraph, Elements
<1> QED BY <1>1, <1>2 DEF Topo!MayPlace

\* Taking a node off the queue places a node all of whose predecessors are placed.
LEMMA DequeuePlaces ==
  ASSUME KahnInv, Dequeue
  PROVE  Topo!Place
<1> DEFINE n == Head(ready)
<1>1. /\ Waiting(n) = {} /\ n \in Node \ Placed
      /\ order' = Append(order, n)
  BY DequeueStep
<1>2. \A k \in DOMAIN edges : edges[k][2] = n => edges[k][1] \in Placed
  BY <1>1 DEF Waiting, EdgesInto, Released
<1>3. Topo!MayPlace(n)
  BY <1>1, <1>2, TopoVocabulary DEF KahnInv
<1>4. UNCHANGED <<nodes, edges, sort>> /\ sort = "loop"
  BY DEF Dequeue
<1> QED BY <1>1, <1>3, <1>4 DEF Topo!Place

\* The end of the main loop is an acceptance or a refusal of the abstract sort.
LEMMA FinishAnswers ==
  ASSUME KahnInv, Finish
  PROVE  Topo!Accept \/ Topo!Refuse
<1>1. /\ UNCHANGED <<nodes, edges, order>>
      /\ sort = "loop" /\ InnerLoopDone /\ ready = <<>>
      /\ sort' = IF Len(order) = Len(nodes) THEN "ordered" ELSE "cycle"
  BY DEF Finish
<1>2. CASE Len(order) = Len(nodes)
  <2>1. Placed = Node
    BY <1>2, LengthDecides
  <2>2. \A n \in Topo!Members(nodes) : Topo!IsPlaced(n)
    BY <2>1, TopoVocabulary DEF KahnInv
  <2> QED BY <1>1, <1>2, <2>2 DEF Topo!Accept
<1>3. CASE Len(order) # Len(nodes)
  <2>1. \E n \in Node : n \notin Placed
    BY <1>3, LengthDecides, LineIsNodes DEF KahnInv
  <2>2. \A n \in Node \ Placed :
          \E k \in DOMAIN edges : edges[k][2] = n /\ edges[k][1] \notin Placed
    BY <1>1, LeftoverWaits DEF Unplaced
  <2>3. \A n \in Node : ~Topo!MayPlace(n)
    BY <2>2, TopoVocabulary DEF KahnInv
  <2>4. \E n \in Topo!Members(nodes) : ~Topo!IsPlaced(n)
    BY <2>1, TopoVocabulary DEF KahnInv
  <2> QED BY <1>1, <1>3, <2>3, <2>4 DEF Topo!Refuse
<1> QED BY <1>2, <1>3

\* Every step of the algorithm places one activity that waits for nothing,
\* gives the answer, or changes neither the order nor the answer.
THEOREM KahnImplementsTopologicalOrder == KahnSpec => ImplementsTopologicalOrder
<1>1. KahnInit => Topo!TopoInit
  BY DEF KahnInit, Topo!TopoInit
<1>2. KahnInv /\ [KahnNext]_kahnVars => [Topo!TopoNext]_(Topo!topoVars)
  <2> SUFFICES ASSUME KahnInv, [KahnNext]_kahnVars
               PROVE  [Topo!TopoNext]_(Topo!topoVars)
    OBVIOUS
  <2> DEFINE same == UNCHANGED <<nodes, edges, order>>
                       /\ (sort' = sort \/ (sort = "seed" /\ sort' = "loop")
                           \/ (sort = "cycle" /\ sort' = "named"))
  <2>1. CASE Dequeue
    BY <2>1, DequeuePlaces DEF Topo!TopoNext
  <2>2. CASE Finish
    BY <2>2, FinishAnswers DEF Topo!TopoNext
  <2>3. CASE same
    BY <2>3 DEF Topo!topoVars
  <2>4. Seed \/ StartLoop \/ Release \/ Walk \/ WalkEnds \/ UNCHANGED kahnVars => same
    BY DEF Seed, StartLoop, Release, Walk, WalkEnds, kahnVars
  <2> QED BY <2>1, <2>2, <2>3, <2>4 DEF KahnNext
<1> QED BY <1>1, <1>2, KahnInvariant, PTL
      DEF KahnSpec, ImplementsTopologicalOrder, Topo!TopoSpec

-----------------------------------------------------------------------------
\* Activities without predecessors keep their declaration order.

Before(s, m, n) == \E p, q \in DOMAIN s : p < q /\ s[p] = m /\ s[q] = n

IsRoot(n) == EdgesInto(n) = {}

\* The inductive form: a root is in the order or the queue only behind every
\* root declared before it, the queue standing behind the order.
RootsQueueUp ==
  \A i, j \in DOMAIN nodes :
    i < j /\ IsRoot(nodes[i]) /\ IsRoot(nodes[j]) =>
      /\ nodes[j] \in Placed => Before(order, nodes[i], nodes[j])
      /\ nodes[j] \in Elements(ready) =>
           nodes[i] \in Placed \/ Before(ready, nodes[i], nodes[j])

\* Appending keeps the elements in the order they stand in, and the new one
\* behind all of them.
LEMMA AppendKeepsBefore ==
  ASSUME NEW S, NEW s \in Seq(S), NEW e \in S, NEW m
  PROVE  /\ \A n : Before(s, m, n) => Before(Append(s, e), m, n)
         /\ m \in Elements(s) => Before(Append(s, e), m, e)
<1> DEFINE t == Append(s, e)
<1>1. /\ DOMAIN t = 1..(Len(s) + 1) /\ DOMAIN s = 1..Len(s) /\ Len(s) \in Nat
      /\ \A i \in 1..Len(s) : t[i] = s[i]
      /\ t[Len(s) + 1] = e
  BY AppendProperties, LenProperties
<1> HIDE DEF t
<1>2. \A i \in DOMAIN s : i \in DOMAIN t /\ t[i] = s[i] /\ i < Len(s) + 1
  BY <1>1
<1>3. Len(s) + 1 \in DOMAIN t
  BY <1>1
<1>4. ASSUME NEW n, Before(s, m, n)
      PROVE  Before(t, m, n)
  BY <1>2, <1>4 DEF Before
<1>5. ASSUME m \in Elements(s)
      PROVE  Before(t, m, e)
  <2>1. PICK p \in DOMAIN s : s[p] = m
    BY <1>5 DEF Elements
  <2> QED BY <2>1, <1>1, <1>2, <1>3 DEF Before
<1> QED BY <1>4, <1>5 DEF t

\* Nothing stands before the head, and taking the head off leaves the others
\* in the order they stand in.
LEMMA TailKeepsBefore ==
  ASSUME NEW S, NEW s \in Seq(S), s # <<>>, Injective(s), NEW m, NEW n, Before(s, m, n)
  PROVE  n # Head(s) /\ (m = Head(s) \/ Before(Tail(s), m, n))
<1> DEFINE t == Tail(s)
<1>1. t \in Seq(S) /\ Len(t) = Len(s) - 1 /\ \A i \in 1..Len(t) : t[i] = s[i + 1]
  BY HeadTailProperties
<1>2. /\ DOMAIN t = 1..Len(t) /\ DOMAIN s = 1..Len(s) /\ Len(s) \in Nat \ {0}
  BY <1>1, LenProperties, EmptySeq
<1>3. Head(s) = s[1]
  OBVIOUS
<1> HIDE DEF t
<1>4. PICK p \in DOMAIN s, q \in DOMAIN s : p < q /\ s[p] = m /\ s[q] = n
  BY DEF Before
<1>5. 1 \in DOMAIN s /\ q # 1
  BY <1>2, <1>4
<1>6. n # Head(s)
  BY <1>3, <1>4, <1>5 DEF Injective
<1>7. CASE p = 1
  BY <1>3, <1>4, <1>6, <1>7
<1>8. CASE p # 1
  <2>1. p - 1 \in DOMAIN t /\ q - 1 \in DOMAIN t /\ p - 1 < q - 1
    BY <1>1, <1>2, <1>4, <1>8
  <2>2. t[p - 1] = m /\ t[q - 1] = n
    BY <2>1, <1>1, <1>2, <1>4
  <2>3. Before(t, m, n)
    BY <2>1, <2>2 DEF Before
  <2> QED BY <2>3, <1>6 DEF t
<1> QED BY <1>7, <1>8

\* Each step keeps the roots queued in declaration order: the scan meets them
\* in that order, the queue is first in first out, and a node that is released
\* is no root.
LEMMA RootsQueueUpStep ==
  ASSUME KahnInv, RootsQueueUp, [KahnNext]_kahnVars
  PROVE  RootsQueueUp'
<1> USE DEF KahnInv
<1>1. nodes' = nodes /\ edges' = edges /\ \A n : IsRoot(n)' <=> IsRoot(n)
  BY DEF KahnNext, Seed, StartLoop, Dequeue, Release, Finish, Walk, WalkEnds, kahnVars,
         IsRoot, EdgesInto
<1>2. SUFFICES ASSUME NEW i \in DOMAIN nodes, NEW j \in DOMAIN nodes, i < j,
                      IsRoot(nodes[i]), IsRoot(nodes[j])
               PROVE  /\ nodes[j] \in Placed' => Before(order, nodes[i], nodes[j])'
                      /\ nodes[j] \in Elements(ready') =>
                           nodes[i] \in Placed' \/ Before(ready, nodes[i], nodes[j])'
  BY <1>1 DEF RootsQueueUp
<1>2a. PICK m, n : m = nodes[i] /\ n = nodes[j]
  OBVIOUS
<1>2b. SUFFICES /\ n \in Placed' => Before(order', m, n)
                /\ n \in Elements(ready') => m \in Placed' \/ Before(ready', m, n)
  BY <1>1, <1>2a DEF Before, Elements
<1>3. /\ n \in Placed => Before(order, m, n)
      /\ n \in Elements(ready) => m \in Placed \/ Before(ready, m, n)
  BY <1>2, <1>2a DEF RootsQueueUp
<1>4. /\ ready \in Seq(Node) /\ order \in Seq(Node) /\ m \in Node /\ n \in Node
      /\ DOMAIN nodes = 1..Len(nodes) /\ Len(nodes) \in Nat
      /\ seeded \in 0..Len(nodes)
      /\ \A k, l \in 1..Len(nodes) : nodes[k] = nodes[l] => k = l
  BY <1>2a, NodesListed DEF KahnTypeOK
<1>5. CASE Seed
  <2> DEFINE new == nodes[seeded + 1]
  <2>1. /\ order' = order /\ sort = "seed" /\ seeded < Len(nodes)
        /\ ready' = IF inDegree[new] = 0 THEN Append(ready, new) ELSE ready
    BY <1>5 DEF Seed, IsFree, Enqueue
  <2>2. Placed = {} /\ Placed' = {}
    BY <2>1 DEF SeedScan, Placed, Elements
  <2>3. CASE inDegree[new] # 0
    BY <1>3, <2>1, <2>2, <2>3 DEF Before, Elements
  <2>4. CASE inDegree[new] = 0
    <3>1. seeded + 1 \in 1..Len(nodes) /\ new \in Node
      BY <1>4, <2>1, NodesListed
    <3>2. ready' = Append(ready, new) /\ Elements(ready') = Elements(Append(ready, new))
      BY <2>1, <2>4 DEF Elements
    <3>3. Elements(Append(ready, new)) = Elements(ready) \cup {new}
      BY <1>4, <3>1, AppendElements
    <3>4. CASE n \in Elements(ready)
      <4>1. Before(ready, m, n)
        BY <1>3, <2>2, <3>4
      <4>2. Before(Append(ready, new), m, n)
        BY <4>1, <1>4, <3>1, AppendKeepsBefore
      <4> QED BY <4>2, <2>2, <3>2 DEF Before
    <3>5. CASE n = new
      <4>1. i \in 1..seeded
        <5>1. i \in 1..Len(nodes) /\ j \in 1..Len(nodes)
          BY <1>4
        <5>2. j = seeded + 1
          BY <5>1, <1>2a, <1>4, <3>1, <3>5
        <5> QED BY <5>1, <5>2, <1>2, <1>4
      <4>2. inDegree[m] = 0
        <5>1. Waiting(m) = {} /\ inDegree[m] = Cardinality(Waiting(m))
          BY <1>2, <1>2a, <1>4 DEF IsRoot, Waiting, DegreesCount
        <5> QED BY <5>1, WaitingIsFinite
      <4>3. m \in Elements(ready)
        BY <4>1, <4>2, <2>1, <1>2a DEF SeedScan
      <4>4. Before(Append(ready, new), m, new)
        BY <4>3, <1>4, <3>1, AppendKeepsBefore
      <4> QED BY <4>4, <3>5, <2>2, <3>2 DEF Before
    <3> QED BY <2>2, <3>2, <3>3, <3>4, <3>5
  <2> QED BY <2>3, <2>4
<1>6. CASE Dequeue
  <2> DEFINE head == Head(ready)
  <2>1. /\ ready # <<>> /\ Injective(ready)
        /\ order' = Append(order, head) /\ ready' = Tail(ready)
        /\ Placed' = Elements(Append(order, head)) /\ Elements(ready') = Elements(Tail(ready))
    BY <1>6 DEF Dequeue, PlacedOnce, Placed, Elements
  <2>2. /\ head \in Node /\ Elements(ready) = {head} \cup Elements(Tail(ready))
    BY <1>4, <2>1, HeadAndTail
  <2>3. Elements(Append(order, head)) = Placed \cup {head}
    BY <1>4, <2>2, AppendElements DEF Placed
  <2>4. Before(order, m, n) => Before(Append(order, head), m, n)
    BY <1>4, <2>2, AppendKeepsBefore
  <2>5. m \in Placed => Before(Append(order, head), m, head)
    BY <1>4, <2>2, AppendKeepsBefore DEF Placed
  <2>6. Before(ready, m, n) => n # head /\ (m = head \/ Before(Tail(ready), m, n))
    BY <1>4, <2>1, TailKeepsBefore
  <2>7. n \in Placed' => Before(Append(order, head), m, n)
    BY <1>3, <2>1, <2>2, <2>3, <2>4, <2>5, <2>6
  <2>8. n \in Elements(Tail(ready)) => m \in Placed' \/ Before(Tail(ready), m, n)
    BY <1>3, <2>1, <2>2, <2>3, <2>6
  <2> QED BY <2>1, <2>7, <2>8 DEF Before
<1>7. CASE Release
  <2>1. PICK k \in DOMAIN edges :
          ready' = IF inDegree[edges[k][2]] = 1 THEN Append(ready, edges[k][2]) ELSE ready
    BY <1>7 DEF Release, BecomesFree, Enqueue
  <2>2. edges[k][2] \in Node /\ n # edges[k][2]
    BY <1>2, <1>2a DEF IsGraph, IsRoot, EdgesInto
  <2>3. order' = order /\ Placed' = Placed
    BY <1>7 DEF Release, Placed, Elements
  <2>4. Elements(Append(ready, edges[k][2])) = Elements(ready) \cup {edges[k][2]}
    BY <1>4, <2>2, AppendElements
  <2>5. Before(ready, m, n) => Before(Append(ready, edges[k][2]), m, n)
    BY <1>4, <2>2, AppendKeepsBefore
  <2>6. n \in Elements(ready') => n \in Elements(ready)
    BY <2>1, <2>2, <2>4
  <2>7. Before(ready, m, n) => Before(ready', m, n)
    BY <2>1, <2>5
  <2> QED BY <1>3, <2>3, <2>6, <2>7 DEF Before
<1>8. CASE UNCHANGED <<ready, order>>
  BY <1>3, <1>8 DEF Before, Placed, Elements
<1> QED BY <1>5, <1>6, <1>7, <1>8 DEF KahnNext, StartLoop, Finish, Walk, WalkEnds, kahnVars

\* A schedule with no logic comes back in the order the caller supplied it,
\* and with logic the activities nothing leads into still do, whatever is
\* released between them.
THEOREM RootsStayInOrder == KahnSpec => []RootsKeepDeclarationOrder
<1>1. KahnInit => RootsQueueUp
  BY DEF KahnInit, RootsQueueUp, Placed, Elements
<1>2. KahnInv /\ RootsQueueUp /\ [KahnNext]_kahnVars => RootsQueueUp'
  BY RootsQueueUpStep
<1>3. RootsQueueUp => RootsKeepDeclarationOrder
  BY DEF RootsQueueUp, RootsKeepDeclarationOrder, Before, IsRoot
<1> QED BY <1>1, <1>2, <1>3, KahnInvariant, PTL DEF KahnSpec

-----------------------------------------------------------------------------
\* The dates and durations of a legal network are numbers.

\* Rounding half to even, as Python's round() does, gives an integer.
LEMMA RoundingIsInteger ==
  ASSUME NEW n \in Int
  PROVE  RoundHalfEven(n, 10) \in Int
BY DEF RoundHalfEven

\* What is left of an activity, derived from its progress, is a number of days.
LEMMA DurationIsInteger ==
  ASSUME NEW t \in Activity
  PROVE  Duration(t) \in Int
<1>1. t.dur \in Int /\ t.remaining \in Int \cup {None} /\ t.percent \in Int \cup {None}
  BY DEF Activity, MaybeInt
<1>2. t.percent # None => RoundHalfEven(t.dur * (10 - Earlier(Later(t.percent, 0), 10)), 10) \in Int
  <2> SUFFICES ASSUME t.percent \in Int
               PROVE  RoundHalfEven(t.dur * (10 - Earlier(Later(t.percent, 0), 10)), 10) \in Int
    BY <1>1
  <2>1. 10 - Earlier(Later(t.percent, 0), 10) \in Int
    BY DEF Earlier, Later
  <2>2. t.dur * (10 - Earlier(Later(t.percent, 0), 10)) \in Int
    BY <1>1, <2>1
  <2> QED BY <2>2, RoundingIsInteger
<1> QED BY <1>1, <1>2 DEF Duration, RemainingDays, Later

\* An activity of a legal network has a calendar to be dated on.
LEMMA ActivityFacts ==
  ASSUME IsNetwork, NEW a \in Node
  PROVE  /\ Task(a) \in Activity /\ IsTask(Task(a))
         /\ IsLattice(Days(a)) /\ Duration(Task(a)) \in Int
<1>1. Task(a) \in Activity /\ IsTask(Task(a))
  BY DEF IsNetwork, Task
<1>2. Task(a).cal \in Calendars
  BY <1>1 DEF Activity
<1>3. IsLattice(Days(a))
  BY <1>2, CalendarAssumption DEF Days, IsLattice
<1> QED BY <1>1, <1>3, DurationIsInteger

\* Whatever calendar a lag is counted on, it is one of the bound ones.
LEMMA LagDaysIsLattice ==
  ASSUME IsNetwork, NEW p \in Node, NEW s \in Node
  PROVE  IsLattice(LagDays(p, s))
<1>1. IsLattice(Lattice[ProjectCalendar])
  BY CalendarAssumption DEF IsLattice
<1> QED BY <1>1, ActivityFacts DEF LagDays

\* Moving an instant by a lag gives an instant.
LEMMA LagIsInteger ==
  ASSUME NEW lat, IsLattice(lat), NEW i \in Int, NEW lag \in Int, NEW space
  PROVE  AdvanceLag(i, lag, space, lat) \in Int
<1>1. i - 1 \in Int
  OBVIOUS
<1>2. SnapStartBack(lat, i - 1) \in Int /\ SnapStartForward(lat, i) \in Int
  BY <1>1, SnapBackMovesBack, SnapForwardMovesForward
<1>3. /\ AddWorkingDays(lat, SnapStartBack(lat, i - 1), lag) \in Int
      /\ AddWorkingDays(lat, SnapStartForward(lat, i), lag) \in Int
  BY <1>2, AddingMovesForward
<1> QED BY <1>3 DEF AdvanceLag

ALink == [pred : Node, succ : Node, type : RelationType, lag : Int]

\* The bound a link puts on its successor is an instant.
LEMMA ForwardBoundIsInteger ==
  ASSUME IsNetwork, NEW l \in ALink, NEW s \in Int, NEW f \in Int
  PROVE  ForwardBound(l, s, f) \in Int
<1> DEFINE fromStart == l.type \in FromPredecessorStart
           b == AdvanceLag(IF fromStart THEN s ELSE f, l.lag,
                           IF fromStart THEN "start" ELSE "finish",
                           LagDays(l.pred, l.succ))
<1>1. l.pred \in Node /\ l.succ \in Node /\ l.lag \in Int
  BY DEF ALink
<1>2. (IF fromStart THEN s ELSE f) \in Int
  OBVIOUS
<1>3. b \in Int
  BY <1>1, <1>2, LagDaysIsLattice, LagIsInteger
<1> HIDE DEF b
<1>4. SnapFinishForward(Days(l.succ), b) \in Int
  BY <1>1, <1>3, ActivityFacts, SnapFinishMoves
<1>5. StartFromFinish(Days(l.succ), SnapFinishForward(Days(l.succ), b),
                      Duration(Task(l.succ))) \in Int
  BY <1>1, <1>4, ActivityFacts, SpansAreInstants
<1> QED BY <1>3, <1>5 DEF ForwardBound, b

\* The bound a link puts on its predecessor is an instant.
LEMMA BackwardBoundIsInteger ==
  ASSUME IsNetwork, NEW l \in ALink, NEW s \in Int, NEW f \in Int
  PROVE  BackwardBound(l, s, f) \in Int
<1> DEFINE toFinish == l.type \in DrivesSuccessorFinish
           b == AdvanceLag(IF toFinish THEN f ELSE s, -l.lag,
                           IF toFinish THEN "finish" ELSE "start",
                           LagDays(l.pred, l.succ))
<1>1. l.pred \in Node /\ l.succ \in Node /\ -l.lag \in Int
  BY DEF ALink
<1>2. (IF toFinish THEN f ELSE s) \in Int
  OBVIOUS
<1>3. b \in Int
  BY <1>1, <1>2, LagDaysIsLattice, LagIsInteger
<1> HIDE DEF b
<1>4. SnapStartBack(Days(l.pred), b) \in Int
  BY <1>1, <1>3, ActivityFacts, SnapBackMovesBack
<1>5. FinishFromStart(Days(l.pred), SnapStartBack(Days(l.pred), b),
                      Duration(Task(l.pred))) \in Int
  BY <1>1, <1>4, ActivityFacts, SpansAreInstants
<1> QED BY <1>3, <1>5 DEF BackwardBound, b

\* A dated constraint's floor and cap, where it has them.
LEMMA FloorAndCap ==
  ASSUME NEW lat, IsLattice(lat), NEW t \in Activity
  PROVE  EarlyFloor(lat, t) \in MaybeInt /\ LateCap(lat, t) \in MaybeInt
<1>1. Duration(t) \in Int
  BY DurationIsInteger
<1>2. CASE ~HasConstraint(t)
  BY <1>2 DEF EarlyFloor, LateCap, MaybeInt
<1>3. CASE HasConstraint(t)
  <2>1. t.cdate \in Int
    BY <1>3 DEF HasConstraint, Activity, MaybeInt
  <2>2. /\ SnapStartForward(lat, t.cdate) \in Int /\ SnapStartBack(lat, t.cdate) \in Int
        /\ SnapFinishForward(lat, t.cdate) \in Int /\ SnapFinishBack(lat, t.cdate) \in Int
    BY <2>1, SnapForwardMovesForward, SnapBackMovesBack, SnapFinishMoves
  <2>3. /\ StartFromFinish(lat, SnapFinishForward(lat, t.cdate), Duration(t)) \in Int
        /\ FinishFromStart(lat, SnapStartBack(lat, t.cdate), Duration(t)) \in Int
    BY <1>1, <2>2, SpansAreInstants
  <2> QED BY <2>2, <2>3 DEF EarlyFloor, LateCap, MaybeInt
<1> QED BY <1>2, <1>3

\* The precedence stack: never before the data date, and never before the
\* logic unless the constraint is mandatory.
LEMMA EarliestStartFacts ==
  ASSUME IsNetwork, bound \in MaybeInt, NEW lat, IsLattice(lat),
         NEW t \in Activity
  PROVE  /\ EarliestStart(lat, t) \in Int
         /\ EarliestStart(lat, t) >= net.dataDate
         /\ bound # None /\ t.constraint \notin Mandatory => EarliestStart(lat, t) >= bound
         /\ EarliestStart(lat, t) \in
              {bound, net.dataDate, t.start, EarlyFloor(lat, t)} \ {None}
<1>1. /\ net.dataDate \in Int /\ t.start \in Int \cup {None}
      /\ bound \in Int \cup {None} /\ EarlyFloor(lat, t) \in Int \cup {None}
      /\ None \notin Int
  BY FloorAndCap, NoneAssumption DEF IsNetwork, MaybeInt, Activity
<1>2. /\ LogicStart(t) \in Int /\ LogicStart(t) >= net.dataDate
      /\ bound # None => LogicStart(t) >= bound
      /\ LogicStart(t) \in {bound, net.dataDate, t.start} \ {None}
  BY <1>1 DEF LogicStart, Later
<1> QED BY <1>1, <1>2 DEF EarliestStart, Later

-----------------------------------------------------------------------------
\* The sort inside the calculation.

\* No step changes the network, and only the sort phase moves the sort.
LEMMA StepsKeepTheNetwork ==
  ASSUME [CPMNext]_vars
  PROVE  /\ [KahnNext]_kahnVars
         /\ net' = net /\ edges' = edges
         /\ phase # "sort" => UNCHANGED kahnVars
<1> USE DEF kahnVars, cpmVars, vars
<1>1. CASE Validate
  BY <1>1 DEF Validate
<1>2. CASE Sort
  BY <1>2 DEF Sort, KahnNext, Seed, StartLoop, Dequeue, Release, Finish, Walk, WalkEnds
<1>3. CASE StartForward
  BY <1>3 DEF StartForward
<1>4. CASE Forward
  BY <1>4 DEF Forward, KeepActuals, ConsiderPredecessor, PlaceEarly
<1>5. CASE SetDeadline
  BY <1>5 DEF SetDeadline
<1>6. CASE Backward
  BY <1>6 DEF Backward, KeepActualsLate, ConsiderSuccessor, PlaceLate
<1>7. CASE StartPostPass
  BY <1>7 DEF StartPostPass
<1>8. CASE PostPass
  BY <1>8 DEF PostPass, SlideLate, StartFloat, MeasureFloat, Return
<1>9. CASE UNCHANGED vars
  BY <1>9
<1> QED BY <1>1, <1>2, <1>3, <1>4, <1>5, <1>6, <1>7, <1>8, <1>9 DEF CPMNext

\* The calculation, seen at the variables of the sort, is a run of the sort:
\* what is shown above of the sort alone holds during the calculation.
THEOREM CPMRunsTheSort == CPMSpec => KahnSpec
<1>1. CPMInit => KahnInit
  BY DEF CPMInit
<1>2. [CPMNext]_vars => [KahnNext]_kahnVars
  BY StepsKeepTheNetwork
<1> QED BY <1>1, <1>2, PTL DEF CPMSpec, KahnSpec

\* The network stays the legal one the caller supplied, and the sort and the
\* passes work on the same active links.
LEMMA NetworkStays == CPMSpec => [](KahnInv /\ NetworkFixed)
<1>1. IsNetwork /\ CPMInit => NetworkFixed
  BY DEF CPMInit, NetworkFixed
<1>2. NetworkFixed /\ [CPMNext]_vars => NetworkFixed'
  BY StepsKeepTheNetwork DEF NetworkFixed, IsNetwork, Task, ActiveEdges, Suppressed
<1>3. CPMSpec => []NetworkFixed
  BY <1>1, <1>2, PTL DEF CPMSpec
<1> QED BY <1>3, CPMRunsTheSort, KahnInvariant, PTL

\* An active link is a declared link, between declared activities.
LEMMA EdgeFacts ==
  ASSUME KahnInv, NetworkFixed, NEW k \in DOMAIN edges
  PROVE  /\ edges[k][1] \in Node /\ edges[k][2] \in Node /\ k \in Nat
         /\ Link(k) \in ALink
         /\ Link(k).pred = edges[k][1] /\ Link(k).succ = edges[k][2]
<1>1. /\ edges[k][1] \in Node /\ edges[k][2] \in Node /\ k \in Nat
  BY DEF KahnInv, IsGraph
<1>2. k \in DOMAIN net.links /\ edges[k] = <<Link(k).pred, Link(k).succ>>
  BY DEF NetworkFixed, ActiveEdges, Link
<1>3. Link(k) \in ALink
  BY <1>2 DEF NetworkFixed, IsNetwork, Link, ALink
<1> QED BY <1>1, <1>2, <1>3

\* Once the sort has succeeded the order lists every activity once, after all
\* its predecessors.
LEMMA OrderFacts ==
  ASSUME KahnInv, sort = "ordered"
  PROVE  /\ Len(order) \in Nat /\ DOMAIN order = 1..Len(order)
         /\ \A j \in DOMAIN order : order[j] \in Node
         /\ \A i, j \in DOMAIN order : order[i] = order[j] => i = j
         /\ \A a \in Node : \E j \in DOMAIN order : order[j] = a
         /\ \A k \in DOMAIN edges : \A j \in DOMAIN order :
              order[j] = edges[k][2] =>
                \E i \in DOMAIN order : i < j /\ order[i] = edges[k][1]
<1>1. order \in Seq(Node) /\ Injective(order) /\ OrderRespectsEdges
  BY DEF KahnInv, KahnTypeOK, PlacedOnce
<1>2. Len(order) \in Nat /\ DOMAIN order = 1..Len(order)
  BY <1>1, LenProperties
<1>3. \A j \in DOMAIN order : order[j] \in Node
  BY <1>1, <1>2, ElementOfSeq
<1>4. Placed = Node
  BY LengthDecides DEF KahnInv, LoopWasDone
<1> QED BY <1>1, <1>2, <1>3, <1>4 DEF Injective, OrderRespectsEdges, Placed, Elements

-----------------------------------------------------------------------------
\* Structure is inductive.

\* The structural invariant holds before the first step.
LEMMA StructureInit ==
  ASSUME IsGraph, IsNetwork, CPMInit
  PROVE  Structure
<1>1. KahnInv
  BY InitEstablishes DEF CPMInit
<1>2. NetworkFixed
  BY DEF CPMInit, NetworkFixed
<1>3. DatesTyped
  BY DEF CPMInit, DatesTyped, MaybeInt
<1>4. PhaseOrder
  BY DEF CPMInit, PhaseOrder, Passes
<1>5. DatedPrefix
  BY DEF CPMInit, DatedPrefix
<1> QED BY <1>1, <1>2, <1>3, <1>4, <1>5 DEF Structure

\* The steps that only move from phase to phase.
LEMMA PhaseSteps ==
  ASSUME Structure, Validate \/ Sort \/ StartForward
  PROVE  (DatesTyped /\ PhaseOrder /\ DatedPrefix)'
<1> USE DEF Structure, passVars, earlyVars, lateVars, spanVars, floatVars, cpmVars
<1>1. CASE Validate
  BY <1>1 DEF Validate, DatesTyped, PhaseOrder, DatedPrefix, Passes
<1>2. CASE Sort
  BY <1>2 DEF Sort, DatesTyped, PhaseOrder, DatedPrefix, Passes
<1>3. CASE StartForward
  <2>1. /\ phase = "sort" /\ phase' = "forward" /\ sort = "ordered"
        /\ UNCHANGED <<order, sort, at, cand, bound, driver, es, ef, ls, lf, driving>>
    BY <1>3 DEF StartForward, kahnVars
  <2>2. DatesTyped'
    BY <2>1 DEF DatesTyped, Passes
  <2>3. PhaseOrder'
    BY <2>1 DEF PhaseOrder, Passes
  <2>4. DatedPrefix'
    BY <2>1, OrderFacts DEF DatedPrefix, PhaseOrder, Passes
  <2> QED BY <2>2, <2>3, <2>4
<1> QED BY <1>1, <1>2, <1>3

\* Dating the activity at position `at` of the order, whichever way.
LEMMA DatingOne ==
  ASSUME Structure, phase = "forward", at <= Len(order), phase' = phase,
         UNCHANGED <<order, sort, ls, lf>>,
         NEW x \in Int, NEW y \in Int,
         es' = [es EXCEPT ![order[at]] = x], ef' = [ef EXCEPT ![order[at]] = y],
         at' = at + 1, cand' \in Nat, bound' \in MaybeInt, driver' \in Node \cup {None},
         driving' \in [Node -> Node \cup {None}]
  PROVE  (DatesTyped /\ PhaseOrder /\ DatedPrefix)'
<1> USE DEF Structure
<1>1. /\ Len(order) \in Nat /\ DOMAIN order = 1..Len(order) /\ sort = "ordered"
      /\ \A j \in DOMAIN order : order[j] \in Node
      /\ \A i, j \in DOMAIN order : order[i] = order[j] => i = j
  BY OrderFacts DEF PhaseOrder, Passes
<1>2. at \in DOMAIN order /\ at \in Nat
  BY <1>1 DEF DatedPrefix
<1>3. /\ \A a \in Node : a # order[at] => es'[a] = es[a] /\ ef'[a] = ef[a]
      /\ es'[order[at]] = x /\ ef'[order[at]] = y /\ x # None /\ y # None
  BY <1>1, <1>2, NoneAssumption DEF DatesTyped
<1>4. DatesTyped'
  <2>1. es' \in [Node -> MaybeInt] /\ ef' \in [Node -> MaybeInt]
    BY DEF DatesTyped, MaybeInt
  <2>2. \A a \in Node : (es'[a] = None <=> ef'[a] = None) /\ (ls[a] = None <=> lf[a] = None)
    BY <1>3 DEF DatesTyped
  <2>3. at' \in Nat /\ phase \in Passes
    BY <1>2 DEF Passes
  <2> QED BY <2>1, <2>2, <2>3 DEF DatesTyped
<1>5. PhaseOrder'
  BY <1>1 DEF PhaseOrder, Passes
<1>6. DatedPrefix'
  <2> SUFFICES ASSUME NEW j \in DOMAIN order
               PROVE  ef'[order[j]] # None <=> j < at + 1
    BY <1>1, <1>2 DEF DatedPrefix
  <2>1. j \in Nat
    BY <1>1
  <2>2. CASE j = at
    BY <1>2, <1>3, <2>2
  <2>3. CASE j # at
    BY <1>1, <1>2, <1>3, <2>1, <2>3 DEF DatedPrefix
  <2> QED BY <2>2, <2>3
<1> QED BY <1>4, <1>5, <1>6

\* Copying the recorded dates of finished work keeps the structure: the
\* activity at hand gets dates, and the pass moves on by one.
LEMMA KeepActualsStep ==
  ASSUME Structure, KeepActuals
  PROVE  /\ (DatesTyped /\ PhaseOrder /\ DatedPrefix)'
         /\ order[at] \in Node /\ IsComplete(Task(order[at]))
         /\ es' = [es EXCEPT ![order[at]] = Task(order[at]).start]
         /\ ef' = [ef EXCEPT ![order[at]] = Task(order[at]).finish + 1]
<1> DEFINE a == order[at]
<1>1. /\ phase = "forward" /\ phase' = phase /\ at <= Len(order) /\ at' = at + 1
      /\ UNCHANGED <<order, sort, ls, lf, cand, bound, driver, driving>>
      /\ IsComplete(Task(a))
      /\ es' = [es EXCEPT ![a] = Task(a).start]
      /\ ef' = [ef EXCEPT ![a] = Task(a).finish + 1]
  BY DEF KeepActuals, kahnVars, lateVars
<1>2. a \in Node
  BY <1>1, OrderFacts DEF Structure, PhaseOrder, DatedPrefix, Passes
<1>3. Task(a).start \in Int /\ Task(a).finish + 1 \in Int
  <2>1. Task(a) \in Activity /\ IsTask(Task(a)) /\ Task(a).finish # None
    BY <1>1, <1>2, ActivityFacts DEF Structure, NetworkFixed, IsComplete
  <2> QED BY <2>1 DEF Activity, IsTask, MaybeInt
<1>4. /\ cand' \in Nat /\ bound' \in MaybeInt /\ driver' \in Node \cup {None}
      /\ driving' \in [Node -> Node \cup {None}]
  BY <1>1 DEF Structure, DatesTyped
<1> HIDE DEF a
<1>5. (DatesTyped /\ PhaseOrder /\ DatedPrefix)'
  BY <1>1, <1>3, <1>4, DatingOne DEF a
<1> QED BY <1>1, <1>2, <1>5 DEF a

\* What dating an activity by PlaceEarly comes to.
LEMMA PlaceEarlyStep ==
  ASSUME Structure, PlaceEarly
  PROVE  /\ (DatesTyped /\ PhaseOrder /\ DatedPrefix)'
         /\ order[at] \in Node /\ ~IsComplete(Task(order[at]))
         /\ NoLinkInto(order[at], cand)
         /\ \E start \in Int, finish \in Int :
              /\ start = SnapStartForward(Days(order[at]),
                           EarliestStart(Days(order[at]), Task(order[at])))
              /\ es' = [es EXCEPT ![order[at]] = start]
              /\ ef' = [ef EXCEPT ![order[at]] = finish]
              /\ driving' = [driving EXCEPT ![order[at]] =
                   DrivenBy(EarliestStart(Days(order[at]), Task(order[at])))]
<1> DEFINE a        == order[at]
           earliest == EarliestStart(Days(a), Task(a))
           start    == SnapStartForward(Days(a), earliest)
           finish   == FinishFromStart(Days(a), start, Duration(Task(a)))
<1>1. /\ phase = "forward" /\ phase' = phase /\ at <= Len(order) /\ at' = at + 1
      /\ UNCHANGED <<order, sort, ls, lf>>
      /\ cand' = 1 /\ bound' = None /\ driver' = None
      /\ ~IsComplete(Task(a)) /\ NoLinkInto(a, cand)
      /\ es' = [es EXCEPT ![a] = start] /\ ef' = [ef EXCEPT ![a] = finish]
      /\ driving' = [driving EXCEPT ![a] = DrivenBy(earliest)]
  BY DEF PlaceEarly, kahnVars, lateVars
<1>2. a \in Node
  BY <1>1, OrderFacts DEF Structure, PhaseOrder, DatedPrefix, Passes
<1>3. start \in Int /\ finish \in Int
  <2>1. /\ IsLattice(Days(a)) /\ Task(a) \in Activity /\ Duration(Task(a)) \in Int
    BY <1>2, ActivityFacts DEF Structure, NetworkFixed
  <2>2. earliest \in Int
    BY <2>1, EarliestStartFacts DEF Structure, NetworkFixed, DatesTyped
  <2> HIDE DEF earliest
  <2>3. start \in Int
    BY <2>1, <2>2, SnapForwardMovesForward
  <2> HIDE DEF start
  <2> QED BY <2>1, <2>3, SpansAreInstants
<1> HIDE DEF start, finish, earliest
<1>4. driving' \in [Node -> Node \cup {None}]
  BY <1>1 DEF Structure, DatesTyped, DrivenBy
<1>5. (DatesTyped /\ PhaseOrder /\ DatedPrefix)'
  BY <1>1, <1>3, <1>4, DatingOne DEF MaybeInt
<1> QED BY <1>1, <1>2, <1>3, <1>5 DEF start, earliest

\* One link into the activity: the predecessor it names, and the bound kept.
LEMMA ConsiderPredecessorStep ==
  ASSUME Structure, ConsiderPredecessor
  PROVE  /\ (DatesTyped /\ PhaseOrder /\ DatedPrefix)'
         /\ at <= Len(order) /\ ~IsComplete(Task(order[at]))
         /\ UNCHANGED <<phase, at, order, es, ef, driving>>
         /\ \E k \in DOMAIN edges :
              /\ IsNextLinkInto(order[at], cand, k) /\ cand' = k + 1
              /\ ef[edges[k][1]] # None => LinkBound(k) \in Int
              /\ IF ef[edges[k][1]] # None /\ BeatsBound(LinkBound(k))
                 THEN bound' = LinkBound(k) /\ driver' = edges[k][1]
                 ELSE bound' = bound /\ driver' = driver
<1>1. /\ phase = "forward" /\ at <= Len(order) /\ ~IsComplete(Task(order[at]))
      /\ UNCHANGED <<phase, at, order, sort, es, ef, ls, lf, driving,
                     projectFinish, deadline>>
  BY DEF ConsiderPredecessor, kahnVars, earlyVars, lateVars, spanVars
<1>2. PICK k \in DOMAIN edges :
        /\ IsNextLinkInto(order[at], cand, k) /\ cand' = k + 1
        /\ IF ef[edges[k][1]] # None /\ BeatsBound(LinkBound(k))
           THEN bound' = LinkBound(k) /\ driver' = edges[k][1]
           ELSE bound' = bound /\ driver' = driver
  BY DEF ConsiderPredecessor, LinkBound
<1>3. k \in Nat /\ edges[k][1] \in Node /\ Link(k) \in ALink
  BY EdgeFacts DEF Structure
<1>4. ef[edges[k][1]] # None => LinkBound(k) \in Int
  <2> SUFFICES ASSUME ef[edges[k][1]] # None  PROVE LinkBound(k) \in Int
    OBVIOUS
  <2>1. es[edges[k][1]] \in Int /\ ef[edges[k][1]] \in Int
    BY <1>3 DEF Structure, DatesTyped, MaybeInt
  <2> QED BY <1>3, <2>1, ForwardBoundIsInteger DEF LinkBound, Structure, NetworkFixed
<1>5. bound' \in MaybeInt /\ driver' \in Node \cup {None}
  BY <1>2, <1>3, <1>4 DEF Structure, DatesTyped, MaybeInt
<1>6. DatesTyped'
  BY <1>1, <1>2, <1>3, <1>5 DEF Structure, DatesTyped
<1>7. PhaseOrder' /\ DatedPrefix'
  BY <1>1 DEF Structure, PhaseOrder, DatedPrefix, Passes
<1> QED BY <1>1, <1>2, <1>4, <1>6, <1>7

\* Between the passes every activity is dated.
LEMMA SetDeadlineStep ==
  ASSUME Structure, SetDeadline
  PROVE  (DatesTyped /\ PhaseOrder /\ DatedPrefix)'
<1>1. /\ phase = "forward" /\ phase' = "backward" /\ at = Len(order) + 1 /\ at' = Len(order)
      /\ UNCHANGED <<order, sort, cand, bound, driver, es, ef, ls, lf, driving>>
  BY DEF SetDeadline, kahnVars, earlyVars, lateVars
<1>2. /\ Len(order) \in Nat /\ DOMAIN order = 1..Len(order) /\ sort = "ordered"
      /\ \A a \in Node : \E j \in DOMAIN order : order[j] = a
  BY <1>1, OrderFacts DEF Structure, PhaseOrder, Passes
<1>3. \A a \in Node : ef[a] \in Int
  <2> SUFFICES ASSUME NEW a \in Node  PROVE ef[a] \in Int
    OBVIOUS
  <2>1. PICK j \in DOMAIN order : order[j] = a
    BY <1>2
  <2>2. ef[a] # None
    BY <1>1, <1>2, <2>1 DEF Structure, DatedPrefix
  <2> QED BY <2>2 DEF Structure, DatesTyped, MaybeInt
<1>4. projectFinish' \in Int
  BY <1>3 DEF SetDeadline
<1>5. deadline' \in Int
  BY <1>3 DEF SetDeadline, Structure, NetworkFixed, IsNetwork, MaybeInt
<1>6. DatesTyped'
  BY <1>1, <1>2 DEF Structure, DatesTyped, Passes
<1>7. PhaseOrder'
  BY <1>1, <1>2, <1>3, <1>4, <1>5, NoneAssumption DEF Structure, PhaseOrder, Passes
<1>8. DatedPrefix'
  BY <1>1 DEF DatedPrefix
<1> QED BY <1>6, <1>7, <1>8

\* Where the backward pass and the post-pass look, there is an activity.
LEMMA ActivityAtPosition ==
  ASSUME Structure, phase \in {"backward", "alap"}, at >= 1
  PROVE  order[at] \in Node /\ IsLattice(Days(order[at])) /\ Task(order[at]) \in Activity
         /\ Duration(Task(order[at])) \in Int
<1>1. order[at] \in Node
  BY OrderFacts DEF Structure, PhaseOrder, DatesTyped, Passes
<1> QED BY <1>1, ActivityFacts DEF Structure, NetworkFixed

\* Giving the activity at position `at` its late dates.
LEMMA LateOne ==
  ASSUME Structure, phase = "backward", at >= 1, phase' = phase, at' = at - 1,
         UNCHANGED <<order, sort, es, ef, driving, driver, projectFinish, deadline>>,
         NEW x \in Int, NEW y \in Int,
         ls' = [ls EXCEPT ![order[at]] = x], lf' = [lf EXCEPT ![order[at]] = y],
         cand' \in Nat, bound' \in MaybeInt
  PROVE  (DatesTyped /\ PhaseOrder /\ DatedPrefix)'
<1>1. order[at] \in Node /\ Len(order) \in Nat /\ sort = "ordered"
  BY ActivityAtPosition, OrderFacts DEF Structure, PhaseOrder, Passes
<1>2. ls' \in [Node -> MaybeInt] /\ lf' \in [Node -> MaybeInt]
  BY <1>1 DEF Structure, DatesTyped, MaybeInt
<1>3. \A a \in Node : ls'[a] = None <=> lf'[a] = None
  BY <1>1, NoneAssumption DEF Structure, DatesTyped
<1>4. DatesTyped'
  BY <1>2, <1>3 DEF Structure, DatesTyped, Passes
<1>5. PhaseOrder'
  BY <1>1 DEF Structure, PhaseOrder, DatesTyped, Passes
<1>6. DatedPrefix'
  BY DEF DatedPrefix
<1> QED BY <1>4, <1>5, <1>6

\* Copying them in the backward pass keeps the structure.
LEMMA KeepActualsLateStep ==
  ASSUME Structure, KeepActualsLate
  PROVE  (DatesTyped /\ PhaseOrder /\ DatedPrefix)'
<1>1. /\ phase = "backward" /\ at >= 1 /\ phase' = phase /\ at' = at - 1
      /\ UNCHANGED <<order, sort, es, ef, driving, driver, projectFinish, deadline,
                     cand, bound>>
      /\ ls' = [ls EXCEPT ![order[at]] = es[order[at]]]
      /\ lf' = [lf EXCEPT ![order[at]] = ef[order[at]]]
  BY DEF KeepActualsLate, kahnVars, earlyVars, spanVars
<1>2. es[order[at]] \in Int /\ ef[order[at]] \in Int
  BY <1>1, ActivityAtPosition DEF Structure, PhaseOrder, DatesTyped, MaybeInt, Passes
<1>3. cand' \in Nat /\ bound' \in MaybeInt
  BY <1>1 DEF Structure, DatesTyped
<1> QED BY <1>1, <1>2, <1>3, LateOne

\* Considering a successor only lowers the bound.
LEMMA ConsiderSuccessorStep ==
  ASSUME Structure, ConsiderSuccessor
  PROVE  (DatesTyped /\ PhaseOrder /\ DatedPrefix)'
<1>1. /\ phase = "backward"
      /\ UNCHANGED <<phase, at, order, sort, es, ef, ls, lf, driving, driver,
                     projectFinish, deadline>>
  BY DEF ConsiderSuccessor, kahnVars, earlyVars, lateVars, spanVars
<1>2. PICK k \in DOMAIN edges :
        /\ cand' = k + 1
        /\ LET s == edges[k][2]
               b == BackwardBound(Link(k), ls[s], lf[s])
           IN  bound' = IF ls[s] # None /\ (bound = None \/ b < bound) THEN b ELSE bound
  BY DEF ConsiderSuccessor
<1>3. k \in Nat /\ edges[k][2] \in Node /\ Link(k) \in ALink
  BY EdgeFacts DEF Structure
<1> DEFINE s == edges[k][2]
<1>4. ls[s] # None => BackwardBound(Link(k), ls[s], lf[s]) \in Int
  <2> SUFFICES ASSUME ls[s] # None  PROVE BackwardBound(Link(k), ls[s], lf[s]) \in Int
    OBVIOUS
  <2>1. ls[s] \in Int /\ lf[s] \in Int
    BY <1>3 DEF Structure, DatesTyped, MaybeInt
  <2> QED BY <1>3, <2>1, BackwardBoundIsInteger DEF Structure, NetworkFixed
<1>5. bound' \in MaybeInt
  BY <1>2, <1>4 DEF Structure, DatesTyped, MaybeInt
<1>6. DatesTyped'
  BY <1>1, <1>2, <1>3, <1>5 DEF Structure, DatesTyped
<1>7. PhaseOrder' /\ DatedPrefix'
  BY <1>1 DEF Structure, PhaseOrder, DatedPrefix, Passes
<1> QED BY <1>6, <1>7

\* The latest finish an activity may have, and the finish PlaceLate gives it.
LEMMA LatestFinishFacts ==
  ASSUME Structure, phase = "backward", NEW lat, IsLattice(lat), NEW t \in Activity
  PROVE  /\ LatestFinish(lat, t) \in Int
         /\ t.constraint \notin Mandatory => LatestFinish(lat, t) <= deadline
<1>1. /\ deadline \in Int /\ bound \in Int \cup {None} /\ LateCap(lat, t) \in Int \cup {None}
  BY FloorAndCap DEF Structure, PhaseOrder, DatesTyped, MaybeInt, Passes
<1> QED BY <1>1 DEF LatestFinish, Earlier

\* Placing late dates keeps the structure, and the late finish is no later than
\* the deadline unless a mandatory constraint set it.
LEMMA PlaceLateStep ==
  ASSUME Structure, PlaceLate
  PROVE  /\ (DatesTyped /\ PhaseOrder /\ DatedPrefix)'
         /\ order[at] \in Node /\ phase = "backward" /\ UNCHANGED deadline
         /\ \E finish \in Int :
              /\ lf' = [lf EXCEPT ![order[at]] = finish]
              /\ Task(order[at]).constraint \notin Mandatory => finish <= deadline
<1> DEFINE a      == order[at]
           t      == Task(a)
           latest == LatestFinish(Days(a), t)
           finish == IF Duration(t) = 0 THEN latest ELSE SnapFinishBack(Days(a), latest)
           start  == StartFromFinish(Days(a), finish, Duration(t))
<1>1. /\ phase = "backward" /\ at >= 1 /\ phase' = phase /\ at' = at - 1
      /\ UNCHANGED <<order, sort, es, ef, driving, driver, projectFinish, deadline>>
      /\ cand' = 1 /\ bound' = None
      /\ lf' = [lf EXCEPT ![a] = finish] /\ ls' = [ls EXCEPT ![a] = start]
  BY DEF PlaceLate, kahnVars, earlyVars, spanVars
<1>2. a \in Node /\ IsLattice(Days(a)) /\ t \in Activity /\ Duration(t) \in Int
  BY <1>1, ActivityAtPosition
<1>3. latest \in Int /\ (t.constraint \notin Mandatory => latest <= deadline)
  BY <1>1, <1>2, LatestFinishFacts
<1> HIDE DEF a, latest
<1>4. finish \in Int /\ finish <= latest
  BY <1>2, <1>3, SnapFinishMoves
<1>5. start \in Int
  BY <1>2, <1>4, SpansAreInstants
<1>6. deadline \in Int
  BY <1>1 DEF Structure, PhaseOrder, Passes
<1> HIDE DEF finish, start
<1>7. (DatesTyped /\ PhaseOrder /\ DatedPrefix)'
  BY <1>1, <1>4, <1>5, LateOne DEF MaybeInt, a
<1>8. t.constraint \notin Mandatory => finish <= deadline
  BY <1>3, <1>4, <1>6
<1> QED BY <1>1, <1>2, <1>4, <1>7, <1>8 DEF a

\* The post-pass moves one activity, later, if it may move it at all.
LEMMA SlideLateStep ==
  ASSUME Structure, SlideLate
  PROVE  /\ (DatesTyped /\ PhaseOrder /\ DatedPrefix)'
         /\ phase = "alap" /\ UNCHANGED <<phase, lf, deadline>> /\ order[at] \in Node
         /\ \/ UNCHANGED <<es, ef>>
            \/ /\ MaySlide(order[at])
               /\ es[order[at]] \in Int
               /\ \E start \in Int, finish \in Int :
                    /\ start >= es[order[at]]
                    /\ es' = [es EXCEPT ![order[at]] = start]
                    /\ ef' = [ef EXCEPT ![order[at]] = finish]
<1> DEFINE a == order[at]
<1>1. /\ phase = "alap" /\ at >= 1 /\ at' = at - 1
      /\ UNCHANGED <<phase, order, sort, ls, lf, driving, driver, projectFinish, deadline,
                     cand, bound>>
  BY DEF SlideLate, kahnVars, lateVars, spanVars
<1>2. a \in Node /\ IsLattice(Days(a)) /\ Task(a) \in Activity
  BY <1>1, ActivityAtPosition
<1>3. /\ \A b \in Node : es[b] \in Int /\ ef[b] \in Int
      /\ projectFinish \in Int
  BY <1>1 DEF Structure, PhaseOrder, DatesTyped, MaybeInt, Passes
<1>4. AlapRooms(a) \subseteq Int
  <2>1. \A k \in Successors(a) : edges[k][2] \in Node
    BY EdgeFacts DEF Successors, Structure
  <2> QED BY <1>2, <1>3, <2>1, CountIsInteger DEF AlapRooms
<1>5. \/ UNCHANGED <<es, ef>>
      \/ /\ MaySlide(a)
         /\ \E start \in Int, finish \in Int :
              /\ start >= es[a]
              /\ es' = [es EXCEPT ![a] = start] /\ ef' = [ef EXCEPT ![a] = finish]
  <2> SUFFICES ASSUME ~UNCHANGED <<es, ef>>
               PROVE  /\ MaySlide(a)
                      /\ \E start \in Int, finish \in Int :
                           /\ start >= es[a]
                           /\ es' = [es EXCEPT ![a] = start] /\ ef' = [ef EXCEPT ![a] = finish]
    OBVIOUS
  <2>1. MaySlide(a)
    BY DEF SlideLate
  <2>2. PICK room \in AlapRooms(a) :
          /\ room > 0
          /\ LET start == AddWorkingDays(Days(a), SnapStartForward(Days(a), es[a]), room)
             IN  /\ es' = [es EXCEPT ![a] = start]
                 /\ ef' = [ef EXCEPT ![a] = FinishFromStart(Days(a), start, Task(a).dur)]
    <3> HIDE DEF a
    <3>1. PICK room \in AlapRooms(a) :
            IF room <= 0 THEN UNCHANGED <<es, ef>>
            ELSE LET start == AddWorkingDays(Days(a), SnapStartForward(Days(a), es[a]), room)
                 IN  /\ es' = [es EXCEPT ![a] = start]
                     /\ ef' = [ef EXCEPT ![a] = FinishFromStart(Days(a), start, Task(a).dur)]
      BY <2>1 DEF SlideLate, a
    <3>2. ~(room <= 0)
      BY <3>1
    <3>3. room > 0
      BY <1>4, <3>2
    <3> QED BY <3>1, <3>2, <3>3
  <2> DEFINE snap   == SnapStartForward(Days(a), es[a])
             start  == AddWorkingDays(Days(a), snap, room)
             finish == FinishFromStart(Days(a), start, Task(a).dur)
  <2>3. snap \in Int /\ snap >= es[a]
    BY <1>2, <1>3, SnapForwardMovesForward
  <2> HIDE DEF snap
  <2>4. start \in Int /\ start >= snap
    BY <1>2, <1>4, <2>2, <2>3, AddingMovesForward
  <2> HIDE DEF start
  <2>5. finish \in Int
    BY <1>2, <2>4, SpansAreInstants DEF Activity
  <2>6. start >= es[a]
    BY <1>2, <1>3, <2>3, <2>4
  <2> QED BY <2>1, <2>2, <2>4, <2>5, <2>6 DEF start, finish, snap
<1>6. /\ es' \in [Node -> MaybeInt] /\ ef' \in [Node -> MaybeInt]
      /\ \A b \in Node : es'[b] # None /\ ef'[b] # None
  <2>1. CASE UNCHANGED <<es, ef>>
    BY <1>3, <2>1, NoneAssumption DEF Structure, DatesTyped
  <2>2. CASE \E start \in Int, finish \in Int :
              es' = [es EXCEPT ![a] = start] /\ ef' = [ef EXCEPT ![a] = finish]
    <3> HIDE DEF a
    <3>1. PICK start \in Int, finish \in Int :
              es' = [es EXCEPT ![a] = start] /\ ef' = [ef EXCEPT ![a] = finish]
      BY <2>2
    <3>2. es' \in [Node -> MaybeInt] /\ ef' \in [Node -> MaybeInt]
      BY <3>1 DEF Structure, DatesTyped, MaybeInt
    <3>3. \A b \in Node : es'[b] \in Int /\ ef'[b] \in Int
      BY <1>3, <3>1 DEF Structure, DatesTyped
    <3> QED BY <3>2, <3>3, NoneAssumption
  <2> QED BY <1>5, <2>1, <2>2
<1>7. DatesTyped'
  BY <1>1, <1>6 DEF Structure, DatesTyped
<1>8. PhaseOrder' /\ DatedPrefix'
  <2>1. Len(order) \in Nat
    BY <1>1, OrderFacts DEF Structure, PhaseOrder, Passes
  <2> QED BY <1>1, <1>6, <2>1 DEF Structure, PhaseOrder, DatedPrefix, DatesTyped, Passes
<1> QED BY <1>1, <1>2, <1>3, <1>5, <1>7, <1>8

\* The other steps after the backward pass date nothing.
LEMMA ClosingSteps ==
  ASSUME Structure, StartPostPass \/ StartFloat \/ MeasureFloat \/ Return
  PROVE  /\ (DatesTyped /\ PhaseOrder /\ DatedPrefix)'
         /\ phase' \in {"alap", "float", "done"}
         /\ UNCHANGED <<es, ef, ls, lf, deadline, driving>>
<1>1. /\ phase \in {"backward", "alap", "float"} /\ phase' \in {"alap", "float", "done"}
      /\ UNCHANGED <<order, sort, es, ef, ls, lf, driving, driver, projectFinish, deadline,
                     cand, bound>>
      /\ at' \in {at, at + 1, 1, Len(order)}
      /\ phase' = "alap" => at' = Len(order)
  <2>1. CASE StartPostPass
    BY <2>1 DEF StartPostPass, kahnVars, earlyVars, lateVars, spanVars
  <2>2. CASE StartFloat
    BY <2>2 DEF StartFloat, kahnVars, earlyVars, lateVars, spanVars
  <2>3. CASE MeasureFloat
    BY <2>3 DEF MeasureFloat, kahnVars, earlyVars, lateVars, spanVars
  <2>4. CASE Return
    BY <2>4 DEF Return, kahnVars, passVars, earlyVars, lateVars, spanVars
  <2> QED BY <2>1, <2>2, <2>3, <2>4
<1>2. Len(order) \in Nat
  BY <1>1, OrderFacts DEF Structure, PhaseOrder, Passes
<1>3. DatesTyped'
  BY <1>1, <1>2 DEF Structure, DatesTyped, Passes
<1>4. PhaseOrder' /\ DatedPrefix'
  BY <1>1, <1>2 DEF Structure, PhaseOrder, DatedPrefix, DatesTyped, Passes
<1> QED BY <1>1, <1>3, <1>4

\* Every step keeps the structural invariant.
LEMMA StructureSteps ==
  ASSUME Structure, [CPMNext]_vars
  PROVE  (DatesTyped /\ PhaseOrder /\ DatedPrefix)'
<1>1. CASE UNCHANGED vars
  <2>1. UNCHANGED <<order, sort, phase, at, es, ef, ls, lf, driving, driver, projectFinish,
                    deadline, cand, bound>>
    BY <1>1 DEF vars, kahnVars, cpmVars, passVars, earlyVars, lateVars, spanVars
  <2> QED BY <2>1 DEF Structure, DatesTyped, PhaseOrder, DatedPrefix, Passes
<1>2. CASE CPMNext
  BY <1>2, PhaseSteps, KeepActualsStep, ConsiderPredecessorStep, PlaceEarlyStep,
     SetDeadlineStep, KeepActualsLateStep, ConsiderSuccessorStep, PlaceLateStep,
     SlideLateStep, ClosingSteps
     DEF CPMNext, Forward, Backward, PostPass
<1> QED BY <1>1, <1>2

\* What each phase relies on is there: the order is complete and each activity
\* in it once before the first date is computed, the forward pass has dated
\* exactly the activities it has passed, and every early date exists when the
\* backward pass, the post-pass and the floats read it.
THEOREM StructureHolds == CPMSpec => []Structure
<1>1. IsGraph /\ IsNetwork /\ CPMInit => DatesTyped /\ PhaseOrder /\ DatedPrefix
  BY StructureInit DEF Structure
<1>2. /\ (KahnInv /\ NetworkFixed) /\ (DatesTyped /\ PhaseOrder /\ DatedPrefix)
      /\ [CPMNext]_vars
      => (DatesTyped /\ PhaseOrder /\ DatedPrefix)'
  BY StructureSteps DEF Structure
<1>3. CPMSpec => [](DatesTyped /\ PhaseOrder /\ DatedPrefix)
  BY <1>1, <1>2, NetworkStays, PTL DEF CPMSpec
<1>4. (KahnInv /\ NetworkFixed) /\ (DatesTyped /\ PhaseOrder /\ DatedPrefix) => Structure
  BY DEF Structure
<1> QED BY <1>3, <1>4, NetworkStays, PTL

-----------------------------------------------------------------------------
\* The properties of single dates.

\* Only three actions write early dates, and three late ones or the deadline.
LEMMA WhoWrites ==
  ASSUME [CPMNext]_vars
  PROVE  /\ KeepActuals \/ PlaceEarly \/ SlideLate \/ UNCHANGED <<es, ef>>
         /\ SetDeadline \/ KeepActualsLate \/ PlaceLate \/ UNCHANGED <<lf, deadline>>
<1> USE DEF earlyVars, lateVars, spanVars, cpmVars, vars
<1>1. CASE Validate \/ Sort \/ StartForward
  BY <1>1 DEF Validate, Sort, StartForward
<1>2. CASE Forward
  BY <1>2 DEF Forward, ConsiderPredecessor, KeepActuals, PlaceEarly
<1>3. CASE SetDeadline
  BY <1>3 DEF SetDeadline
<1>4. CASE Backward
  BY <1>4 DEF Backward, ConsiderSuccessor, KeepActualsLate, PlaceLate
<1>5. CASE StartPostPass \/ PostPass
  BY <1>5 DEF StartPostPass, PostPass, SlideLate, StartFloat, MeasureFloat, Return
<1>6. CASE UNCHANGED vars
  BY <1>6
<1> QED BY <1>1, <1>2, <1>3, <1>4, <1>5, <1>6 DEF CPMNext

\* No step dates open work before the data date.
LEMMA DataDateStep ==
  ASSUME Structure, DataDateFloor, [CPMNext]_vars
  PROVE  DataDateFloor'
<1>1. net' = net
  BY StepsKeepTheNetwork
<1>2. CASE UNCHANGED <<es, ef>>
  BY <1>1, <1>2 DEF DataDateFloor, Task, IsComplete
<1>3. ASSUME NEW a \in Node, NEW x, es' = [es EXCEPT ![a] = x],
             IsComplete(Task(a)) \/ x >= net.dataDate
      PROVE  DataDateFloor'
  BY <1>1, <1>3 DEF DataDateFloor, Task, IsComplete, Structure, DatesTyped
<1>4. CASE KeepActuals
  BY <1>3, <1>4, KeepActualsStep
<1>5. CASE PlaceEarly
  <2> DEFINE a        == order[at]
             earliest == EarliestStart(Days(a), Task(a))
  <2>1. PICK start \in Int :
          start = SnapStartForward(Days(a), earliest) /\ es' = [es EXCEPT ![a] = start]
    BY <1>5, PlaceEarlyStep
  <2>2. a \in Node /\ IsLattice(Days(a)) /\ Task(a) \in Activity /\ net.dataDate \in Int
    BY <1>5, PlaceEarlyStep, ActivityFacts DEF Structure, NetworkFixed, IsNetwork
  <2>3. earliest \in Int /\ earliest >= net.dataDate
    BY <2>2, EarliestStartFacts DEF Structure, NetworkFixed, DatesTyped
  <2> HIDE DEF a, earliest
  <2>4. start >= earliest
    BY <2>1, <2>2, <2>3, SnapForwardMovesForward
  <2>5. start >= net.dataDate
    BY <2>2, <2>3, <2>4
  <2> QED BY <1>3, <2>1, <2>2, <2>5
<1>6. CASE SlideLate
  <2>1. CASE UNCHANGED <<es, ef>>
    BY <1>2, <2>1
  <2>2. CASE ~UNCHANGED <<es, ef>>
    <3> DEFINE a == order[at]
    <3>1. /\ a \in Node /\ MaySlide(a) /\ es[a] \in Int /\ net.dataDate \in Int
          /\ \E start \in Int : start >= es[a] /\ es' = [es EXCEPT ![a] = start]
      BY <1>6, <2>2, SlideLateStep DEF Structure, NetworkFixed, IsNetwork
    <3> HIDE DEF a
    <3>2. es[a] >= net.dataDate
      BY <3>1, NoneAssumption DEF DataDateFloor, MaySlide
    <3>3. PICK start \in Int : start >= es[a] /\ es' = [es EXCEPT ![a] = start]
      BY <3>1
    <3>4. start >= net.dataDate
      BY <3>1, <3>2, <3>3
    <3> QED BY <1>3, <3>1, <3>3, <3>4
  <2> QED BY <2>1, <2>2
<1> QED BY <1>2, <1>4, <1>5, <1>6, WhoWrites

\* No step moves recorded dates.
LEMMA HistoryStep ==
  ASSUME Structure, HistoryKept, [CPMNext]_vars
  PROVE  HistoryKept'
<1>1. net' = net
  BY StepsKeepTheNetwork
<1>2. CASE UNCHANGED <<es, ef>>
  BY <1>1, <1>2 DEF HistoryKept, Task
<1>3. ASSUME NEW a \in Node, ~IsComplete(Task(a)),
             NEW x, NEW y, es' = [es EXCEPT ![a] = x], ef' = [ef EXCEPT ![a] = y]
      PROVE  HistoryKept'
  BY <1>1, <1>3 DEF HistoryKept, Task, IsComplete, Structure, DatesTyped
<1>4. CASE KeepActuals
  BY <1>1, <1>4, KeepActualsStep DEF HistoryKept, Task, Structure, DatesTyped
<1>5. CASE PlaceEarly
  BY <1>3, <1>5, PlaceEarlyStep
<1>6. CASE SlideLate
  BY <1>2, <1>3, <1>6, SlideLateStep DEF MaySlide
<1> QED BY <1>2, <1>4, <1>5, <1>6, WhoWrites

\* No step puts a late finish past the deadline.
LEMMA LateCapStep ==
  ASSUME Structure, LateFinishCapped, [CPMNext]_vars
  PROVE  LateFinishCapped'
<1>1. net' = net
  BY StepsKeepTheNetwork
<1> USE DEF LateFinishCapped, Open, Task
<1>2. CASE UNCHANGED <<lf, deadline>>
  BY <1>1, <1>2
<1>3. CASE SetDeadline
  BY <1>3 DEF SetDeadline, lateVars, Structure, PhaseOrder, Passes
<1>4. CASE KeepActualsLate
  <2>1. /\ order[at] \in Node /\ Task(order[at]).finish # None
        /\ \E x : lf' = [lf EXCEPT ![order[at]] = x]
        /\ UNCHANGED deadline
    BY <1>4, ActivityAtPosition DEF KeepActualsLate, spanVars, IsComplete
  <2> QED BY <1>1, <2>1 DEF Structure, DatesTyped
<1>5. CASE PlaceLate
  BY <1>1, <1>5, PlaceLateStep DEF Structure, DatesTyped
<1> QED BY <1>2, <1>3, <1>4, <1>5, WhoWrites

\* You cannot work yesterday, in any network, under any constraint, with the
\* post-pass: no remaining work starts before the data date.
THEOREM DataDateIsAFloor == CPMSpec => []DataDateFloor
<1>1. CPMInit => DataDateFloor
  BY DEF CPMInit, DataDateFloor
<1>2. Structure /\ DataDateFloor /\ [CPMNext]_vars => DataDateFloor'
  BY DataDateStep
<1> QED BY <1>1, <1>2, StructureHolds, PTL DEF CPMSpec

\* No pass, link or constraint moves the dates of finished work.
THEOREM HistoryIsKept == CPMSpec => []HistoryKept
<1>1. CPMInit => HistoryKept
  BY DEF CPMInit, HistoryKept
<1>2. Structure /\ HistoryKept /\ [CPMNext]_vars => HistoryKept'
  BY HistoryStep
<1> QED BY <1>1, <1>2, StructureHolds, PTL DEF CPMSpec

\* Both together: what the field reported outranks the plan in every pass.
THEOREM FieldOutranks == CPMSpec => []FieldOutranksPlan
BY DataDateIsAFloor, HistoryIsKept, PTL DEF FieldOutranksPlan

\* No late finish passes the deadline, unless a mandatory constraint put it there.
THEOREM LateFinishIsCapped == CPMSpec => []LateFinishCapped
<1>1. CPMInit => LateFinishCapped
  BY DEF CPMInit, LateFinishCapped
<1>2. Structure /\ LateFinishCapped /\ [CPMNext]_vars => LateFinishCapped'
  BY LateCapStep
<1> QED BY <1>1, <1>2, StructureHolds, PTL DEF CPMSpec

-----------------------------------------------------------------------------
\* The properties of links.

\* The bound of a link changes only with the dates of its predecessor.
LEMMA BoundStays ==
  ASSUME net' = net, edges' = edges, NEW k \in DOMAIN edges,
         es'[edges[k][1]] = es[edges[k][1]], ef'[edges[k][1]] = ef[edges[k][1]]
  PROVE  LinkBound(k)' = LinkBound(k)
BY DEF LinkBound, ForwardBound, AdvanceLag, LagDays, Link, Task, Days

\* The bound of a link whose predecessor is dated is an instant.
LEMMA DatedLink ==
  ASSUME Structure, NEW k \in DOMAIN edges, ef[edges[k][1]] # None
  PROVE  LinkBound(k) \in Int
<1>1. edges[k][1] \in Node /\ Link(k) \in ALink
  BY EdgeFacts DEF Structure
<1>2. es[edges[k][1]] \in Int /\ ef[edges[k][1]] \in Int
  BY <1>1 DEF Structure, DatesTyped, MaybeInt
<1> QED BY <1>1, <1>2, ForwardBoundIsInteger DEF LinkBound, Structure, NetworkFixed

\* In the forward pass, a link into the activity being dated or into one dated
\* before comes from an activity dated before.
LEMMA PredecessorIsDated ==
  ASSUME Structure, phase = "forward", at <= Len(order), NEW k \in DOMAIN edges,
         edges[k][2] = order[at] \/ ef[edges[k][2]] # None
  PROVE  edges[k][1] # order[at] /\ ef[edges[k][1]] # None /\ LinkBound(k) \in Int
<1>1. /\ Len(order) \in Nat /\ DOMAIN order = 1..Len(order)
      /\ \A i, j \in DOMAIN order : order[i] = order[j] => i = j
      /\ \A a \in Node : \E j \in DOMAIN order : order[j] = a
      /\ \A j \in DOMAIN order :
              order[j] = edges[k][2] =>
                \E i \in DOMAIN order : i < j /\ order[i] = edges[k][1]
  BY OrderFacts DEF Structure, PhaseOrder, Passes
<1>2. at \in DOMAIN order /\ at \in Int
  BY <1>1 DEF Structure, DatedPrefix
<1>3. PICK j \in DOMAIN order : order[j] = edges[k][2] /\ j <= at
  <2>1. CASE edges[k][2] = order[at]
    BY <1>2, <2>1
  <2>2. CASE ef[edges[k][2]] # None
    <3>1. PICK j \in DOMAIN order : order[j] = edges[k][2]
      BY <1>1, EdgeFacts DEF Structure
    <3>2. j < at
      BY <2>2, <3>1 DEF Structure, DatedPrefix
    <3> QED BY <1>1, <1>2, <3>1, <3>2
  <2> QED BY <2>1, <2>2
<1>4. PICK i \in DOMAIN order : i < j /\ order[i] = edges[k][1]
  BY <1>1, <1>3
<1>5. i < at
  BY <1>1, <1>2, <1>3, <1>4
<1>6. edges[k][1] # order[at] /\ ef[edges[k][1]] # None
  BY <1>1, <1>2, <1>4, <1>5 DEF Structure, DatedPrefix
<1> QED BY <1>6, DatedLink

LinkPositions == \A k \in DOMAIN edges : k \in Nat \ {0}

\* The loop over the predecessors keeps the running maximum and who set it.
LEMMA LinksConsideredStep ==
  ASSUME Structure, LinksConsidered, [CPMNext]_vars
  PROVE  LinksConsidered'
<1>1. net' = net /\ edges' = edges /\ LinkPositions
  BY StepsKeepTheNetwork
     DEF LinkPositions, Structure, NetworkFixed, IsNetwork, ActiveEdges
<1>2. CASE phase' = "forward" /\ bound' = None /\ cand' = 1
  BY <1>1, <1>2 DEF LinksConsidered, LinkPositions
<1>3. CASE StartForward
  BY <1>2, <1>3 DEF StartForward, passVars, Structure, PhaseOrder, Passes
<1>4. CASE KeepActuals
  BY <1>2, <1>4 DEF KeepActuals, LinksConsidered, Structure, DatedPrefix
<1>5. CASE PlaceEarly
  BY <1>2, <1>5 DEF PlaceEarly
<1>6. CASE ConsiderPredecessor
  <2>1. /\ phase = "forward" /\ at <= Len(order) /\ ~IsComplete(Task(order[at]))
        /\ UNCHANGED <<phase, at, order, es, ef>>
    BY <1>6, ConsiderPredecessorStep DEF ConsiderPredecessor
  <2>2. PICK n \in DOMAIN edges :
          /\ IsNextLinkInto(order[at], cand, n) /\ cand' = n + 1
          /\ IF ef[edges[n][1]] # None /\ BeatsBound(LinkBound(n))
             THEN bound' = LinkBound(n) /\ driver' = edges[n][1]
             ELSE bound' = bound /\ driver' = driver
    BY <1>6, ConsiderPredecessorStep
  <2>3. edges[n][2] = order[at] /\ cand \in Nat /\ cand <= n
    BY <2>2 DEF IsNextLinkInto, Structure, DatesTyped
  <2>4. ef[edges[n][1]] # None /\ LinkBound(n) \in Int
    BY <2>1, <2>3, PredecessorIsDated
  <2>5. \A k \in DOMAIN edges : LinkBound(k)' = LinkBound(k)
    BY <1>1, <2>1, BoundStays
  <2>6. bound' # None /\ LinkBound(n) <= bound'
    BY <2>2, <2>4, NoneAssumption DEF BeatsBound, Structure, DatesTyped, MaybeInt
  <2>7. ASSUME NEW k \in DOMAIN edges, edges[k][2] = order[at], k < n + 1
        PROVE  LinkBound(k) <= bound'
    <3>1. k \in Nat /\ n \in Nat /\ LinkBound(k) \in Int
      BY <1>1, <2>1, <2>7, PredecessorIsDated DEF LinkPositions
    <3>2. CASE k < cand
      <4>1. bound # None /\ LinkBound(k) <= bound
        BY <2>1, <2>7, <3>2 DEF LinksConsidered
      <4>2. bound \in Int
        BY <4>1 DEF Structure, DatesTyped, MaybeInt
      <4> QED BY <2>2, <2>4, <3>1, <4>1, <4>2 DEF BeatsBound
    <3>3. CASE ~(k < cand)
      <4>1. k = n
        BY <2>2, <2>3, <2>7, <3>1, <3>3 DEF IsNextLinkInto
      <4> QED BY <2>6, <4>1
    <3> QED BY <3>2, <3>3
  <2>8. \E k \in DOMAIN edges : edges[k] = <<driver', order[at]>> /\ bound' = LinkBound(k)
    <3>1. CASE BeatsBound(LinkBound(n))
      <4>1. edges[n] = <<edges[n][1], edges[n][2]>>
        BY DEF Structure, NetworkFixed, ActiveEdges
      <4> QED BY <2>2, <2>3, <2>4, <3>1, <4>1
    <3>2. CASE ~BeatsBound(LinkBound(n))
      BY <2>1, <2>2, <3>2 DEF BeatsBound, LinksConsidered
    <3> QED BY <3>1, <3>2
  <2>9. (~IsComplete(Task(order[at])))'
    BY <1>1, <2>1 DEF Task, IsComplete
  <2> QED BY <1>1, <2>1, <2>2, <2>5, <2>6, <2>7, <2>8, <2>9 DEF LinksConsidered
<1>7. CASE phase' # "forward"
  BY <1>7 DEF LinksConsidered
<1>8. CASE UNCHANGED vars
  <2>1. UNCHANGED <<phase, at, order, es, ef, cand, bound, driver>>
    BY <1>8 DEF vars, kahnVars, cpmVars, passVars, earlyVars
  <2>2. \A k \in DOMAIN edges : LinkBound(k)' = LinkBound(k)
    BY <1>1, <2>1, BoundStays
  <2>3. Task(order[at])' = Task(order[at])
    BY <1>1, <2>1 DEF Task
  <2> QED BY <1>1, <2>1, <2>2, <2>3 DEF LinksConsidered, IsComplete
<1>9. CASE Validate \/ Sort \/ SetDeadline \/ Backward \/ StartPostPass \/ PostPass
  BY <1>7, <1>9 DEF Validate, Sort, cpmVars, SetDeadline, Backward, KeepActualsLate,
     ConsiderSuccessor, PlaceLate, StartPostPass, PostPass, SlideLate, StartFloat,
     MeasureFloat, Return
<1> QED BY <1>3, <1>4, <1>5, <1>6, <1>8, <1>9 DEF CPMNext, Forward

\* Steps that leave the early dates alone leave the links as they were.
LEMMA QuietSteps ==
  ASSUME [CPMNext]_vars, phase \in {"forward", "backward"}, UNCHANGED <<es, ef, driving>>,
         LinksHonoured, StartIsExplained
  PROVE  LinksHonoured' /\ StartIsExplained'
<1>1. net' = net /\ edges' = edges
  BY StepsKeepTheNetwork
<1>2. \A k \in DOMAIN edges : LinkBound(k)' = LinkBound(k)
  BY <1>1, BoundStays
<1>3. \A a : Task(a)' = Task(a) /\ Days(a)' = Days(a)
  BY <1>1 DEF Task, Days
<1>4. LinksHonoured'
  BY <1>1, <1>2, <1>3 DEF LinksHonoured, IsComplete
<1>5. StartIsExplained'
  BY <1>1, <1>2, <1>3 DEF StartIsExplained, IsComplete
<1> QED BY <1>4, <1>5

\* Dating one activity disturbs no link into an activity dated before it.
LEMMA LinksOfOthers ==
  ASSUME Structure, phase = "forward", at <= Len(order), net' = net, edges' = edges,
         order[at] \in Node, NEW x, NEW y,
         es' = [es EXCEPT ![order[at]] = x], ef' = [ef EXCEPT ![order[at]] = y],
         NEW k \in DOMAIN edges, edges[k][2] = order[at] \/ ef[edges[k][2]] # None
  PROVE  /\ ef'[edges[k][1]] # None /\ LinkBound(k)' = LinkBound(k) /\ LinkBound(k) \in Int
         /\ edges[k][2] # order[at] => es'[edges[k][2]] = es[edges[k][2]]
<1>1. edges[k][1] # order[at] /\ ef[edges[k][1]] # None /\ LinkBound(k) \in Int
  BY PredecessorIsDated
<1>2. es'[edges[k][1]] = es[edges[k][1]] /\ ef'[edges[k][1]] = ef[edges[k][1]]
  BY <1>1, EdgeFacts DEF Structure, DatesTyped
<1>3. edges[k][2] # order[at] => es'[edges[k][2]] = es[edges[k][2]]
  BY EdgeFacts DEF Structure, DatesTyped
<1> QED BY <1>1, <1>2, <1>3, BoundStays

\* Dating an activity leaves every link into dated work honoured.
LEMMA LinksHonouredStep ==
  ASSUME CPMInv, LinksHonoured, KeepActuals \/ PlaceEarly, [CPMNext]_vars
  PROVE  LinksHonoured'
<1> DEFINE a == order[at]
<1>1. net' = net /\ edges' = edges /\ Structure
  BY StepsKeepTheNetwork DEF CPMInv
<1>2. /\ phase = "forward" /\ phase' = phase /\ at <= Len(order) /\ order' = order
  BY DEF KeepActuals, PlaceEarly, kahnVars
<1>3. a \in Node /\ \E x, y : es' = [es EXCEPT ![a] = x] /\ ef' = [ef EXCEPT ![a] = y]
  BY <1>1, KeepActualsStep, PlaceEarlyStep
<1> SUFFICES ASSUME NEW k \in DOMAIN edges, ef'[edges[k][2]] # None,
                    ~IsComplete(Task(edges[k][2])),
                    Task(edges[k][2]).constraint \notin Mandatory
             PROVE  ef'[edges[k][1]] # None /\ LinkBound(k)' <= es'[edges[k][2]]
  BY <1>1, <1>2 DEF LinksHonoured, Task, IsComplete
<1>4. edges[k][2] = a \/ ef[edges[k][2]] # None
  BY <1>3, EdgeFacts DEF CPMInv, Structure, DatesTyped
<1>5. /\ ef'[edges[k][1]] # None /\ LinkBound(k)' = LinkBound(k) /\ LinkBound(k) \in Int
      /\ edges[k][2] # a => es'[edges[k][2]] = es[edges[k][2]]
  BY <1>1, <1>2, <1>3, <1>4, LinksOfOthers
<1>6. CASE edges[k][2] # a
  BY <1>2, <1>4, <1>5, <1>6 DEF LinksHonoured
<1>7. CASE edges[k][2] = a
  <2>1. PlaceEarly
    BY <1>1, <1>7, KeepActualsStep
  <2> DEFINE earliest == EarliestStart(Days(a), Task(a))
  <2>2. PICK start \in Int :
          start = SnapStartForward(Days(a), earliest) /\ es' = [es EXCEPT ![a] = start]
    BY <1>1, <2>1, PlaceEarlyStep
  <2>3. k < cand
    <3>1. NoLinkInto(a, cand) /\ k \in Nat /\ cand \in Nat
      BY <1>1, <2>1, PlaceEarlyStep, EdgeFacts DEF Structure, DatesTyped
    <3> QED BY <1>7, <3>1 DEF NoLinkInto
  <2>4. bound # None /\ LinkBound(k) <= bound /\ bound \in Int
    BY <1>2, <1>7, <2>3 DEF CPMInv, LinksConsidered, Structure, DatesTyped, MaybeInt
  <2>5. IsLattice(Days(a)) /\ Task(a) \in Activity
    BY <1>1, <1>3, ActivityFacts DEF Structure, NetworkFixed
  <2>6. earliest \in Int /\ earliest >= bound
    BY <1>1, <1>7, <2>4, <2>5, EarliestStartFacts DEF Structure, NetworkFixed, DatesTyped
  <2> HIDE DEF earliest
  <2>7. start >= earliest
    BY <2>2, <2>5, <2>6, SnapForwardMovesForward
  <2>8. es'[edges[k][2]] = start
    BY <1>1, <1>3, <1>7, <2>2 DEF Structure, DatesTyped
  <2> QED BY <1>5, <2>2, <2>4, <2>6, <2>7, <2>8
<1> QED BY <1>6, <1>7

\* What set the start of the activity just dated.
LEMMA PlacedStartIsExplained ==
  ASSUME CPMInv, PlaceEarly, [CPMNext]_vars, phase = "forward", at <= Len(order),
         NEW a \in Node, a = order[at]
  PROVE  LET Snap(i) == SnapStartForward(Days(a), i)
             floor   == EarlyFloor(Days(a), Task(a))
         IN  IF driving'[a] # None
             THEN \E k \in DOMAIN edges :
                    edges[k] = <<driving'[a], a>> /\ es'[a] = Snap(LinkBound(k)')
             ELSE es'[a] \in {Snap(i) : i \in {net.dataDate, Task(a).start, floor} \ {None}}
<1> DEFINE earliest == EarliestStart(Days(a), Task(a))
           floor    == EarlyFloor(Days(a), Task(a))
<1>1. net' = net /\ edges' = edges /\ Structure
  BY StepsKeepTheNetwork DEF CPMInv
<1>2. /\ \E x, y : es' = [es EXCEPT ![a] = x] /\ ef' = [ef EXCEPT ![a] = y]
      /\ es'[a] = SnapStartForward(Days(a), earliest)
      /\ driving'[a] = DrivenBy(earliest)
  BY <1>1, PlaceEarlyStep DEF Structure, DatesTyped
<1>3. IsLattice(Days(a)) /\ Task(a) \in Activity
  BY <1>1, ActivityFacts DEF Structure, NetworkFixed
<1>4. earliest \in {bound, net.dataDate, Task(a).start, floor} \ {None}
  BY <1>1, <1>3, EarliestStartFacts DEF Structure, NetworkFixed, DatesTyped
<1> HIDE DEF earliest, floor
<1>5. CASE bound # None /\ earliest = bound
  <2>1. PICK k \in DOMAIN edges : edges[k] = <<driver, a>> /\ bound = LinkBound(k)
    BY <1>5 DEF CPMInv, LinksConsidered
  <2>2. driver # None /\ driving'[a] = driver
    BY <1>1, <1>2, <1>5, <2>1, EdgeFacts, NodeAssumption DEF Structure, DrivenBy
  <2>3. LinkBound(k)' = LinkBound(k)
    <3>1. edges[k][2] = order[at]
      BY <2>1
    <3>2. PICK x, y : es' = [es EXCEPT ![order[at]] = x] /\ ef' = [ef EXCEPT ![order[at]] = y]
      BY <1>2
    <3> QED BY <1>1, <3>1, <3>2, LinksOfOthers
  <2> QED BY <1>2, <1>5, <2>1, <2>2, <2>3
<1>6. CASE ~(bound # None /\ earliest = bound)
  <2>1. driving'[a] = None
    BY <1>2, <1>6 DEF DrivenBy
  <2>2. earliest \in {net.dataDate, Task(a).start, floor} \ {None}
    BY <1>4, <1>6
  <2> QED BY <1>2, <2>1, <2>2 DEF floor
<1> QED BY <1>5, <1>6

\* Dating an activity gives it a start that something asked for.
LEMMA StartIsExplainedStep ==
  ASSUME CPMInv, StartIsExplained, KeepActuals \/ PlaceEarly, [CPMNext]_vars
  PROVE  StartIsExplained'
<1> DEFINE p == order[at]
           Reason(a) ==
             LET Snap(i) == SnapStartForward(Days(a), i)
                 floor   == EarlyFloor(Days(a), Task(a))
             IN  IF driving[a] # None
                 THEN \E k \in DOMAIN edges :
                        edges[k] = <<driving[a], a>> /\ es[a] = Snap(LinkBound(k))
                 ELSE es[a] \in {Snap(i) : i \in {net.dataDate, Task(a).start, floor} \ {None}}
<1>1. net' = net /\ edges' = edges /\ Structure
  BY StepsKeepTheNetwork DEF CPMInv
<1>2. /\ phase = "forward" /\ phase' = phase /\ at <= Len(order) /\ order' = order
  BY DEF KeepActuals, PlaceEarly, kahnVars
<1>3. /\ p \in Node /\ \E x, y : es' = [es EXCEPT ![p] = x] /\ ef' = [ef EXCEPT ![p] = y]
      /\ \A b \in Node \ {p} : driving'[b] = driving[b]
  BY <1>1, KeepActualsStep, PlaceEarlyStep DEF KeepActuals, Structure, DatesTyped
<1>4. \A b : Task(b)' = Task(b) /\ Days(b)' = Days(b)
  BY <1>1 DEF Task, Days
<1> SUFFICES ASSUME NEW a \in Node, es'[a] # None, ~IsComplete(Task(a))
             PROVE  Reason(a)'
  BY <1>1, <1>4 DEF StartIsExplained, IsComplete
<1>5. CASE a # p
  <2>1. es'[a] = es[a] /\ driving'[a] = driving[a] /\ es[a] # None /\ ef[a] # None
    BY <1>1, <1>3, <1>5 DEF Structure, DatesTyped
  <2>2. Reason(a)
    BY <1>2, <2>1 DEF StartIsExplained
  <2>3. CASE driving[a] # None
    <3>1. PICK k \in DOMAIN edges :
            edges[k] = <<driving[a], a>> /\ es[a] = SnapStartForward(Days(a), LinkBound(k))
      BY <2>2, <2>3
    <3>2. LinkBound(k)' = LinkBound(k)
      <4>1. ef[edges[k][2]] # None
        BY <2>1, <3>1
      <4>2. PICK x, y : es' = [es EXCEPT ![p] = x] /\ ef' = [ef EXCEPT ![p] = y]
        BY <1>3
      <4> QED BY <1>1, <1>2, <1>3, <4>1, <4>2, LinksOfOthers
    <3> QED BY <1>1, <1>4, <2>1, <2>3, <3>1, <3>2
  <2>4. CASE driving[a] = None
    BY <1>1, <1>4, <2>1, <2>2, <2>4
  <2> QED BY <2>3, <2>4
<1>6. CASE a = p
  <2>1. PlaceEarly
    BY <1>1, <1>6, KeepActualsStep
  <2>2. CASE driving'[a] # None
    BY <1>1, <1>2, <1>4, <1>6, <2>1, <2>2, PlacedStartIsExplained
  <2>3. CASE driving'[a] = None
    BY <1>1, <1>2, <1>4, <1>6, <2>1, <2>3, PlacedStartIsExplained
  <2> QED BY <2>2, <2>3
<1> QED BY <1>5, <1>6

\* The loop over the predecessors keeps the greatest bound and the link it is from.
THEOREM CPMInvariant == CPMSpec => []CPMInv
<1>1. CPMInit => LinksConsidered
  BY DEF CPMInit, LinksConsidered
<1>2. Structure /\ LinksConsidered /\ [CPMNext]_vars => LinksConsidered'
  BY LinksConsideredStep
<1>3. CPMSpec => []LinksConsidered
  BY <1>1, <1>2, StructureHolds, PTL DEF CPMSpec
<1>4. Structure /\ LinksConsidered => CPMInv
  BY DEF CPMInv
<1> QED BY <1>3, <1>4, StructureHolds, PTL

\* Every step keeps both: links honoured, starts explained.
LEMMA LinkPropertiesStep ==
  ASSUME CPMInv, LinksHonoured, StartIsExplained, [CPMNext]_vars
  PROVE  LinksHonoured' /\ StartIsExplained'
<1>1. CASE KeepActuals \/ PlaceEarly
  BY <1>1, LinksHonouredStep, StartIsExplainedStep
<1>2. CASE StartForward
  <2>1. \A a \in Node : ef'[a] = None /\ es'[a] = None
    BY <1>2 DEF StartForward, earlyVars, CPMInv, Structure, PhaseOrder, DatesTyped, Passes
  <2>2. edges' = edges /\ \A k \in DOMAIN edges : edges[k][2] \in Node
    BY StepsKeepTheNetwork, EdgeFacts DEF CPMInv, Structure
  <2> QED BY <2>1, <2>2 DEF LinksHonoured, StartIsExplained
<1>3. CASE ConsiderPredecessor \/ SetDeadline \/ Backward \/ UNCHANGED vars
  <2>1. UNCHANGED <<es, ef, driving>>
    BY <1>3 DEF ConsiderPredecessor, SetDeadline, Backward, KeepActualsLate,
       ConsiderSuccessor, PlaceLate, vars, cpmVars, earlyVars
  <2>2. CASE phase \in {"forward", "backward"}
    BY <2>1, <2>2, QuietSteps
  <2>3. CASE phase \notin {"forward", "backward"}
    <3>1. phase' = phase
      BY <1>3, <2>3 DEF ConsiderPredecessor, SetDeadline, Backward, KeepActualsLate,
         ConsiderSuccessor, PlaceLate, vars, cpmVars
    <3> QED BY <2>3, <3>1 DEF LinksHonoured, StartIsExplained
  <2> QED BY <2>2, <2>3
<1>4. CASE Validate \/ Sort \/ StartPostPass \/ PostPass
  <2>1. phase' \notin {"forward", "backward"}
    BY <1>4 DEF Validate, Sort, cpmVars, StartPostPass, PostPass, SlideLate, StartFloat,
       MeasureFloat, Return
  <2> QED BY <2>1 DEF LinksHonoured, StartIsExplained
<1> QED BY <1>1, <1>2, <1>3, <1>4 DEF CPMNext, Forward

\* In every run links are honoured and starts are explained.
LEMMA LinkProperties == CPMSpec => [](LinksHonoured /\ StartIsExplained)
<1>1. CPMInit => LinksHonoured /\ StartIsExplained
  BY DEF CPMInit, LinksHonoured, StartIsExplained
<1>2. CPMInv /\ (LinksHonoured /\ StartIsExplained) /\ [CPMNext]_vars
      => (LinksHonoured /\ StartIsExplained)'
  BY LinkPropertiesStep
<1> QED BY <1>1, <1>2, CPMInvariant, PTL DEF CPMSpec

\* However many links there are, of whatever types and lags and on whatever
\* calendars, the forward pass dates no activity before a link allows.
THEOREM LinksAreHonoured == CPMSpec => []LinksHonoured
BY LinkProperties, PTL

\* No activity starts later than the data date, its actual start, its
\* constraint or the link credited with driving it asks for.
THEOREM StartsAreExplained == CPMSpec => []StartIsExplained
BY LinkProperties, PTL

\* Both together: every early start is the least one that anything asks for.
THEOREM StartsAreLeast == CPMSpec => []StartIsLeast
BY LinkProperties, PTL DEF StartIsLeast

-----------------------------------------------------------------------------
\* The as-late-as-possible post-pass.

\* The post-pass has been over the activity, and may have moved it.
Slid(a) ==
  /\ MaySlide(a)
  /\ \/ phase \in {"float", "done"}
     \/ phase = "alap" /\ \E j \in DOMAIN order : j > at /\ order[j] = a

\* Until then a dated activity has the dates the forward pass drew: a snapped
\* start, and the finish its remaining days give.
SpanDrawn(a) ==
  /\ SnapStartForward(Days(a), es[a]) = es[a]
  /\ es[a] \in Days(a) \/ (\A w \in Days(a) : w < es[a])
  /\ ef[a] = FinishFromStart(Days(a), es[a], Duration(Task(a)))

SpansDrawn ==
  \A a \in Node : ef[a] # None /\ ~IsComplete(Task(a)) /\ ~Slid(a) => SpanDrawn(a)

IsPlainLink(k) ==
  /\ Link(k).type = "FS" /\ Link(k).lag = 0
  /\ Open(edges[k][2]) /\ Task(edges[k][2]).constraint \notin Mandatory

\* A plain link holds until its predecessor is slid, and after that if the
\* post-pass counted the room of the predecessor right.
PlainLinksKept ==
  phase \in {"alap", "float", "done"} =>
    \A k \in DOMAIN edges :
      LET p == edges[k][1]
          s == edges[k][2]
      IN  IsPlainLink(k) /\ (Slid(p) => RedrawnAlike(p) /\ RoomIsWhole(p, es[s]))
          => ef[p] <= es[s]

\* The post-pass never goes back to an activity.
LEMMA SlidStays ==
  ASSUME Structure, [CPMNext]_vars, NEW a, Slid(a)
  PROVE  Slid(a)'
<1>1. net' = net /\ order' = order
  BY StepsKeepTheNetwork DEF Slid, kahnVars
<1>2. MaySlide(a)'
  BY <1>1 DEF Slid, MaySlide, IsAlap, IsComplete, Task
<1>3. phase \in {"float", "done"} => phase' \in {"float", "done"}
  BY DEF CPMNext, Validate, Sort, StartForward, Forward, KeepActuals, ConsiderPredecessor,
     PlaceEarly, SetDeadline, Backward, KeepActualsLate, ConsiderSuccessor, PlaceLate,
     StartPostPass, PostPass, SlideLate, StartFloat, MeasureFloat, Return, vars, cpmVars
<1>4. phase = "alap" => phase' = "float" \/ (phase' = "alap" /\ at' \in {at, at - 1})
  BY DEF CPMNext, Validate, Sort, StartForward, Forward, KeepActuals, ConsiderPredecessor,
     PlaceEarly, SetDeadline, Backward, KeepActualsLate, ConsiderSuccessor, PlaceLate,
     StartPostPass, PostPass, SlideLate, StartFloat, MeasureFloat, Return, vars, cpmVars,
     passVars
<1>5. CASE phase \in {"float", "done"}
  BY <1>2, <1>3, <1>5 DEF Slid
<1>6. CASE phase = "alap" /\ phase' = "float"
  BY <1>2, <1>6 DEF Slid
<1>7. CASE phase = "alap" /\ phase' = "alap" /\ at' \in {at, at - 1}
  <2>1. PICK j \in DOMAIN order : j > at /\ order[j] = a
    BY <1>7 DEF Slid
  <2>2. at \in Int /\ j \in Int
    BY <1>7, OrderFacts DEF Structure, DatesTyped, PhaseOrder, Passes
  <2>3. j > at'
    BY <1>7, <2>1, <2>2
  <2> QED BY <1>1, <1>2, <1>7, <2>1, <2>3 DEF Slid
<1> QED BY <1>4, <1>5, <1>6, <1>7 DEF Slid

\* The activity the post-pass is about to look at has not been slid, nor have
\* its predecessors, and after the step it has.
LEMMA SlidInOrder ==
  ASSUME Structure, SlideLate
  PROVE  /\ order[at] \in Node /\ ~Slid(order[at])
         /\ \A b : b = order[at] /\ MaySlide(b) => Slid(b)'
         /\ \A b : b # order[at] => (Slid(b)' <=> Slid(b))
         /\ \A k \in DOMAIN edges :
              edges[k][2] = order[at] => edges[k][1] # order[at] /\ ~Slid(edges[k][1])
<1>1. /\ phase = "alap" /\ phase' = phase /\ at >= 1 /\ at' = at - 1
      /\ order' = order /\ net' = net
  BY DEF SlideLate, kahnVars
<1>2. /\ Len(order) \in Nat /\ DOMAIN order = 1..Len(order)
      /\ \A i, j \in DOMAIN order : order[i] = order[j] => i = j
      /\ \A k \in DOMAIN edges : \A j \in DOMAIN order :
           order[j] = edges[k][2] =>
             \E i \in DOMAIN order : i < j /\ order[i] = edges[k][1]
      /\ \A j \in DOMAIN order : order[j] \in Node
  BY <1>1, OrderFacts DEF Structure, PhaseOrder, Passes
<1>3. at \in DOMAIN order /\ at \in Int
  BY <1>1, <1>2 DEF Structure, PhaseOrder, DatesTyped
<1>4. \A j \in DOMAIN order : j > at - 1 <=> j > at \/ j = at
  BY <1>2, <1>3
<1>5. \A b : MaySlide(b)' <=> MaySlide(b)
  BY <1>1 DEF MaySlide, IsAlap, IsComplete, Task
<1>6. \A b : Slid(b)' <=> MaySlide(b) /\ (\E j \in DOMAIN order : j > at - 1 /\ order[j] = b)
  BY <1>1, <1>5 DEF Slid
<1>7. \A b : Slid(b) <=> MaySlide(b) /\ (\E j \in DOMAIN order : j > at /\ order[j] = b)
  BY <1>1 DEF Slid
<1>8. ~Slid(order[at])
  BY <1>2, <1>3, <1>7
<1>9. \A b : b = order[at] /\ MaySlide(b) => Slid(b)'
  BY <1>3, <1>4, <1>6
<1>10. \A b : b # order[at] => (Slid(b)' <=> Slid(b))
  BY <1>3, <1>4, <1>6, <1>7
<1>11. ASSUME NEW k \in DOMAIN edges, edges[k][2] = order[at]
       PROVE  edges[k][1] # order[at] /\ ~Slid(edges[k][1])
  <2>1. PICK i \in DOMAIN order : i < at /\ order[i] = edges[k][1]
    BY <1>2, <1>3, <1>11
  <2>2. \A j \in DOMAIN order : order[j] = edges[k][1] => ~(j > at) /\ j # at
    BY <1>2, <1>3, <2>1
  <2> QED BY <1>3, <1>7, <2>2
<1> QED BY <1>2, <1>3, <1>8, <1>9, <1>10, <1>11

\* The room the post-pass takes and the dates it gives.
LEMMA SlideRoom ==
  ASSUME Structure, SlideLate, ~UNCHANGED <<es, ef>>, NEW a, a = order[at]
  PROVE  /\ MaySlide(a)
         /\ \E room \in AlapRooms(a) :
              /\ room \in Int /\ room > 0 /\ \A r \in AlapRooms(a) : room <= r
              /\ \E start, finish :
                   /\ start = AddWorkingDays(Days(a), SnapStartForward(Days(a), es[a]), room)
                   /\ finish = FinishFromStart(Days(a), start, Task(a).dur)
                   /\ es' = [es EXCEPT ![a] = start] /\ ef' = [ef EXCEPT ![a] = finish]
<1>1. phase = "alap" /\ at >= 1
  BY DEF SlideLate
<1>2. a \in Node /\ IsLattice(Days(a))
  BY <1>1, ActivityAtPosition
<1>3. AlapRooms(a) \subseteq Int
  <2>1. \A k \in Successors(a) : edges[k][2] \in Node
    BY EdgeFacts DEF Successors, Structure
  <2> QED BY <1>2, <2>1, CountIsInteger DEF AlapRooms
<1>4. MaySlide(a)
  BY DEF SlideLate
<1>5. PICK room \in AlapRooms(a) :
        /\ \A r \in AlapRooms(a) : room <= r
        /\ IF room <= 0 THEN UNCHANGED <<es, ef>>
           ELSE LET start == AddWorkingDays(Days(a), SnapStartForward(Days(a), es[a]), room)
                IN  /\ es' = [es EXCEPT ![a] = start]
                    /\ ef' = [ef EXCEPT ![a] = FinishFromStart(Days(a), start, Task(a).dur)]
  BY <1>4 DEF SlideLate
<1>6. ~(room <= 0)
  BY <1>5
<1>7. room \in Int /\ room > 0
  BY <1>3, <1>6
<1> QED BY <1>4, <1>5, <1>6, <1>7

\* The dates the forward pass gives an activity.
LEMMA PlacedSpan ==
  ASSUME Structure, PlaceEarly, NEW a, a = order[at]
  PROVE  SpanDrawn(a)'
<1> DEFINE start  == SnapStartForward(Days(a), EarliestStart(Days(a), Task(a)))
           finish == FinishFromStart(Days(a), start, Duration(Task(a)))
<1>1. /\ phase = "forward" /\ at <= Len(order) /\ net' = net
      /\ es' = [es EXCEPT ![a] = start] /\ ef' = [ef EXCEPT ![a] = finish]
  BY DEF PlaceEarly
<1>2. a \in Node /\ IsLattice(Days(a)) /\ Task(a) \in Activity
  BY PlaceEarlyStep, ActivityFacts DEF Structure, NetworkFixed
<1>3. EarliestStart(Days(a), Task(a)) \in Int
  BY <1>1, <1>2, EarliestStartFacts DEF Structure, NetworkFixed, DatesTyped
<1>4. /\ SnapStartForward(Days(a), start) = start
      /\ start \in Days(a) \/ (\A w \in Days(a) : w < start)
  BY <1>2, <1>3, SnapIsSettled
<1> HIDE DEF start
<1>5. es'[a] = start /\ ef'[a] = finish
  BY <1>1, <1>2 DEF Structure, DatesTyped
<1>6. Days(a)' = Days(a) /\ Task(a)' = Task(a)
  BY <1>1 DEF Days, Task
<1>7. \A q : q = a => Days(q)' = Days(a) /\ Task(q)' = Task(a)
  BY <1>6
<1> QED BY <1>4, <1>5, <1>7 DEF SpanDrawn

\* Every step leaves the activities not slid yet as the forward pass drew them.
LEMMA SpansDrawnStep ==
  ASSUME Structure, SpansDrawn, [CPMNext]_vars
  PROVE  SpansDrawn'
<1>1. net' = net
  BY StepsKeepTheNetwork
<1>2. \A b : Days(b)' = Days(b) /\ Task(b)' = Task(b)
  BY <1>1 DEF Days, Task
<1> SUFFICES ASSUME NEW b \in Node, ef'[b] # None, ~IsComplete(Task(b)), ~Slid(b)'
             PROVE  SpanDrawn(b)'
  BY <1>2 DEF SpansDrawn, IsComplete
<1>3. ~Slid(b)
  BY SlidStays
<1>4. CASE es'[b] = es[b] /\ ef'[b] = ef[b]
  <2>1. SpanDrawn(b)
    BY <1>3, <1>4 DEF SpansDrawn
  <2> QED BY <1>2, <1>4, <2>1 DEF SpanDrawn
<1>5. CASE KeepActuals
  <2>1. /\ order[at] \in Node /\ IsComplete(Task(order[at]))
        /\ \E x, y : es' = [es EXCEPT ![order[at]] = x] /\ ef' = [ef EXCEPT ![order[at]] = y]
    BY <1>5, KeepActualsStep
  <2>2. es'[b] = es[b] /\ ef'[b] = ef[b]
    BY <2>1 DEF Structure, DatesTyped
  <2> QED BY <1>4, <2>2
<1>6. CASE PlaceEarly
  <2>1. CASE b = order[at]
    BY <1>6, <2>1, PlacedSpan
  <2>2. CASE b # order[at]
    <3>1. \E x, y : es' = [es EXCEPT ![order[at]] = x] /\ ef' = [ef EXCEPT ![order[at]] = y]
      BY <1>6, PlaceEarlyStep
    <3>2. es'[b] = es[b] /\ ef'[b] = ef[b]
      BY <2>2, <3>1 DEF Structure, DatesTyped
    <3> QED BY <1>4, <3>2
  <2> QED BY <2>1, <2>2
<1>7. CASE SlideLate
  <2>1. CASE UNCHANGED <<es, ef>>
    BY <1>4, <2>1
  <2>2. CASE ~UNCHANGED <<es, ef>>
    <3>1. /\ MaySlide(order[at])
          /\ \E x, y : es' = [es EXCEPT ![order[at]] = x] /\ ef' = [ef EXCEPT ![order[at]] = y]
      BY <1>7, <2>2, SlideRoom
    <3>2. b # order[at]
      BY <1>7, <3>1, SlidInOrder
    <3>3. es'[b] = es[b] /\ ef'[b] = ef[b]
      BY <3>1, <3>2 DEF Structure, DatesTyped
    <3> QED BY <1>4, <3>3
  <2> QED BY <2>1, <2>2
<1> QED BY <1>4, <1>5, <1>6, <1>7, WhoWrites

\* The early dates of two linked activities and the room between them.
LEMMA RoomBeforeSuccessor ==
  ASSUME Structure, phase = "alap", NEW k \in DOMAIN edges
  PROVE  LET p == edges[k][1]
             s == edges[k][2]
         IN  /\ p \in Node /\ s \in Node /\ IsLattice(Days(p)) /\ Task(p).dur \in Nat
             /\ es[p] \in Int /\ ef[p] \in Int /\ es[s] \in Int
             /\ CountWorkingDays(Days(p), ef[p], es[s]) \in AlapRooms(p)
<1>1. edges[k][1] \in Node /\ edges[k][2] \in Node
  BY EdgeFacts DEF Structure
<1>2. IsLattice(Days(edges[k][1])) /\ Task(edges[k][1]).dur \in Nat
  BY <1>1, ActivityFacts DEF Structure, NetworkFixed, Activity
<1>3. \A b \in Node : es[b] \in Int /\ ef[b] \in Int
  BY DEF Structure, PhaseOrder, DatesTyped, MaybeInt, Passes
<1>4. k \in Successors(edges[k][1])
  BY DEF Successors
<1>5. CountWorkingDays(Days(edges[k][1]), ef[edges[k][1]], es[edges[k][2]])
        \in AlapRooms(edges[k][1])
  BY <1>4 DEF AlapRooms
<1> QED BY <1>1, <1>2, <1>3, <1>5

\* Which links are plain, and how their predecessors are redrawn, is decided by
\* the network alone.
LEMMA NetworkDecides ==
  ASSUME net' = net, edges' = edges
  PROVE  /\ \A k \in DOMAIN edges : IsPlainLink(k)' <=> IsPlainLink(k)
         /\ \A b : RedrawnAlike(b)' <=> RedrawnAlike(b)
         /\ \A b, i : RoomIsWhole(b, i)' <=> RoomIsWhole(b, i)
<1>1. \A k \in DOMAIN edges : IsPlainLink(k)' <=> IsPlainLink(k)
  BY DEF IsPlainLink, Link, Open, Task
<1>2. \A b : RedrawnAlike(b)' <=> RedrawnAlike(b)
  BY DEF RedrawnAlike, MaySlide, IsAlap, IsComplete, IsStarted, Duration, RemainingDays, Task
<1>3. \A b, i : RoomIsWhole(b, i)' <=> RoomIsWhole(b, i)
  BY DEF RoomIsWhole, MaySlide, IsAlap, IsComplete, Task, Days
<1> QED BY <1>1, <1>2, <1>3

\* The step of the post-pass keeps the plain links.
LEMMA SlideKeepsPlainLinks ==
  ASSUME Structure, SpansDrawn, PlainLinksKept, SlideLate, net' = net, edges' = edges
  PROVE  PlainLinksKept'
<1>1. phase = "alap" /\ phase' = "alap"
  BY DEF SlideLate
<1>2. PICK a \in Node : a = order[at]
  BY SlideLateStep
<1>3. /\ ~Slid(a) /\ (MaySlide(a) => Slid(a)')
      /\ \A b : b # a => (Slid(b)' <=> Slid(b))
      /\ \A k \in DOMAIN edges : edges[k][2] = a => edges[k][1] # a /\ ~Slid(edges[k][1])
  BY <1>2, SlidInOrder
<1>4. /\ \A b \in Node : b # a => es'[b] = es[b] /\ ef'[b] = ef[b]
      /\ es'[a] >= es[a] /\ es'[a] \in Int
  <2>1. \/ UNCHANGED <<es, ef>>
        \/ \E start, finish \in Int :
             /\ start >= es[a]
             /\ es' = [es EXCEPT ![a] = start] /\ ef' = [ef EXCEPT ![a] = finish]
    BY <1>2, SlideLateStep
  <2>2. \A b \in Node : es[b] \in Int /\ ef[b] \in Int
    BY <1>1 DEF Structure, PhaseOrder, DatesTyped, MaybeInt, Passes
  <2>3. DOMAIN es = Node /\ DOMAIN ef = Node
    BY DEF Structure, DatesTyped
  <2> QED BY <1>2, <2>1, <2>2, <2>3
<1>5. SUFFICES ASSUME NEW k \in DOMAIN edges, IsPlainLink(k),
                      NEW p, p = edges[k][1], NEW s, s = edges[k][2],
                      Slid(p)' => RedrawnAlike(p) /\ RoomIsWhole(p, es'[s])
               PROVE  ef'[p] <= es'[s]
  <2>1. /\ \A k \in DOMAIN edges : IsPlainLink(k)' <=> IsPlainLink(k)
        /\ \A b : RedrawnAlike(b)' <=> RedrawnAlike(b)
        /\ \A b, i : RoomIsWhole(b, i)' <=> RoomIsWhole(b, i)
    BY NetworkDecides
  <2>4. SUFFICES ASSUME NEW k \in DOMAIN edges, IsPlainLink(k),
                        NEW p, p = edges[k][1], NEW s, s = edges[k][2],
                        Slid(p)' => RedrawnAlike(p)' /\ RoomIsWhole(p, es[s])'
                 PROVE  ef'[p] <= es'[s]
    BY <2>1 DEF PlainLinksKept
  <2>5. RoomIsWhole(p, es[s])' <=> RoomIsWhole(p, es'[s])
    BY DEF RoomIsWhole, MaySlide, IsAlap, IsComplete, Task, Days
  <2> QED BY <2>1, <2>4, <2>5
<1>6. /\ p \in Node /\ s \in Node /\ IsLattice(Days(p)) /\ Task(p).dur \in Nat
      /\ es[p] \in Int /\ ef[p] \in Int /\ es[s] \in Int
      /\ CountWorkingDays(Days(p), ef[p], es[s]) \in AlapRooms(p)
  BY <1>1, <1>5, RoomBeforeSuccessor
<1>7. ~Slid(p) => ef[p] <= es[s]
  BY <1>1, <1>5 DEF PlainLinksKept
<1>8. CASE s = a
  <2>1. p # a /\ ~Slid(p)
    BY <1>3, <1>5, <1>8
  <2> QED BY <1>4, <1>6, <1>7, <1>8, <2>1
<1>9. CASE s # a /\ p # a
  <2>1. Slid(p) => RedrawnAlike(p) /\ RoomIsWhole(p, es[s])
    BY <1>3, <1>4, <1>5, <1>6, <1>9
  <2>2. ef[p] <= es[s]
    BY <1>1, <1>5, <2>1 DEF PlainLinksKept
  <2> QED BY <1>4, <1>6, <1>9, <2>2
<1>10. CASE s # a /\ p = a
  <2>1. ef[p] <= es[s] /\ es'[s] = es[s]
    BY <1>3, <1>4, <1>6, <1>7, <1>10
  <2>2. CASE UNCHANGED <<es, ef>>
    BY <2>1, <2>2
  <2>3. CASE ~UNCHANGED <<es, ef>>
    <3>1. MaySlide(p)
      BY <1>2, <1>10, <2>3, SlideRoom
    <3>2. PICK room, start, finish :
            /\ room \in Int /\ room > 0 /\ \A r \in AlapRooms(p) : room <= r
            /\ start = AddWorkingDays(Days(p), SnapStartForward(Days(p), es[p]), room)
            /\ finish = FinishFromStart(Days(p), start, Task(p).dur)
            /\ es' = [es EXCEPT ![p] = start] /\ ef' = [ef EXCEPT ![p] = finish]
      <4>1. PICK room \in AlapRooms(p) :
              /\ room \in Int /\ room > 0 /\ \A r \in AlapRooms(p) : room <= r
              /\ \E start, finish :
                   /\ start = AddWorkingDays(Days(p), SnapStartForward(Days(p), es[p]), room)
                   /\ finish = FinishFromStart(Days(p), start, Task(p).dur)
                   /\ es' = [es EXCEPT ![p] = start] /\ ef' = [ef EXCEPT ![p] = finish]
        BY <1>2, <1>10, <2>3, SlideRoom
      <4> QED BY <4>1
    <3>3. ef'[p] = finish
      BY <1>6, <3>2 DEF Structure, DatesTyped
    <3>4. Duration(Task(p)) = Task(p).dur /\ (Task(p).dur = 0 => es[s] \in Days(p))
      BY <1>3, <1>5, <1>10, <2>1, <3>1 DEF RedrawnAlike, RoomIsWhole
    <3>5. SpanDrawn(p)
      BY <1>1, <1>3, <1>6, <1>10, <3>1, NoneAssumption DEF SpansDrawn, MaySlide
    <3>6. room <= CountWorkingDays(Days(p), ef[p], es[s])
      BY <1>6, <3>2
    <3>7. Task(p).dur > 0 \/ es[s] \in Days(p)
      BY <1>6, <3>4
    <3>8. finish <= es[s]
      BY <1>6, <2>1, <3>2, <3>4, <3>5, <3>6, <3>7, SlidingFits DEF SpanDrawn
    <3> QED BY <2>1, <3>3, <3>8
  <2> QED BY <2>2, <2>3
<1> QED BY <1>8, <1>9, <1>10

\* The forward pass leaves every plain link kept, and no later step breaks one.
LEMMA PlainLinksKeptStep ==
  ASSUME Structure, SpansDrawn, LinksHonoured, PlainLinksKept, [CPMNext]_vars
  PROVE  PlainLinksKept'
<1>1. net' = net /\ edges' = edges
  BY StepsKeepTheNetwork
<1>2. /\ \A k \in DOMAIN edges : IsPlainLink(k)' <=> IsPlainLink(k)
      /\ \A b : RedrawnAlike(b)' <=> RedrawnAlike(b)
      /\ \A b, i : RoomIsWhole(b, i)' <=> RoomIsWhole(b, i)
  BY <1>1, NetworkDecides
<1>3. CASE SlideLate
  BY <1>1, <1>3, SlideKeepsPlainLinks
<1>4. CASE StartPostPass
  <2>1. phase = "backward" /\ UNCHANGED <<es, ef>>
    BY <1>4 DEF StartPostPass, earlyVars
  <2>2. ASSUME NEW k \in DOMAIN edges, IsPlainLink(k)
        PROVE  ef[edges[k][1]] <= es[edges[k][2]]
    <3>1. ef[edges[k][2]] # None
      BY <2>1, EdgeFacts DEF Structure, PhaseOrder, Passes
    <3>2. LinkBound(k) <= es[edges[k][2]]
      BY <2>1, <2>2, <3>1 DEF LinksHonoured, IsPlainLink, Open, IsComplete
    <3>3. LinkBound(k) = ef[edges[k][1]]
      BY <2>2 DEF IsPlainLink, LinkBound, ForwardBound, AdvanceLag, DrivesSuccessorFinish,
         FromPredecessorStart
    <3> QED BY <3>2, <3>3
  <2> QED BY <1>1, <1>2, <2>1, <2>2 DEF PlainLinksKept
<1>5. CASE phase \in {"alap", "float", "done"} /\ ~SlideLate
  <2>1. UNCHANGED <<es, ef>>
    BY <1>5, WhoWrites DEF KeepActuals, PlaceEarly
  <2>2. \A b : Slid(b) => Slid(b)'
    BY SlidStays
  <2>3. SUFFICES ASSUME NEW k \in DOMAIN edges, IsPlainLink(k),
                        NEW p, p = edges[k][1], NEW s, s = edges[k][2],
                        Slid(p)' => RedrawnAlike(p)' /\ RoomIsWhole(p, es[s])'
                 PROVE  ef[p] <= es[s]
    BY <1>1, <1>2, <2>1 DEF PlainLinksKept
  <2>4. RoomIsWhole(p, es[s])' <=> RoomIsWhole(p, es[s])
    BY <1>1, <2>1 DEF RoomIsWhole, MaySlide, IsAlap, IsComplete, Task, Days
  <2>5. Slid(p) => RedrawnAlike(p) /\ RoomIsWhole(p, es[s])
    BY <1>2, <2>2, <2>3, <2>4
  <2> QED BY <1>5, <2>3, <2>5 DEF PlainLinksKept
<1>6. CASE phase \notin {"alap", "float", "done"} /\ ~StartPostPass
  <2>1. phase' \notin {"alap", "float", "done"}
    BY <1>6 DEF CPMNext, Validate, Sort, StartForward, Forward, KeepActuals,
       ConsiderPredecessor, PlaceEarly, SetDeadline, Backward, KeepActualsLate,
       ConsiderSuccessor, PlaceLate, PostPass, SlideLate, StartFloat, MeasureFloat, Return,
       vars, cpmVars
  <2> QED BY <2>1 DEF PlainLinksKept
<1> QED BY <1>3, <1>4, <1>5, <1>6

\* In every run the spans stay as drawn until they are slid, and plain links hold.
LEMMA PostPassInvariant == CPMSpec => [](SpansDrawn /\ PlainLinksKept)
<1>1. CPMInit => SpansDrawn /\ PlainLinksKept
  BY DEF CPMInit, SpansDrawn, PlainLinksKept
<1>2. /\ Structure /\ LinksHonoured /\ StartIsExplained
      /\ SpansDrawn /\ PlainLinksKept /\ [CPMNext]_vars
      => (SpansDrawn /\ PlainLinksKept)'
  BY SpansDrawnStep, PlainLinksKeptStep
<1> QED BY <1>1, <1>2, StructureHolds, LinkProperties, PTL DEF CPMSpec

\* However many activities are asked to be late, on whatever calendars, sliding
\* them breaks no plain link.
THEOREM PlainLinksSurvive == CPMSpec => []AlapKeepsPlainLinks
<1>1. PlainLinksKept => AlapKeepsPlainLinks
  BY DEF PlainLinksKept, AlapKeepsPlainLinks, IsPlainLink
<1> QED BY <1>1, PostPassInvariant, PTL

\* What the post-pass does to the activity it moves.
LEMMA SlidOnlyLater ==
  ASSUME Structure, SpansDrawn, SlideLate, NEW a \in Node,
         es'[a] # es[a] \/ ef'[a] # ef[a]
  PROVE  /\ Task(a).constraint = "as_late_as_possible" /\ Open(a)
         /\ es'[a] >= es[a]
         /\ RedrawnAlike(a) => es'[a] > es[a] /\ ef'[a] > ef[a]
<1>1. phase = "alap" /\ ~UNCHANGED <<es, ef>>
  BY DEF SlideLate
<1>2. PICK p \in Node : p = order[at]
  BY SlideLateStep
<1>3. PICK room \in AlapRooms(p) :
        /\ room \in Int /\ room > 0
        /\ \E start, finish :
             /\ start = AddWorkingDays(Days(p), SnapStartForward(Days(p), es[p]), room)
             /\ finish = FinishFromStart(Days(p), start, Task(p).dur)
             /\ es' = [es EXCEPT ![p] = start] /\ ef' = [ef EXCEPT ![p] = finish]
  BY <1>1, <1>2, SlideRoom
<1>4. PICK start, finish :
        /\ start = AddWorkingDays(Days(p), SnapStartForward(Days(p), es[p]), room)
        /\ finish = FinishFromStart(Days(p), start, Task(p).dur)
        /\ es' = [es EXCEPT ![p] = start] /\ ef' = [ef EXCEPT ![p] = finish]
  BY <1>3
<1>5. /\ \A b \in Node : es[b] \in Int /\ ef[b] \in Int
      /\ projectFinish \in Int /\ DOMAIN es = Node /\ DOMAIN ef = Node
  BY <1>1 DEF Structure, PhaseOrder, DatesTyped, MaybeInt, Passes
<1>6. a = p /\ es'[a] = start /\ ef'[a] = finish
  BY <1>4, <1>5
<1>7. MaySlide(a) /\ ~Slid(a)
  BY <1>1, <1>2, <1>6, SlideRoom, SlidInOrder
<1>8. SpanDrawn(a)
  BY <1>5, <1>7, NoneAssumption DEF SpansDrawn, MaySlide
<1>9. IsLattice(Days(a)) /\ Task(a).dur \in Nat
  BY ActivityFacts DEF Structure, NetworkFixed, Activity
<1>10. SnapStartForward(Days(a), es[a]) = es[a]
  BY <1>8 DEF SpanDrawn
<1>11. start \in Int /\ start >= es[a]
  BY <1>3, <1>4, <1>5, <1>6, <1>9, <1>10, AddingMovesForward
<1>12. PICK i \in Int : room = CountWorkingDays(Days(a), ef[a], i)
  <2>1. \A k \in Successors(a) : edges[k][2] \in Node
    BY EdgeFacts DEF Successors, Structure
  <2> QED BY <1>3, <1>5, <1>6, <2>1 DEF AlapRooms
<1>13. ASSUME RedrawnAlike(a)
       PROVE  start > es[a] /\ finish > ef[a]
  <2>1. ef[a] = FinishFromStart(Days(a), es[a], Task(a).dur)
    BY <1>7, <1>8, <1>13 DEF SpanDrawn, RedrawnAlike
  <2>2. es[a] \in Days(a) \/ (\A w \in Days(a) : w < es[a])
    BY <1>8 DEF SpanDrawn
  <2>3. start = AddWorkingDays(Days(a), es[a], room)
    BY <1>4, <1>6, <1>10
  <2>4. /\ start = es[a] => finish = ef[a]
        /\ start # es[a] => start > es[a] /\ finish > ef[a]
    <3>1. finish = FinishFromStart(Days(a), start, Task(a).dur)
      BY <1>4, <1>6
    <3>2. room <= CountWorkingDays(Days(a), ef[a], i)
      BY <1>3, <1>12
    <3> QED BY <1>3, <1>5, <1>9, <1>10, <2>1, <2>2, <2>3, <3>1, <3>2, SlidingFits
  <2>5. start # es[a]
    BY <1>6, <2>4
  <2> QED BY <2>4, <2>5
<1>14. Task(a).constraint = "as_late_as_possible" /\ Open(a)
  BY <1>7 DEF MaySlide, IsAlap, IsComplete, Open
<1> QED BY <1>6, <1>11, <1>13, <1>14

\* The post-pass touches only open work asked to be late, and never makes it earlier.
THEOREM PostPassOnlyLater == CPMSpec => AlapOnlyLater
<1> DEFINE OnlyLater ==
      phase = "alap" =>
        \A a \in Node : es'[a] # es[a] \/ ef'[a] # ef[a] =>
          /\ Task(a).constraint = "as_late_as_possible" /\ Open(a)
          /\ es'[a] >= es[a]
          /\ RedrawnAlike(a) => es'[a] > es[a] /\ ef'[a] > ef[a]
<1>1. Structure /\ (SpansDrawn /\ PlainLinksKept) /\ [CPMNext]_vars => [OnlyLater]_vars
  <2> SUFFICES ASSUME Structure, SpansDrawn, [CPMNext]_vars, phase = "alap",
                      NEW a \in Node, es'[a] # es[a] \/ ef'[a] # ef[a]
               PROVE  /\ Task(a).constraint = "as_late_as_possible" /\ Open(a)
                      /\ es'[a] >= es[a]
                      /\ RedrawnAlike(a) => es'[a] > es[a] /\ ef'[a] > ef[a]
    OBVIOUS
  <2>1. SlideLate
    BY WhoWrites DEF KeepActuals, PlaceEarly
  <2> QED BY <2>1, SlidOnlyLater
<1> QED BY <1>1, StructureHolds, PostPassInvariant, PTL DEF CPMSpec, AlapOnlyLater

-----------------------------------------------------------------------------
\* The longest path.

\* The bounds of the links into an activity, at the dates it and the others have.
LinkBounds(a) == {LinkBound(k) : k \in {k \in DOMAIN edges : edges[k][2] = a}}

\* Every dated activity has the dates that all its links together ask for.
DatedAsAsked ==
  phase \in {"forward", "backward"} =>
    \A a \in Node : ef[a] # None =>
      [s |-> es[a], f |-> ef[a]] = Granted(a, LinkBounds(a), net.dataDate)

\* A set of integers has one greatest element.
LEMMA GreatestIs ==
  ASSUME NEW S \in SUBSET Int, NEW x, IsGreatest(S, x)
  PROVE  Greatest(S) = x
<1>1. IsGreatest(S, Greatest(S))
  <2>1. x \in S
    BY DEF IsGreatest
  <2> QED BY <2>1, Zenon DEF Greatest
<1>2. x \in Int /\ Greatest(S) \in Int /\ x <= Greatest(S) /\ Greatest(S) <= x
  BY <1>1 DEF IsGreatest
<1> QED BY <1>2

\* The loop keeps only the greatest bound, and the precedence stack looks at
\* one thing after the other; what comes out is the latest of all that is asked.
LEMMA EarliestIsGreatest ==
  ASSUME IsNetwork, bound \in MaybeInt, NEW a \in Node, NEW bounds \in SUBSET Int,
         bound = None => bounds = {}, bound # None => IsGreatest(bounds, bound)
  PROVE  Greatest(AskedFor(a, bounds) \cup {net.dataDate}) = EarliestStart(Days(a), Task(a))
<1> DEFINE t     == Task(a)
           floor == EarlyFloor(Days(a), t)
           S     == AskedFor(a, bounds) \cup {net.dataDate}
<1>1. /\ net.dataDate \in Int /\ t.start \in Int \cup {None}
      /\ bound \in Int \cup {None} /\ floor \in Int \cup {None} /\ None \notin Int
  BY FloorAndCap, ActivityFacts, NoneAssumption DEF IsNetwork, MaybeInt, Activity
<1>2. S \in SUBSET Int
  <2> HIDE DEF floor, t
  <2> QED BY <1>1 DEF AskedFor, floor, t
<1>3. IsGreatest(bounds \cup {net.dataDate} \cup (IF bounds = {} THEN {t.start} \ {None} ELSE {}),
                 LogicStart(t))
  <2>1. CASE bound # None
    <3>1. bounds # {} /\ IsGreatest(bounds, bound) /\ bound \in Int
      BY <1>1, <2>1 DEF IsGreatest
    <3> HIDE DEF t
    <3> QED BY <1>1, <3>1, <2>1 DEF IsGreatest, LogicStart, Later
  <2>2. CASE bound = None
    <3> HIDE DEF t
    <3> QED BY <1>1, <2>2 DEF IsGreatest, LogicStart, Later
  <2> QED BY <2>1, <2>2
<1>4. LogicStart(t) \in Int
  <2> HIDE DEF t
  <2> QED BY <1>1 DEF LogicStart, Later
<1>5. CASE floor = None \/ (IsStarted(t) /\ t.constraint \in FloorsEarlyStart)
  <2>1. S = bounds \cup {net.dataDate} \cup (IF bounds = {} THEN {t.start} \ {None} ELSE {})
    BY <1>5 DEF AskedFor
  <2>2. EarliestStart(Days(a), t) = LogicStart(t)
    BY <1>5 DEF EarliestStart
  <2> HIDE DEF S, t
  <2> QED BY <1>2, <1>3, <2>1, <2>2, GreatestIs DEF S, t
<1>6. CASE ~(floor = None \/ (IsStarted(t) /\ t.constraint \in FloorsEarlyStart))
           /\ t.constraint \in Mandatory
  <2>1. S = {floor, net.dataDate}
    BY <1>6 DEF AskedFor
  <2>2. EarliestStart(Days(a), t) = Later(floor, net.dataDate)
    BY <1>6 DEF EarliestStart
  <2>3. IsGreatest(S, Later(floor, net.dataDate))
    <3> HIDE DEF S, floor, t
    <3> QED BY <1>1, <1>6, <2>1 DEF IsGreatest, Later
  <2> HIDE DEF S, t, floor
  <2> QED BY <1>2, <2>2, <2>3, GreatestIs DEF S, t
<1>7. CASE ~(floor = None \/ (IsStarted(t) /\ t.constraint \in FloorsEarlyStart))
           /\ t.constraint \notin Mandatory
  <2>1. S = bounds \cup {net.dataDate} \cup {floor}
              \cup (IF bounds = {} THEN {t.start} \ {None} ELSE {})
    BY <1>7 DEF AskedFor
  <2>2. EarliestStart(Days(a), t) = Later(LogicStart(t), floor)
    BY <1>7 DEF EarliestStart
  <2>3. IsGreatest(S, Later(LogicStart(t), floor))
    <3> HIDE DEF S, floor, t
    <3> QED BY <1>1, <1>2, <1>3, <1>4, <1>7, <2>1 DEF IsGreatest, Later
  <2> HIDE DEF S, t, floor
  <2> QED BY <1>2, <2>2, <2>3, GreatestIs DEF S, t
<1> QED BY <1>5, <1>6, <1>7

\* The activity just dated has the dates that all its links together ask for.
LEMMA PlacedAsAsked ==
  ASSUME CPMInv, PlaceEarly, NEW a, a = order[at]
  PROVE  \E x, y : /\ es' = [es EXCEPT ![a] = x] /\ ef' = [ef EXCEPT ![a] = y]
                   /\ [s |-> x, f |-> y] = Granted(a, LinkBounds(a), net.dataDate)
<1> DEFINE start  == SnapStartForward(Days(a), EarliestStart(Days(a), Task(a)))
           finish == FinishFromStart(Days(a), start, Duration(Task(a)))
<1>1. /\ phase = "forward" /\ at <= Len(order) /\ Structure /\ LinksConsidered
      /\ es' = [es EXCEPT ![a] = start] /\ ef' = [ef EXCEPT ![a] = finish]
      /\ ~IsComplete(Task(a)) /\ NoLinkInto(a, cand)
  BY DEF PlaceEarly, CPMInv
<1>2. a \in Node /\ IsNetwork /\ bound \in MaybeInt
  BY <1>1, PlaceEarlyStep DEF Structure, NetworkFixed, DatesTyped
<1>3. LinkBounds(a) \in SUBSET Int
  <2>1. \A k \in DOMAIN edges : edges[k][2] = a => LinkBound(k) \in Int
    BY <1>1, PredecessorIsDated
  <2> QED BY <2>1 DEF LinkBounds
<1>4. ASSUME NEW k \in DOMAIN edges, edges[k][2] = a
      PROVE  bound # None /\ LinkBound(k) <= bound
  <2>1. k < cand
    <3>1. k \in Nat /\ cand \in Nat
      BY <1>1, EdgeFacts DEF Structure, DatesTyped
    <3> QED BY <1>1, <1>4, <3>1 DEF NoLinkInto
  <2> QED BY <1>1, <1>4, <2>1 DEF LinksConsidered
<1>5. bound # None => \E k \in DOMAIN edges : edges[k][2] = a /\ bound = LinkBound(k)
  <2>1. bound # None => \E k \in DOMAIN edges :
                          edges[k] = <<driver, order[at]>> /\ bound = LinkBound(k)
    BY <1>1 DEF LinksConsidered
  <2> QED BY <2>1
<1>6. bound = None => LinkBounds(a) = {}
  BY <1>4 DEF LinkBounds
<1>7. bound # None => IsGreatest(LinkBounds(a), bound)
  BY <1>4, <1>5 DEF LinkBounds, IsGreatest
<1>8. Greatest(AskedFor(a, LinkBounds(a)) \cup {net.dataDate})
        = EarliestStart(Days(a), Task(a))
  BY <1>2, <1>3, <1>6, <1>7, EarliestIsGreatest
<1>9. Granted(a, LinkBounds(a), net.dataDate) = [s |-> start, f |-> finish]
  BY <1>1, <1>8 DEF Granted
<1> QED BY <1>1, <1>9

\* Every step of the forward pass keeps what is dated as asked.
LEMMA DatedAsAskedStep ==
  ASSUME CPMInv, DatedAsAsked, KeepActuals \/ PlaceEarly, [CPMNext]_vars
  PROVE  DatedAsAsked'
<1>1. net' = net /\ edges' = edges /\ Structure
  BY StepsKeepTheNetwork DEF CPMInv
<1>2. /\ phase = "forward" /\ phase' = phase /\ at <= Len(order) /\ order' = order
  BY DEF KeepActuals, PlaceEarly, kahnVars
<1>3. PICK p \in Node : p = order[at]
  BY <1>1, KeepActualsStep, PlaceEarlyStep
<1>4. PICK x, y : /\ es' = [es EXCEPT ![p] = x] /\ ef' = [ef EXCEPT ![p] = y]
                  /\ [s |-> x, f |-> y] = Granted(p, LinkBounds(p), net.dataDate)
  <2>1. CASE KeepActuals
    BY <1>3, <2>1 DEF KeepActuals, Granted
  <2>2. CASE PlaceEarly
    BY <1>3, <2>2, PlacedAsAsked
  <2> QED BY <2>1, <2>2
<1>5. ASSUME NEW k \in DOMAIN edges, edges[k][2] = p \/ ef[edges[k][2]] # None
      PROVE  LinkBound(k)' = LinkBound(k)
  BY <1>1, <1>2, <1>3, <1>4, <1>5, LinksOfOthers
<1>6. ASSUME NEW a \in Node, a = p \/ ef[a] # None
      PROVE  LinkBounds(a)' = LinkBounds(a)
  <2>1. \A k \in DOMAIN edges : edges[k][2] = a => LinkBound(k)' = LinkBound(k)
    BY <1>5, <1>6
  <2> QED BY <1>1, <2>1 DEF LinkBounds
<1>7. \A a, B, s : Granted(a, B, s)' = Granted(a, B, s)
  BY <1>1 DEF Granted, AskedFor, Task, Days
<1> SUFFICES ASSUME NEW a \in Node, ef'[a] # None
             PROVE  \A B, s : B = LinkBounds(a) /\ s = net.dataDate =>
                      [s |-> es'[a], f |-> ef'[a]] = Granted(a, B, s)
  <2>1. \A a \in Node : ef'[a] # None => (a = p \/ ef[a] # None)
    BY <1>4 DEF Structure, DatesTyped
  <2>2. ASSUME NEW a \in Node, ef'[a] # None,
               [s |-> es'[a], f |-> ef'[a]] = Granted(a, LinkBounds(a), net.dataDate)
        PROVE  \A B, s : B = LinkBounds(a)' /\ s = net.dataDate' =>
                 [s |-> es'[a], f |-> ef'[a]] = Granted(a, B, s)'
    BY <1>1, <1>6, <1>7, <2>1, <2>2
  <2> QED BY <1>1, <1>2, <2>2 DEF DatedAsAsked
<1>8. CASE a = p
  <2>1. es'[a] = x /\ ef'[a] = y
    BY <1>1, <1>4, <1>8 DEF Structure, DatesTyped
  <2> QED BY <1>4, <1>8, <2>1
<1>9. CASE a # p
  <2>1. es'[a] = es[a] /\ ef'[a] = ef[a]
    BY <1>1, <1>4, <1>9 DEF Structure, DatesTyped
  <2> QED BY <1>2, <2>1 DEF DatedAsAsked
<1> QED BY <1>8, <1>9

\* The steps that date nothing keep it too.
LEMMA DatedAsAskedKept ==
  ASSUME CPMInv, DatedAsAsked, [CPMNext]_vars
  PROVE  DatedAsAsked'
<1>1. CASE KeepActuals \/ PlaceEarly
  BY <1>1, DatedAsAskedStep
<1>2. CASE StartForward
  <2>1. \A a \in Node : ef'[a] = None
    BY <1>2 DEF StartForward, earlyVars, CPMInv, Structure, PhaseOrder, Passes
  <2> QED BY <2>1 DEF DatedAsAsked
<1>3. CASE ~(KeepActuals \/ PlaceEarly \/ StartForward) /\ phase' \in {"forward", "backward"}
  <2>1. phase \in {"forward", "backward"} /\ UNCHANGED <<es, ef>>
    BY <1>3 DEF CPMNext, Validate, Sort, Forward, ConsiderPredecessor, SetDeadline, Backward,
       KeepActualsLate, ConsiderSuccessor, PlaceLate, StartPostPass, PostPass, SlideLate,
       StartFloat, MeasureFloat, Return, vars, cpmVars, earlyVars
  <2>2. net' = net /\ edges' = edges
    BY StepsKeepTheNetwork
  <2>3. \A a : LinkBounds(a)' = LinkBounds(a)
    BY <2>1, <2>2 DEF LinkBounds, LinkBound, ForwardBound, AdvanceLag, LagDays, Link, Task, Days
  <2>4. \A a, B, s : Granted(a, B, s)' = Granted(a, B, s)
    BY <2>2 DEF Granted, AskedFor, Task, Days
  <2>5. ASSUME NEW a \in Node, ef[a] # None,
               NEW B, B = LinkBounds(a)', NEW s, s = net.dataDate'
        PROVE  [s |-> es[a], f |-> ef[a]] = Granted(a, B, s)'
    <3>1. [s |-> es[a], f |-> ef[a]] = Granted(a, B, s)
      BY <2>1, <2>2, <2>3, <2>5 DEF DatedAsAsked
    <3> QED BY <2>4, <3>1
  <2> QED BY <2>1, <2>2, <2>5 DEF DatedAsAsked
<1>4. CASE phase' \notin {"forward", "backward"}
  BY <1>4 DEF DatedAsAsked
<1> QED BY <1>1, <1>2, <1>3, <1>4

\* In every run.
LEMMA DatedAsAskedHolds == CPMSpec => []DatedAsAsked
<1>1. CPMInit => DatedAsAsked
  BY DEF CPMInit, DatedAsAsked
<1>2. CPMInv /\ DatedAsAsked /\ [CPMNext]_vars => DatedAsAsked'
  BY DatedAsAskedKept
<1> QED BY <1>1, <1>2, CPMInvariant, PTL DEF CPMSpec

\* f is a run of the second formulation, one activity of the order after another.
IsRerun(f) ==
  f = [i \in 0..Len(order) |->
         IF i = 0 THEN [a \in Node |-> [s |-> 0, f |-> 0]]
         ELSE [f[i - 1] EXCEPT ![order[i]] =
                 Granted(order[i], BoundsInto(edges, order[i], f[i - 1]), NoDelay[order[i]])]]

\* The second formulation is what such a run ends with.
LEMMA RerunIsARun == Rerun(NoDelay) = (CHOOSE f : IsRerun(f))[Len(order)]
BY DEF Rerun, RerunOver, IsRerun

\* There is at most one such run.
LEMMA OneRerun ==
  ASSUME Len(order) \in Nat, NEW f, IsRerun(f), NEW g, IsRerun(g)
  PROVE  f = g
<1> DEFINE B == {i \in 0..Len(order) : f[i] # g[i]}
<1>1. ASSUME B # {} PROVE FALSE
  <2>1. B \in SUBSET Int /\ IsFiniteSet(B)
    <3>1. B \in SUBSET (0..Len(order)) /\ B \in SUBSET Int
      OBVIOUS
    <3>2. IsFiniteSet(0..Len(order))
      <4>1. 0 \in Int /\ Len(order) \in Int
        OBVIOUS
      <4> QED BY <4>1, FS_Interval
    <3> HIDE DEF B
    <3>3. IsFiniteSet(B)
      BY <3>1, <3>2, FS_Subset
    <3> QED BY <3>1, <3>3
  <2>2. PICK i \in B : \A j \in B : i <= j
    <3> HIDE DEF B
    <3> QED BY <1>1, <2>1, HasLeast
  <2>3. i \in 0..Len(order) /\ f[i] # g[i]
    BY <2>2
  <2>4. i # 0
    BY <2>3 DEF IsRerun
  <2>5. i - 1 \in 0..Len(order) /\ f[i - 1] = g[i - 1]
    <3>1. i - 1 \in 0..Len(order) /\ ~(i <= i - 1)
      BY <2>3, <2>4
    <3>2. i - 1 \notin B
      BY <2>2, <3>1
    <3> QED BY <3>1, <3>2
  <2>6. /\ f[i] = [f[i - 1] EXCEPT ![order[i]] =
                     Granted(order[i], BoundsInto(edges, order[i], f[i - 1]), NoDelay[order[i]])]
        /\ g[i] = [g[i - 1] EXCEPT ![order[i]] =
                     Granted(order[i], BoundsInto(edges, order[i], g[i - 1]), NoDelay[order[i]])]
    BY <2>3, <2>4 DEF IsRerun
  <2> QED BY <2>3, <2>5, <2>6
<1>2. \A i \in 0..Len(order) : f[i] = g[i]
  BY <1>1
<1>3. /\ f = [i \in 0..Len(order) |-> f[i]]
      /\ g = [i \in 0..Len(order) |-> g[i]]
  BY DEF IsRerun
<1> QED BY <1>2, <1>3

\* When the forward pass is over, the dates it gave, taken up to one position of
\* the order after another, are such a run.
LEMMA PassIsARerun ==
  ASSUME Structure, DatedAsAsked, phase = "backward"
  PROVE  Len(order) \in Nat
         /\ \E f : /\ IsRerun(f)
                   /\ \A a \in Node : f[Len(order)][a] = [s |-> es[a], f |-> ef[a]]
<1> DEFINE Nothing == [a \in Node |-> [s |-> 0, f |-> 0]]
           Upto(i) == [a \in Node |-> IF \E j \in 1..i : order[j] = a
                                      THEN [s |-> es[a], f |-> ef[a]] ELSE [s |-> 0, f |-> 0]]
           W == [i \in 0..Len(order) |-> Upto(i)]
<1>1. /\ Len(order) \in Nat /\ DOMAIN order = 1..Len(order)
      /\ \A j \in DOMAIN order : order[j] \in Node
      /\ \A i, j \in DOMAIN order : order[i] = order[j] => i = j
      /\ \A a \in Node : \E j \in DOMAIN order : order[j] = a
      /\ \A k \in DOMAIN edges : \A j \in DOMAIN order :
           order[j] = edges[k][2] => \E i \in DOMAIN order : i < j /\ order[i] = edges[k][1]
  BY OrderFacts DEF Structure, PhaseOrder, Passes
<1>2. \A a \in Node : Upto(Len(order))[a] = [s |-> es[a], f |-> ef[a]]
  BY <1>1
<1>3. Upto(0) = Nothing
  OBVIOUS
<1>4. ASSUME NEW i \in 1..Len(order), NEW a, a = order[i]
      PROVE  Upto(i) = [Upto(i - 1) EXCEPT ![a] =
                          Granted(a, BoundsInto(edges, a, Upto(i - 1)), NoDelay[a])]
  <2>1. a \in Node /\ ef[a] # None
    BY <1>1, <1>4 DEF Structure, PhaseOrder, Passes
  <2>2. NoDelay[a] = net.dataDate
    BY <2>1 DEF NoDelay
  <2>3. BoundsInto(edges, a, Upto(i - 1)) = LinkBounds(a)
    <3>1. ASSUME NEW k \in DOMAIN edges, edges[k][2] = a
          PROVE  Upto(i - 1)[edges[k][1]] = [s |-> es[edges[k][1]], f |-> ef[edges[k][1]]]
      <4>1. PICK j \in DOMAIN order : j < i /\ order[j] = edges[k][1]
        BY <1>1, <1>4, <3>1
      <4>2. j \in 1..(i - 1) /\ edges[k][1] \in Node
        BY <1>1, <4>1
      <4> QED BY <4>1, <4>2
    <3> HIDE DEF Upto
    <3>2. ASSUME NEW k \in DOMAIN edges, edges[k][2] = a
          PROVE  ForwardBound(Link(k), Upto(i - 1)[edges[k][1]].s, Upto(i - 1)[edges[k][1]].f)
                   = LinkBound(k)
      <4>1. PICK dates : dates = [s |-> es[edges[k][1]], f |-> ef[edges[k][1]]]
        OBVIOUS
      <4>2. Upto(i - 1)[edges[k][1]] = dates
        BY <3>1, <3>2, <4>1
      <4>3. dates.s = es[edges[k][1]] /\ dates.f = ef[edges[k][1]]
        BY <4>1
      <4> QED BY <4>2, <4>3 DEF LinkBound
    <3> QED BY <3>2 DEF BoundsInto, LinkBounds
  <2>4. Granted(a, LinkBounds(a), net.dataDate) = [s |-> es[a], f |-> ef[a]]
    BY <2>1 DEF DatedAsAsked
  <2>5. Upto(i) = [Upto(i - 1) EXCEPT ![a] = [s |-> es[a], f |-> ef[a]]]
    <3>1. Upto(i)[a] = [s |-> es[a], f |-> ef[a]]
      BY <1>4, <2>1
    <3>2. \A b \in Node : b # a => Upto(i)[b] = Upto(i - 1)[b]
      <4>1. \A j \in 1..i : j \in 1..(i - 1) \/ j = i
        OBVIOUS
      <4>2. \A j \in 1..(i - 1) : j \in 1..i
        OBVIOUS
      <4>3. \A b : b # a => ((\E j \in 1..i : order[j] = b) <=> (\E j \in 1..(i - 1) : order[j] = b))
        BY <1>4, <4>1, <4>2
      <4> QED BY <4>3
    <3>3. /\ Upto(i) = [b \in Node |-> Upto(i)[b]]
          /\ DOMAIN Upto(i - 1) = Node
      OBVIOUS
    <3> HIDE DEF Upto
    <3> QED BY <2>1, <3>1, <3>2, <3>3
  <2> HIDE DEF Upto
  <2> QED BY <2>2, <2>3, <2>4, <2>5
<1>5. IsRerun(W)
  <2>1. ASSUME NEW i \in 0..Len(order)
        PROVE  Upto(i) = IF i = 0 THEN Nothing
                         ELSE [W[i - 1] EXCEPT ![order[i]] =
                                 Granted(order[i], BoundsInto(edges, order[i], W[i - 1]),
                                         NoDelay[order[i]])]
    <3>1. CASE i = 0
      <4> HIDE DEF Upto, Nothing
      <4> QED BY <1>3, <3>1
    <3>2. CASE i # 0
      <4>1. i \in 1..Len(order) /\ i - 1 \in 0..Len(order)
        BY <1>1, <3>2
      <4>2. W[i - 1] = Upto(i - 1)
        <5> HIDE DEF Upto
        <5> QED BY <4>1
      <4> HIDE DEF Upto, W
      <4> QED BY <1>4, <3>2, <4>1, <4>2
    <3> QED BY <3>1, <3>2
  <2> HIDE DEF Upto
  <2> QED BY <2>1 DEF IsRerun
<1>6. \A a \in Node : W[Len(order)][a] = [s |-> es[a], f |-> ef[a]]
  <2>1. W[Len(order)] = Upto(Len(order))
    <3> HIDE DEF Upto
    <3> QED BY <1>1
  <2> HIDE DEF Upto, W
  <2> QED BY <1>2, <2>1
<1> HIDE DEF W
<1> QED BY <1>1, <1>5, <1>6

\* The loop over the predecessors, with its running maximum, its ties and the
\* precedence stack after it, computes the longest path: over every network, on
\* any calendars, its dates are those of the second formulation, which takes the
\* latest of everything that is asked at once (cpm.py:431-505).
THEOREM ForwardPassIsRight == CPMSpec => []ForwardPassIsLongestPath
<1>1. Structure /\ DatedAsAsked => ForwardPassIsLongestPath
  <2> SUFFICES ASSUME Structure, DatedAsAsked, phase = "backward", NEW a \in Node
               PROVE  Rerun(NoDelay)[a] = [s |-> es[a], f |-> ef[a]]
    BY DEF ForwardPassIsLongestPath
  <2>1. PICK f : /\ IsRerun(f)
                 /\ \A b \in Node : f[Len(order)][b] = [s |-> es[b], f |-> ef[b]]
    BY PassIsARerun
  <2>2. IsRerun(CHOOSE g : IsRerun(g))
    BY <2>1, Zenon
  <2>3. (CHOOSE g : IsRerun(g)) = f
    BY <2>1, <2>2, PassIsARerun, OneRerun
  <2> QED BY <2>1, <2>3, RerunIsARun
<1> QED BY <1>1, StructureHolds, DatedAsAskedHolds, PTL

-----------------------------------------------------------------------------
\* Caps and floats.

IsCapped(t) == HasConstraint(t) /\ t.constraint \in CapsLateStart \cup CapsLateFinish

\* A capped activity ends, at the latest, where its constraint says.
CapsKept ==
  \A a \in Node :
    lf[a] # None /\ Open(a) /\ IsCapped(Task(a)) => lf[a] <= LateCap(Days(a), Task(a))

\* The float reported of an activity is the one between its early and its late start.
FloatsMeasured ==
  /\ DOMAIN totalFloat = Node
  /\ phase \in {"float", "done"} =>
       \A i \in DOMAIN nodes :
         (phase = "done" \/ i < at) /\ Open(nodes[i]) =>
           totalFloat[nodes[i]] = CountWorkingDays(Days(nodes[i]), es[nodes[i]], ls[nodes[i]])

\* The dates of capped work lie on its calendar, in the window it is bound to;
\* past the end of the window the code raises an error.
InWindow(a) ==
  /\ es[a] \in Days(a)
  /\ CountWorkingDays(Days(a), es[a], ef[a]) = Duration(Task(a))
  /\ CountWorkingDays(Days(a), ls[a], lf[a]) = Duration(Task(a))
  /\ \E w \in Days(a) : w <= Task(a).cdate

\* The backward pass dates every activity.
LateDated ==
  /\ phase = "backward" => \A j \in DOMAIN order : j > at => lf[order[j]] # None
  /\ phase \in {"alap", "float", "done"} => \A a \in Node : lf[a] # None

DatesInWindow ==
  phase = "done" =>
    \A a \in Node : Open(a) /\ Duration(Task(a)) > 0 /\ IsCapped(Task(a)) => InWindow(a)

\* Placing the late dates of a capped activity heeds its cap.
LEMMA PlacedUnderCap ==
  ASSUME Structure, PlaceLate, NEW a, a = order[at], IsCapped(Task(a))
  PROVE  \A finish : lf' = [lf EXCEPT ![a] = finish] => finish <= LateCap(Days(a), Task(a))
<1> DEFINE latest == LatestFinish(Days(a), Task(a))
           late   == IF Duration(Task(a)) = 0 THEN latest ELSE SnapFinishBack(Days(a), latest)
<1>1. /\ phase = "backward" /\ at >= 1
      /\ lf' = [lf EXCEPT ![a] = late]
  BY DEF PlaceLate
<1>2. a \in Node /\ IsLattice(Days(a)) /\ Task(a) \in Activity
  BY <1>1, ActivityAtPosition
<1>3. latest \in Int
  BY <1>1, <1>2, LatestFinishFacts
<1>4. LateCap(Days(a), Task(a)) \in Int
  <2>1. LateCap(Days(a), Task(a)) \in MaybeInt
    BY <1>2, FloorAndCap
  <2>2. Task(a).cdate \in Int
    BY <1>2 DEF IsCapped, HasConstraint, Activity, MaybeInt
  <2>3. /\ SnapFinishBack(Days(a), Task(a).cdate) \in Int
        /\ SnapStartBack(Days(a), Task(a).cdate) \in Int
    BY <1>2, <2>2, SnapFinishMoves, SnapBackMovesBack
  <2>4. FinishFromStart(Days(a), SnapStartBack(Days(a), Task(a).cdate), Duration(Task(a))) \in Int
    BY <1>2, <2>3, DurationIsInteger, SpansAreInstants
  <2> QED BY <2>3, <2>4 DEF LateCap, IsCapped
<1>5. latest <= LateCap(Days(a), Task(a))
  <2>1. bound \in Int \cup {None} /\ deadline \in Int
    BY <1>1 DEF Structure, DatesTyped, PhaseOrder, Passes, MaybeInt
  <2>2. LateCap(Days(a), Task(a)) # None
    BY <1>4, NoneAssumption
  <2> QED BY <1>4, <2>1, <2>2 DEF LatestFinish, Earlier
<1> HIDE DEF latest
<1>6. late \in Int /\ late <= LateCap(Days(a), Task(a))
  BY <1>2, <1>3, <1>4, <1>5, SnapFinishMoves
<1>7. lf'[a] = late
  BY <1>1, <1>2 DEF Structure, DatesTyped
<1> HIDE DEF late
<1>8. \A finish : lf' = [lf EXCEPT ![a] = finish] => finish = late
  BY <1>2, <1>7 DEF Structure, DatesTyped
<1> QED BY <1>6, <1>8

\* No step puts a capped activity past its cap.
LEMMA CapsKeptStep ==
  ASSUME Structure, CapsKept, [CPMNext]_vars
  PROVE  CapsKept'
<1>1. net' = net
  BY StepsKeepTheNetwork
<1>2. /\ \A b : Open(b)' = Open(b) /\ IsCapped(Task(b))' = IsCapped(Task(b))
      /\ \A b : LateCap(Days(b), Task(b))' = LateCap(Days(b), Task(b))
  BY <1>1 DEF Open, Task, Days
<1>3. CASE UNCHANGED lf
  BY <1>2, <1>3 DEF CapsKept
<1>4. CASE KeepActualsLate
  <2>1. PICK a, late : a \in Node /\ ~Open(a) /\ lf' = [lf EXCEPT ![a] = late]
    BY <1>4, ActivityAtPosition DEF KeepActualsLate, IsComplete, Open
  <2>2. \A b \in Node : Open(b) => lf'[b] = lf[b]
    BY <2>1 DEF Structure, DatesTyped
  <2> QED BY <1>2, <2>2 DEF CapsKept
<1>5. CASE PlaceLate
  <2>1. PICK a : a = order[at]
    OBVIOUS
  <2>2. PICK late : a \in Node /\ lf' = [lf EXCEPT ![a] = late]
    BY <1>5, <2>1, PlaceLateStep
  <2>3. lf'[a] = late /\ \A b \in Node \ {a} : lf'[b] = lf[b]
    BY <2>2 DEF Structure, DatesTyped
  <2>4. IsCapped(Task(a)) => late <= LateCap(Days(a), Task(a))
    BY <1>5, <2>1, <2>2, PlacedUnderCap
  <2> QED BY <1>2, <2>3, <2>4 DEF CapsKept
<1>6. CASE SetDeadline
  <2>1. UNCHANGED lf
    BY <1>6 DEF SetDeadline, lateVars
  <2> QED BY <1>3, <2>1
<1> QED BY <1>3, <1>4, <1>5, <1>6, WhoWrites

\* Who measures floats, and when.
LEMMA WhoMeasures ==
  ASSUME [CPMNext]_vars
  PROVE  /\ MeasureFloat \/ UNCHANGED totalFloat
         /\ phase' = "float" =>
              \/ phase = "float" /\ (MeasureFloat \/ UNCHANGED at)
              \/ at' = 1 /\ ~MeasureFloat
         /\ phase' = "done" => phase = "done" \/ (phase = "float" /\ at = Len(nodes) + 1)
         /\ phase \in {"float", "done"} => UNCHANGED <<es, ls>>
<1> USE DEF passVars, earlyVars, lateVars, floatVars, cpmVars, vars
<1>1. CASE Validate \/ Sort \/ StartForward
  BY <1>1 DEF Validate, Sort, StartForward, MeasureFloat
<1>2. CASE Forward
  BY <1>2 DEF Forward, ConsiderPredecessor, KeepActuals, PlaceEarly, MeasureFloat
<1>3. CASE SetDeadline
  BY <1>3 DEF SetDeadline, MeasureFloat
<1>4. CASE Backward
  BY <1>4 DEF Backward, ConsiderSuccessor, KeepActualsLate, PlaceLate, MeasureFloat
<1>5. CASE StartPostPass
  BY <1>5 DEF StartPostPass, MeasureFloat
<1>6. CASE SlideLate \/ StartFloat
  BY <1>6 DEF SlideLate, StartFloat, MeasureFloat
<1>7. CASE MeasureFloat
  BY <1>7 DEF MeasureFloat
<1>8. CASE Return
  BY <1>8 DEF Return, MeasureFloat
<1>9. CASE UNCHANGED vars
  BY <1>9
<1> QED BY <1>1, <1>2, <1>3, <1>4, <1>5, <1>6, <1>7, <1>8, <1>9 DEF CPMNext, PostPass

\* Every activity is measured before the calculation returns.
LEMMA FloatsMeasuredStep ==
  ASSUME Structure, FloatsMeasured, [CPMNext]_vars, UNCHANGED nodes
  PROVE  FloatsMeasured'
<1>1. net' = net
  BY StepsKeepTheNetwork
<1>2. \A b : Open(b)' = Open(b) /\ Days(b)' = Days(b)
  BY <1>1 DEF Open, Task, Days
<1>3. /\ Len(nodes) \in Nat /\ DOMAIN nodes = 1..Len(nodes) /\ at \in Nat
      /\ \A i \in DOMAIN nodes : nodes[i] \in Node /\ i \in Nat /\ i >= 1 /\ i <= Len(nodes)
  <2>1. nodes \in Seq(Node) /\ at \in Nat
    BY DEF Structure, KahnInv, IsGraph, DatesTyped
  <2>2. Len(nodes) \in Nat /\ DOMAIN nodes = 1..Len(nodes)
    BY <2>1, LenProperties
  <2>3. ASSUME NEW i \in DOMAIN nodes
        PROVE  nodes[i] \in Node /\ i \in Nat /\ i >= 1 /\ i <= Len(nodes)
    <3>1. i \in Nat /\ i >= 1 /\ i <= Len(nodes) /\ i \in 1..Len(nodes)
      BY <2>2, <2>3
    <3>2. nodes[i] \in Node
      BY <2>1, <3>1, ElementOfSeq
    <3> QED BY <3>1, <3>2
  <2> QED BY <2>1, <2>2, <2>3
<1>4. CASE phase = "float" /\ MeasureFloat
  <2>1. PICK a : a = nodes[at]
    OBVIOUS
  <2>2. /\ at <= Len(nodes) /\ at' = at + 1 /\ phase' = "float" /\ UNCHANGED <<es, ls>>
        /\ IsComplete(Task(a)) => UNCHANGED totalFloat
        /\ ~IsComplete(Task(a)) =>
             totalFloat' = [totalFloat EXCEPT ![a] = CountWorkingDays(Days(a), es[a], ls[a])]
    BY <1>4, <2>1 DEF MeasureFloat, floatVars, earlyVars, lateVars
  <2>3. DOMAIN totalFloat' = Node
    BY <2>2 DEF FloatsMeasured
  <2>4. ASSUME NEW i \in DOMAIN nodes, i < at', Open(nodes[i]), NEW b, b = nodes[i]
        PROVE  totalFloat'[b] = CountWorkingDays(Days(b), es[b], ls[b])
    <3>1. CASE b = a
      BY <1>3, <2>2, <2>4, <3>1 DEF FloatsMeasured, Open, IsComplete
    <3>2. CASE b # a
      <4>1. i < at
        BY <1>3, <2>1, <2>2, <2>4, <3>2
      <4>2. totalFloat[b] = CountWorkingDays(Days(b), es[b], ls[b])
        BY <1>4, <2>4, <4>1 DEF FloatsMeasured
      <4> QED BY <1>3, <2>2, <2>4, <3>2, <4>2 DEF FloatsMeasured
    <3> QED BY <3>1, <3>2
  <2> QED BY <1>2, <2>2, <2>3, <2>4 DEF FloatsMeasured
<1>5. CASE UNCHANGED totalFloat
  <2> SUFFICES ASSUME phase' \in {"float", "done"}, NEW i \in DOMAIN nodes,
                      phase' = "done" \/ i < at', Open(nodes[i]), NEW b, b = nodes[i]
               PROVE  totalFloat[b] = CountWorkingDays(Days(b), es'[b], ls'[b])
    BY <1>2, <1>5 DEF FloatsMeasured
  <2>1. CASE phase \in {"float", "done"} /\ (phase = "done" \/ i < at)
    <3>1. totalFloat[b] = CountWorkingDays(Days(b), es[b], ls[b])
      BY <2>1 DEF FloatsMeasured
    <3>2. UNCHANGED <<es, ls>>
      BY <2>1, WhoMeasures
    <3> QED BY <3>1, <3>2
  <2>2. CASE ~(phase \in {"float", "done"} /\ (phase = "done" \/ i < at))
    <3>1. phase' = "done" => phase = "float" /\ at = Len(nodes) + 1
      BY <2>2, WhoMeasures
    <3>2. ~(phase' = "done")
      BY <1>3, <2>2, <3>1
    <3>3. phase' = "float" /\ ~(at' = at /\ phase = "float") /\ ~(at' = 1)
      BY <1>3, <2>2, <3>2
    <3>4. phase = "float" /\ MeasureFloat
      BY <3>3, WhoMeasures
    <3>5. FloatsMeasured'
      BY <1>4, <3>4
    <3> QED BY <1>2, <1>5, <3>2, <3>5 DEF FloatsMeasured
  <2> QED BY <2>1, <2>2
<1> QED BY <1>4, <1>5, WhoMeasures DEF MeasureFloat

\* The backward pass goes over the whole order and leaves nothing undated.
LEMMA LateDatedStep ==
  ASSUME Structure, LateDated, [CPMNext]_vars
  PROVE  LateDated'
<1>1. phase # "sort" => UNCHANGED order
  BY StepsKeepTheNetwork DEF kahnVars
<1>2. CASE KeepActualsLate \/ PlaceLate
  <2>1. phase = "backward" /\ phase' = "backward" /\ at' = at - 1 /\ at >= 1 /\ at \in Nat
    BY <1>2 DEF KeepActualsLate, PlaceLate, Structure, DatesTyped
  <2>2. PICK a, late : a = order[at] /\ a \in Node /\ lf' = [lf EXCEPT ![a] = late] /\ late # None
    <3>1. CASE KeepActualsLate
      <4>1. PICK a : a = order[at]
        OBVIOUS
      <4>2. a \in Node /\ lf' = [lf EXCEPT ![a] = ef[a]]
        BY <2>1, <3>1, <4>1, ActivityAtPosition DEF KeepActualsLate
      <4>3. ef[a] # None
        BY <2>1, <4>2 DEF Structure, PhaseOrder, Passes
      <4> QED BY <4>1, <4>2, <4>3
    <3>2. CASE PlaceLate
      <4>1. PICK a : a = order[at]
        OBVIOUS
      <4>2. PICK late : a \in Node /\ lf' = [lf EXCEPT ![a] = late] /\ late \in Int
        BY <3>2, <4>1, PlaceLateStep
      <4>3. late # None
        BY <4>2, NoneAssumption
      <4> QED BY <4>1, <4>2, <4>3
    <3> QED BY <1>2, <3>1, <3>2
  <2>3. \A j \in DOMAIN order : order[j] \in Node /\ j \in Nat
    BY <2>1, OrderFacts DEF Structure, PhaseOrder, Passes
  <2>4. ASSUME NEW j \in DOMAIN order, j > at - 1, NEW b, b = order[j]
        PROVE  lf'[b] # None
    <3>1. j = at \/ j > at
      BY <2>1, <2>3, <2>4
    <3> QED BY <2>1, <2>2, <2>3, <2>4, <3>1 DEF LateDated, Structure, DatesTyped
  <2> QED BY <1>1, <2>1, <2>4 DEF LateDated
<1>3. CASE UNCHANGED lf
  <2>1. CASE SetDeadline
    <3>1. phase = "forward" /\ phase' = "backward" /\ at' = Len(order)
      BY <2>1 DEF SetDeadline
    <3>2. \A j \in DOMAIN order : ~(j > Len(order))
      BY <3>1, OrderFacts DEF Structure, PhaseOrder, Passes
    <3> QED BY <1>1, <3>1, <3>2 DEF LateDated
  <2>2. CASE StartPostPass
    <3>1. phase = "backward" /\ at = 0 /\ phase' \in {"alap", "float"}
      BY <2>2 DEF StartPostPass
    <3>2. \A a \in Node : \E j \in DOMAIN order : order[j] = a /\ j > 0
      BY <3>1, OrderFacts DEF Structure, PhaseOrder, Passes
    <3>3. \A a \in Node : lf[a] # None
      BY <3>1, <3>2 DEF LateDated
    <3> QED BY <1>3, <3>1, <3>3 DEF LateDated
  <2>3. CASE ~SetDeadline /\ ~StartPostPass /\ ~KeepActualsLate /\ ~PlaceLate
    <3>1. /\ phase' = "backward" => phase = "backward" /\ at' = at
          /\ phase' \in {"alap", "float", "done"} => phase \in {"alap", "float", "done"}
      BY <2>3 DEF CPMNext, Validate, Sort, StartForward, Forward, KeepActuals,
         ConsiderPredecessor, PlaceEarly, Backward, ConsiderSuccessor, PostPass, SlideLate,
         StartFloat, MeasureFloat, Return, vars, cpmVars, passVars
    <3> QED BY <1>1, <1>3, <3>1 DEF LateDated
  <2> QED BY <1>2, <2>1, <2>2, <2>3
<1>4. CASE SetDeadline
  <2>1. UNCHANGED lf
    BY <1>4 DEF SetDeadline, lateVars
  <2> QED BY <1>3, <2>1
<1> QED BY <1>2, <1>3, <1>4, WhoWrites

\* In every run capped work ends by its cap, everything is dated going back, and
\* floats are what they are defined to be.
LEMMA CapsAndFloats == CPMSpec => [](CapsKept /\ LateDated /\ FloatsMeasured)
<1>1. CPMInit => CapsKept /\ LateDated /\ FloatsMeasured
  BY DEF CPMInit, CapsKept, LateDated, FloatsMeasured
<1>2. Structure /\ (CapsKept /\ LateDated /\ FloatsMeasured) /\ [CPMNext]_vars
      => (CapsKept /\ LateDated /\ FloatsMeasured)'
  <2>1. [CPMNext]_vars => UNCHANGED nodes
    <3>1. [KahnNext]_kahnVars => UNCHANGED nodes
      BY DEF KahnNext, Seed, StartLoop, Dequeue, Release, Finish, Walk, WalkEnds, kahnVars
    <3> QED BY <3>1, StepsKeepTheNetwork
  <2> QED BY <2>1, CapsKeptStep, LateDatedStep, FloatsMeasuredStep
<1> QED BY <1>1, <1>2, StructureHolds, PTL DEF CPMSpec

\* Work that passes its cap has less than no float.
LEMMA MissedCapShows ==
  ASSUME Structure, SpansDrawn, CapsKept, LateDated, FloatsMeasured, phase = "done",
         NEW a \in Node, Open(a), Duration(Task(a)) > 0, IsCapped(Task(a)), InWindow(a),
         \/ Task(a).constraint \in CapsLateStart /\ es[a] > Task(a).cdate
         \/ Task(a).constraint \in CapsLateFinish /\ ef[a] > Task(a).cdate
  PROVE  totalFloat[a] < 0
<1>1. /\ IsLattice(Days(a)) /\ Duration(Task(a)) \in Nat /\ Task(a).cdate \in Int
  <2>1. IsLattice(Days(a)) /\ Task(a) \in Activity /\ Duration(Task(a)) \in Int
    BY ActivityFacts DEF Structure, NetworkFixed
  <2> QED BY <2>1 DEF IsCapped, HasConstraint, Activity, MaybeInt
<1>2. es[a] \in Int /\ ef[a] \in Int /\ lf[a] \in Int
  BY DEF Structure, PhaseOrder, DatesTyped, MaybeInt, Passes, LateDated
<1>3. ef[a] = FinishFromStart(Days(a), es[a], Duration(Task(a)))
  <2>1. ~Slid(a) /\ ~IsComplete(Task(a))
    BY DEF Slid, MaySlide, IsAlap, IsCapped, CapsLateStart, CapsLateFinish, Open, IsComplete
  <2> QED BY <1>2, <2>1, NoneAssumption DEF SpansDrawn, SpanDrawn
<1>4. lf[a] <= LateCap(Days(a), Task(a))
  BY <1>2, NoneAssumption DEF CapsKept
<1>5. totalFloat[a] = CountWorkingDays(Days(a), es[a], ls[a])
  <2>1. \E i \in DOMAIN nodes : nodes[i] = a
    BY DEF Structure, KahnInv, IsGraph, Elements
  <2> QED BY <2>1 DEF FloatsMeasured
<1>6. CASE Task(a).constraint \in CapsLateStart /\ es[a] > Task(a).cdate
  <2>1. LateCap(Days(a), Task(a))
          = FinishFromStart(Days(a), SnapStartBack(Days(a), Task(a).cdate), Duration(Task(a)))
    BY <1>6 DEF LateCap, IsCapped, CapsLateFinish, CapsLateStart
  <2>2. lf[a] <= FinishFromStart(Days(a), SnapStartBack(Days(a), Task(a).cdate), Duration(Task(a)))
    BY <1>4, <2>1
  <2> QED BY <1>1, <1>2, <1>5, <1>6, <2>2, MissedStart DEF InWindow
<1>7. CASE Task(a).constraint \in CapsLateFinish /\ ef[a] > Task(a).cdate
  <2>1. LateCap(Days(a), Task(a)) = SnapFinishBack(Days(a), Task(a).cdate)
    BY <1>7 DEF LateCap, IsCapped
  <2>2. SnapFinishBack(Days(a), Task(a).cdate) \in Int
        /\ SnapFinishBack(Days(a), Task(a).cdate) <= Task(a).cdate
    BY <1>1, SnapFinishMoves
  <2>3. lf[a] < ef[a]
    BY <1>1, <1>2, <1>4, <1>7, <2>1, <2>2
  <2> QED BY <1>1, <1>2, <1>3, <1>5, <2>3, MissedFinish DEF InWindow
<1> QED BY <1>6, <1>7

\* A cap that the early dates pass shows as negative float, in any network and
\* whichever of the passes missed it, as long as the dates of the work stay
\* where the code can count them (constraints.py:91-98).
THEOREM MissedCapsShow == CPMSpec => [](DatesInWindow => MissedCapIsNegativeFloat)
<1>1. Structure /\ (SpansDrawn /\ PlainLinksKept) /\ (CapsKept /\ LateDated /\ FloatsMeasured)
      => (DatesInWindow => MissedCapIsNegativeFloat)
  <2> SUFFICES ASSUME Structure, SpansDrawn, CapsKept, LateDated, FloatsMeasured, DatesInWindow,
                      phase = "done", NEW a \in Node, Open(a), Duration(Task(a)) > 0,
                      HasConstraint(Task(a)),
                      \/ Task(a).constraint \in CapsLateStart /\ es[a] > Task(a).cdate
                      \/ Task(a).constraint \in CapsLateFinish /\ ef[a] > Task(a).cdate
               PROVE  totalFloat[a] < 0
    BY DEF MissedCapIsNegativeFloat
  <2>1. IsCapped(Task(a))
    BY DEF IsCapped
  <2>2. InWindow(a)
    BY <2>1 DEF DatesInWindow
  <2> QED BY <2>1, <2>2, MissedCapShows
<1> QED BY <1>1, StructureHolds, PostPassInvariant, CapsAndFloats, PTL

-----------------------------------------------------------------------------
\* What a run of the second formulation ends with, for any links that are
\* active and any delays: dates that solve its equations.

\* f holds the dates after each of the first n activities of the order.
RunTo(E, delay, n, f) ==
  f = [i \in 0..n |->
         IF i = 0 THEN [a \in Node |-> [s |-> 0, f |-> 0]]
         ELSE [f[i - 1] EXCEPT ![order[i]] =
                 Granted(order[i], BoundsInto(E, order[i], f[i - 1]), delay[order[i]])]]

\* What is rerun ends with the last dates of such a run.
LEMMA RerunIs ==
  ASSUME NEW E, NEW delay
  PROVE  RerunOver(E, delay) = (CHOOSE f : RunTo(E, delay, Len(order), f))[Len(order)]
BY DEF RerunOver, RunTo

\* There is such a run: a first activity that ends none could be added to one.
LEMMA RunExists ==
  ASSUME NEW E, NEW delay, NEW N \in Nat
  PROVE  \E f : RunTo(E, delay, N, f)
<1> DEFINE B == {n \in 0..N : ~\E f : RunTo(E, delay, n, f)}
<1>1. ASSUME B # {} PROVE FALSE
  <2>1. B \in SUBSET Int /\ IsFiniteSet(B)
    <3>1. B \in SUBSET (0..N) /\ B \in SUBSET Int
      OBVIOUS
    <3>2. IsFiniteSet(0..N)
      <4>1. 0 \in Int /\ N \in Int
        OBVIOUS
      <4> QED BY <4>1, FS_Interval
    <3> HIDE DEF B
    <3>3. IsFiniteSet(B)
      BY <3>1, <3>2, FS_Subset
    <3> QED BY <3>1, <3>3
  <2>2. PICK n \in B : \A j \in B : n <= j
    <3> HIDE DEF B
    <3> QED BY <1>1, <2>1, HasLeast
  <2>3. n \in 0..N /\ ~\E f : RunTo(E, delay, n, f)
    BY <2>2
  <2>4. CASE n = 0
    <3> DEFINE g == [i \in 0..0 |-> [a \in Node |-> [s |-> 0, f |-> 0]]]
    <3>1. \A i \in 0..0 : i = 0
      OBVIOUS
    <3>2. RunTo(E, delay, 0, g)
      BY <3>1 DEF RunTo
    <3> QED BY <2>3, <2>4, <3>2
  <2>5. CASE n # 0
    <3>1. n - 1 \in 0..N /\ n \in Nat /\ ~(n <= n - 1)
      BY <2>3, <2>5
    <3>2. PICK g : RunTo(E, delay, n - 1, g)
      BY <2>2, <3>1
    <3> DEFINE Next(i, d) == [d EXCEPT ![order[i]] =
                                Granted(order[i], BoundsInto(E, order[i], d), delay[order[i]])]
               h == [i \in 0..n |-> IF i < n THEN g[i] ELSE Next(n, g[n - 1])]
               Begin == [a \in Node |-> [s |-> 0, f |-> 0]]
    <3>3. \A i \in 0..(n - 1) : g[i] = IF i = 0 THEN Begin ELSE Next(i, g[i - 1])
      BY <3>2 DEF RunTo
    <3>4. ASSUME NEW i \in 0..n
          PROVE  h[i] = IF i = 0 THEN Begin ELSE Next(i, h[i - 1])
      <4>1. CASE i < n
        <5>1. i \in 0..(n - 1) /\ (i # 0 => i - 1 \in 0..n /\ i - 1 < n)
          BY <3>1, <4>1
        <5>2. h[i] = g[i] /\ (i # 0 => h[i - 1] = g[i - 1])
          <6> HIDE DEF Next
          <6> QED BY <4>1, <5>1
        <5> HIDE DEF h, Next, Begin
        <5> QED BY <3>3, <5>1, <5>2
      <4>2. CASE ~(i < n)
        <5>1. i = n /\ i # 0 /\ n - 1 \in 0..n /\ n - 1 < n
          BY <3>1, <2>5, <4>2
        <5>2. h[i] = Next(n, g[n - 1]) /\ h[n - 1] = g[n - 1]
          <6> HIDE DEF Next
          <6> QED BY <5>1
        <5> HIDE DEF h, Next, Begin
        <5> QED BY <5>1, <5>2
      <4> QED BY <4>1, <4>2
    <3>5. h = [i \in 0..n |-> h[i]]
      OBVIOUS
    <3> HIDE DEF h
    <3>6. h = [i \in 0..n |-> IF i = 0 THEN Begin ELSE Next(i, h[i - 1])]
      <4> HIDE DEF Next, Begin
      <4> QED BY <3>4, <3>5
    <3>7. RunTo(E, delay, n, h)
      BY <3>6 DEF RunTo
    <3> QED BY <2>3, <3>7
  <2> QED BY <2>4, <2>5
<1>2. N \in 0..N
  OBVIOUS
<1> QED BY <1>1, <1>2

\* A run dates the activities of the network and no others.
LEMMA RunDatesTheNodes ==
  ASSUME NEW E, NEW delay, NEW N \in Nat, NEW f, RunTo(E, delay, N, f),
         \A i, j \in 1..N : order[i] = order[j] => i = j, \A j \in 1..N : order[j] \in Node,
         NEW m \in 0..N
  PROVE  DOMAIN f[m] = Node
<1> DEFINE Next(i, d) == [d EXCEPT ![order[i]] =
                            Granted(order[i], BoundsInto(E, order[i], d), delay[order[i]])]
<1>1. \A i \in 0..N : f[i] = IF i = 0 THEN [a \in Node |-> [s |-> 0, f |-> 0]]
                             ELSE Next(i, f[i - 1])
  BY DEF RunTo
<1>2. IsFiniteSet(0..N) /\ 0..N \in SUBSET Int
  <2>1. 0 \in Int /\ N \in Int
    OBVIOUS
  <2> QED BY <2>1, FS_Interval
<1>3. \A i \in 0..N : DOMAIN f[i] = Node
  <2> DEFINE B == {i \in 0..N : DOMAIN f[i] # Node}
  <2>1. ASSUME B # {} PROVE FALSE
    <3>1. B \in SUBSET (0..N)
      OBVIOUS
    <3> HIDE DEF B
    <3>2. B \in SUBSET Int /\ IsFiniteSet(B)
      BY <1>2, <3>1, FS_Subset
    <3>3. PICK i \in B : \A j \in B : i <= j
      BY <2>1, <3>2, HasLeast
    <3>4. i \in 0..N /\ DOMAIN f[i] # Node
      BY <3>3 DEF B
    <3>5. i # 0
      BY <1>1, <3>4
    <3>6. i - 1 \in 0..N /\ ~(i <= i - 1)
      BY <3>4, <3>5
    <3>7. DOMAIN f[i - 1] = Node
      BY <3>3, <3>6 DEF B
    <3>8. DOMAIN Next(i, f[i - 1]) = Node
      BY <3>7
    <3> HIDE DEF Next
    <3> QED BY <1>1, <3>4, <3>5, <3>8
  <2> QED BY <2>1
<1> QED BY <1>3

\* A run dates an activity once: after its turn the dates stay.
LEMMA RunLeavesBehind ==
  ASSUME NEW E, NEW delay, NEW N \in Nat, NEW f, RunTo(E, delay, N, f),
         \A i, j \in 1..N : order[i] = order[j] => i = j, \A j \in 1..N : order[j] \in Node,
         NEW m \in 0..N, NEW t \in 1..N, t <= m
  PROVE  f[m][order[t]] = f[N][order[t]]
<1> DEFINE Next(i, d) == [d EXCEPT ![order[i]] =
                            Granted(order[i], BoundsInto(E, order[i], d), delay[order[i]])]
<1>1. \A i \in 0..N : f[i] = IF i = 0 THEN [a \in Node |-> [s |-> 0, f |-> 0]]
                             ELSE Next(i, f[i - 1])
  BY DEF RunTo
<1>2. IsFiniteSet(0..N) /\ 0..N \in SUBSET Int
  <2>1. 0 \in Int /\ N \in Int
    OBVIOUS
  <2> QED BY <2>1, FS_Interval
<1>3. ASSUME NEW i \in 0..N PROVE DOMAIN f[i] = Node
  BY RunDatesTheNodes
<1>4. ASSUME NEW j \in 1..N
      PROVE  \A i \in 0..N : j <= i => f[i][order[j]] = f[j][order[j]]
  <2> DEFINE B == {i \in 0..N : j <= i /\ f[i][order[j]] # f[j][order[j]]}
  <2>1. ASSUME B # {} PROVE FALSE
    <3>1. B \in SUBSET (0..N)
      OBVIOUS
    <3> HIDE DEF B
    <3>2. B \in SUBSET Int /\ IsFiniteSet(B)
      BY <1>2, <3>1, FS_Subset
    <3>3. PICK i \in B : \A z \in B : i <= z
      BY <2>1, <3>2, HasLeast
    <3>4. i \in 0..N /\ j <= i /\ f[i][order[j]] # f[j][order[j]]
      BY <3>3 DEF B
    <3>5. i # j /\ i # 0
      BY <1>4, <3>4
    <3>6. i - 1 \in 0..N /\ ~(i <= i - 1) /\ j <= i - 1 /\ i \in 1..N
      BY <1>4, <3>4, <3>5
    <3>7. f[i - 1][order[j]] = f[j][order[j]]
      BY <3>3, <3>6 DEF B
    <3>8. order[i] # order[j]
      BY <1>4, <3>5, <3>6
    <3>9. Next(i, f[i - 1])[order[j]] = f[i - 1][order[j]]
      <4>1. order[j] \in DOMAIN f[i - 1]
        BY <1>3, <1>4, <3>6
      <4> QED BY <3>8, <4>1
    <3> HIDE DEF Next
    <3> QED BY <1>1, <3>4, <3>5, <3>7, <3>9
  <2> QED BY <2>1
<1>5. N \in 0..N /\ t <= N
  OBVIOUS
<1> QED BY <1>4, <1>5

\* The active links among these are in force.
PartOfTheLinks(E) == DOMAIN E \subseteq DOMAIN edges /\ \A k \in DOMAIN E : E[k] = edges[k]

\* The dates a run ends with solve the equations of the formulation, all at once.
LEMMA RerunSolves ==
  ASSUME Structure, phase \in Passes, NEW E, PartOfTheLinks(E), NEW delay
  PROVE  \A a \in Node : RerunOver(E, delay)[a]
                           = Granted(a, BoundsInto(E, a, RerunOver(E, delay)), delay[a])
<1> DEFINE N == Len(order)
           F == RerunOver(E, delay)
<1>1. /\ N \in Nat /\ DOMAIN order = 1..N
      /\ \A j \in DOMAIN order : order[j] \in Node
      /\ \A i, j \in DOMAIN order : order[i] = order[j] => i = j
      /\ \A a \in Node : \E j \in DOMAIN order : order[j] = a
      /\ \A k \in DOMAIN edges : \A j \in DOMAIN order :
           order[j] = edges[k][2] => \E i \in DOMAIN order : i < j /\ order[i] = edges[k][1]
  BY OrderFacts DEF Structure, PhaseOrder
<1>2. PICK f : RunTo(E, delay, N, f) /\ F = f[N]
  <2>1. \E f : RunTo(E, delay, N, f)
    BY <1>1, RunExists
  <2>2. RunTo(E, delay, N, CHOOSE f : RunTo(E, delay, N, f))
    BY <2>1, Zenon
  <2>3. F = (CHOOSE f : RunTo(E, delay, N, f))[N]
    BY RerunIs
  <2> QED BY <2>2, <2>3
<1> HIDE DEF F
<1>3. /\ \A i \in 0..N : DOMAIN f[i] = Node
      /\ \A i \in 0..N, j \in 1..N : j <= i => f[i][order[j]] = f[N][order[j]]
  <2>1. /\ N \in Nat
        /\ \A i, j \in 1..N : order[i] = order[j] => i = j
        /\ \A j \in 1..N : order[j] \in Node
    BY <1>1
  <2>2. RunTo(E, delay, N, f)
    BY <1>2
  <2> HIDE DEF N
  <2>3. ASSUME NEW i \in 0..N PROVE DOMAIN f[i] = Node
    BY <2>1, <2>2, RunDatesTheNodes
  <2>4. ASSUME NEW i \in 0..N, NEW j \in 1..N, j <= i
        PROVE  f[i][order[j]] = f[N][order[j]]
    BY <2>1, <2>2, <2>4, RunLeavesBehind
  <2> QED BY <2>3, <2>4
<1>4. ASSUME NEW j \in 1..N, NEW a, a = order[j]
      PROVE  F[a] = Granted(a, BoundsInto(E, a, F), delay[a])
  <2>1. j \in 0..N /\ j - 1 \in 0..N /\ j # 0
    BY <1>1
  <2>2. f[j] = [f[j - 1] EXCEPT ![a] = Granted(a, BoundsInto(E, a, f[j - 1]), delay[a])]
    BY <1>2, <1>4, <2>1 DEF RunTo
  <2>3. F[a] = f[j][a] /\ a \in Node
    BY <1>1, <1>2, <1>3, <1>4, <2>1
  <2>4. F[a] = Granted(a, BoundsInto(E, a, f[j - 1]), delay[a])
    BY <1>3, <2>1, <2>2, <2>3
  <2>5. ASSUME NEW k \in DOMAIN E, E[k][2] = a
        PROVE  f[j - 1][E[k][1]] = F[E[k][1]]
    <3>1. k \in DOMAIN edges /\ edges[k] = E[k]
      BY <2>5 DEF PartOfTheLinks
    <3>2. PICK i \in DOMAIN order : i < j /\ order[i] = E[k][1]
      BY <1>1, <1>4, <2>5, <3>1
    <3>3. i \in 1..N /\ i <= j - 1
      BY <1>1, <3>2
    <3> QED BY <1>2, <1>3, <2>1, <3>2, <3>3
  <2>6. BoundsInto(E, a, f[j - 1]) = BoundsInto(E, a, F)
    BY <2>5 DEF BoundsInto
  <2> QED BY <2>4, <2>6
<1> QED BY <1>1, <1>4 DEF F

-----------------------------------------------------------------------------
\* Dropping links makes nothing later.

\* The day a lag leads to is on the lattice.
LagLands(i, lag, space, lat) ==
  \/ lag = 0 \/ net.lagCalendar = "twenty_four_hour"
  \/ IF space = "finish" THEN Lands(lat, SnapStartBack(lat, i - 1), lag)
     ELSE Lands(lat, SnapStartForward(lat, i), lag)

\* So are the days the bound of a link is computed from, given the dates of its
\* predecessor.
BoundLands(l, s, f) ==
  LET fromStart == l.type \in FromPredecessorStart
      i     == IF fromStart THEN s ELSE f
      space == IF fromStart THEN "start" ELSE "finish"
      lat   == LagDays(l.pred, l.succ)
  IN  /\ LagLands(i, l.lag, space, lat)
      /\ l.type \in DrivesSuccessorFinish =>
           SpanLandsBack(Days(l.succ),
                         SnapFinishForward(Days(l.succ), AdvanceLag(i, l.lag, space, lat)),
                         Duration(Task(l.succ)))

\* A run over these links with these dates stays in the bound window: no
\* arithmetic of it raises TimeAxisWindowError.
RunInWindow(E, dates) ==
  /\ \A k \in DOMAIN E : BoundLands(Link(k), dates[E[k][1]].s, dates[E[k][1]].f)
  /\ \A a \in Node : ~IsComplete(Task(a)) => SpanLands(Days(a), dates[a].s, Duration(Task(a)))

EarlyDates == [a \in Node |-> [s |-> es[a], f |-> ef[a]]]

\* Neither the calculation nor the run without the links the field contradicts
\* leaves the window.
OverrideInWindow ==
  /\ RunInWindow(edges, EarlyDates)
  /\ RunInWindow(OverrideEdges, RerunOver(OverrideEdges, NoDelay))

\* Open work has not begun after the data date.
NothingBegunAhead ==
  \A a \in Node : Task(a).start # None /\ ~IsComplete(Task(a)) => Task(a).start <= net.dataDate

\* A lag leads no further from an earlier instant.
LEMMA LagGrows ==
  ASSUME NEW lat, IsLattice(lat), NEW i \in Int, NEW j \in Int, i <= j, NEW lag \in Int, NEW space,
         LagLands(i, lag, space, lat), LagLands(j, lag, space, lat)
  PROVE  AdvanceLag(i, lag, space, lat) <= AdvanceLag(j, lag, space, lat)
<1>1. CASE lag = 0 \/ net.lagCalendar = "twenty_four_hour"
  BY <1>1 DEF AdvanceLag
<1>2. CASE ~(lag = 0 \/ net.lagCalendar = "twenty_four_hour") /\ space = "finish"
  <2>1. i - 1 \in Int /\ j - 1 \in Int /\ i - 1 <= j - 1
    OBVIOUS
  <2>2. PICK s \in Int : s = SnapStartBack(lat, i - 1)
    BY <2>1, SnapBackMovesBack
  <2>3. PICK t \in Int : t = SnapStartBack(lat, j - 1)
    BY <2>1, SnapBackMovesBack
  <2>4. s <= t
    BY <2>1, <2>2, <2>3, SnapBackGrows
  <2>5. Lands(lat, s, lag) /\ Lands(lat, t, lag)
    BY <1>2, <2>2, <2>3 DEF LagLands
  <2>6. AddWorkingDays(lat, s, lag) <= AddWorkingDays(lat, t, lag)
    BY <2>4, <2>5, AddingGrows
  <2>7. AddWorkingDays(lat, s, lag) \in Int /\ AddWorkingDays(lat, t, lag) \in Int
    BY AddingMovesForward
  <2> QED BY <1>2, <2>2, <2>3, <2>6, <2>7 DEF AdvanceLag
<1>3. CASE ~(lag = 0 \/ net.lagCalendar = "twenty_four_hour") /\ space # "finish"
  <2>2. PICK s \in Int : s = SnapStartForward(lat, i)
    BY SnapForwardMovesForward
  <2>3. PICK t \in Int : t = SnapStartForward(lat, j)
    BY SnapForwardMovesForward
  <2>4. s <= t
    BY <2>2, <2>3, SnapForwardGrows
  <2>5. Lands(lat, s, lag) /\ Lands(lat, t, lag)
    BY <1>3, <2>2, <2>3 DEF LagLands
  <2>6. AddWorkingDays(lat, s, lag) <= AddWorkingDays(lat, t, lag)
    BY <2>4, <2>5, AddingGrows
  <2> QED BY <1>3, <2>2, <2>3, <2>6 DEF AdvanceLag
<1> QED BY <1>1, <1>2, <1>3

\* A link asks for no later a start if its predecessor is no later.
LEMMA ForwardBoundGrows ==
  ASSUME IsNetwork, NEW l \in ALink, NEW s \in Int, NEW f \in Int, NEW t \in Int, NEW g \in Int,
         s <= t, f <= g, BoundLands(l, s, f), BoundLands(l, t, g)
  PROVE  ForwardBound(l, s, f) <= ForwardBound(l, t, g)
<1>1. l.pred \in Node /\ l.succ \in Node /\ l.lag \in Int
  BY DEF ALink
<1>2. PICK i \in Int : i = IF l.type \in FromPredecessorStart THEN s ELSE f
  OBVIOUS
<1>3. PICK j \in Int : j = IF l.type \in FromPredecessorStart THEN t ELSE g
  OBVIOUS
<1>4. PICK space : space = IF l.type \in FromPredecessorStart THEN "start" ELSE "finish"
  OBVIOUS
<1>5. PICK lat : lat = LagDays(l.pred, l.succ) /\ IsLattice(lat)
  BY <1>1, LagDaysIsLattice
<1>6. LagLands(i, l.lag, space, lat) /\ LagLands(j, l.lag, space, lat) /\ i <= j
  BY <1>2, <1>3, <1>4, <1>5 DEF BoundLands
<1>7. PICK b \in Int : b = AdvanceLag(i, l.lag, space, lat)
  BY <1>1, <1>5, LagIsInteger
<1>8. PICK c \in Int : c = AdvanceLag(j, l.lag, space, lat)
  BY <1>1, <1>5, LagIsInteger
<1>9. b <= c
  BY <1>1, <1>5, <1>6, <1>7, <1>8, LagGrows
<1>10. CASE l.type \notin DrivesSuccessorFinish
  BY <1>2, <1>3, <1>4, <1>5, <1>7, <1>8, <1>9, <1>10 DEF ForwardBound
<1>11. CASE l.type \in DrivesSuccessorFinish
  <2>1. PICK days : days = Days(l.succ) /\ IsLattice(days)
    BY <1>1, ActivityFacts
  <2>2. PICK d \in Int : d = Duration(Task(l.succ))
    BY <1>1, ActivityFacts
  <2>3. b - 1 \in Int /\ c - 1 \in Int /\ b - 1 <= c - 1
    BY <1>9
  <2>4. PICK x \in Int : x = SnapFinishForward(days, b)
    BY <2>1, SnapFinishMoves
  <2>5. PICK y \in Int : y = SnapFinishForward(days, c)
    BY <2>1, SnapFinishMoves
  <2>6. x <= y
    <3>1. SnapStartForward(days, b - 1) <= SnapStartForward(days, c - 1)
      BY <2>1, <2>3, SnapForwardGrows
    <3>2. SnapStartForward(days, b - 1) \in Int /\ SnapStartForward(days, c - 1) \in Int
      BY <2>1, <2>3, SnapForwardMovesForward
    <3> QED BY <2>4, <2>5, <3>1, <3>2 DEF SnapFinishForward
  <2>7. SpanLandsBack(days, x, d) /\ SpanLandsBack(days, y, d)
    BY <1>2, <1>3, <1>4, <1>5, <1>7, <1>8, <1>11, <2>1, <2>2, <2>4, <2>5 DEF BoundLands
  <2>8. StartFromFinish(days, x, d) <= StartFromFinish(days, y, d)
    BY <2>1, <2>6, <2>7, SpansGrow
  <2> QED BY <1>2, <1>3, <1>4, <1>5, <1>7, <1>8, <1>11, <2>1, <2>2, <2>4, <2>5, <2>8 DEF ForwardBound
<1> QED BY <1>10, <1>11

\* Of what is asked for a start, one thing is the latest.
LEMMA AskedHasLatest ==
  ASSUME IsNetwork, NEW a \in Node, NEW B \in SUBSET Int, IsFiniteSet(B), NEW s \in Int
  PROVE  /\ AskedFor(a, B) \cup {s} \in SUBSET Int
         /\ IsGreatest(AskedFor(a, B) \cup {s}, Greatest(AskedFor(a, B) \cup {s}))
<1> DEFINE t == Task(a)
           U == B \cup {s} \cup {net.dataDate} \cup {EarlyFloor(Days(a), t)} \cup {t.start}
           S == AskedFor(a, B) \cup {s}
<1>1. /\ net.dataDate \in Int /\ t.start \in Int \cup {None}
      /\ EarlyFloor(Days(a), t) \in Int \cup {None} /\ None \notin Int
  BY FloorAndCap, ActivityFacts, NoneAssumption DEF IsNetwork, MaybeInt, Activity
<1>2. S \in SUBSET U /\ S \in SUBSET Int /\ S # {}
  <2> HIDE DEF t
  <2> QED BY <1>1 DEF AskedFor, t
<1>3. IsFiniteSet(U)
  <2>1. \A V, x : IsFiniteSet(V) => IsFiniteSet(V \cup {x})
    BY FS_AddElement
  <2> HIDE DEF t
  <2>2. IsFiniteSet(B \cup {s} \cup {net.dataDate})
    BY <2>1
  <2>3. IsFiniteSet(B \cup {s} \cup {net.dataDate} \cup {EarlyFloor(Days(a), t)})
    BY <2>1, <2>2
  <2> QED BY <2>1, <2>3
<1> HIDE DEF U, S
<1>4. IsFiniteSet(S)
  BY <1>2, <1>3, FS_Subset
<1>5. \E x \in S : IsGreatest(S, x)
  BY <1>2, <1>4, HasGreatest DEF IsGreatest
<1>6. IsGreatest(S, Greatest(S))
  BY <1>5, Zenon DEF Greatest
<1> QED BY <1>2, <1>6 DEF S

\* The dates granted are no later if everything asked is asked no later.
LEMMA GrantedGrows ==
  ASSUME IsNetwork, NEW a \in Node,
         NEW X \in SUBSET Int, IsFiniteSet(X), NEW Y \in SUBSET Int, IsFiniteSet(Y),
         NEW s \in Int, NEW t \in Int, s <= t,
         \A x \in X : \E y \in Y : x <= y,
         Task(a).start # None /\ ~IsComplete(Task(a)) => Task(a).start <= net.dataDate,
         ~IsComplete(Task(a)) =>
           /\ SpanLands(Days(a), Granted(a, X, s).s, Duration(Task(a)))
           /\ SpanLands(Days(a), Granted(a, Y, t).s, Duration(Task(a)))
  PROVE  /\ Granted(a, X, s).s \in Int /\ Granted(a, X, s).f \in Int
         /\ Granted(a, X, s).s <= Granted(a, Y, t).s /\ Granted(a, X, s).f <= Granted(a, Y, t).f
<1>1. CASE IsComplete(Task(a))
  <2>1. Task(a).start \in Int /\ Task(a).finish \in Int
    BY <1>1, ActivityFacts, NoneAssumption DEF IsTask, IsComplete, Activity, MaybeInt
  <2> QED BY <1>1, <2>1 DEF Granted
<1>2. CASE ~IsComplete(Task(a))
  <2> DEFINE S == AskedFor(a, X) \cup {s}
             T == AskedFor(a, Y) \cup {t}
  <2>1. S \in SUBSET Int /\ IsGreatest(S, Greatest(S))
    BY AskedHasLatest
  <2>2. T \in SUBSET Int /\ IsGreatest(T, Greatest(T))
    BY AskedHasLatest
  <2>3. \A x \in S : \E y \in T : x <= y
    <3>1. /\ net.dataDate \in Int /\ Task(a).start \in Int \cup {None}
          /\ EarlyFloor(Days(a), Task(a)) \in Int \cup {None} /\ None \notin Int
      BY FloorAndCap, ActivityFacts, NoneAssumption DEF IsNetwork, MaybeInt, Activity
    <3>2. \E y \in T : s <= y
      OBVIOUS
    <3>3. PICK start : start = Task(a).start
      OBVIOUS
    <3>4. PICK floor : floor = IF IsStarted(Task(a)) /\ Task(a).constraint \in FloorsEarlyStart
                               THEN None ELSE EarlyFloor(Days(a), Task(a))
      OBVIOUS
    <3>5. /\ start # None => start \in Int /\ start <= net.dataDate
          /\ floor # None => floor \in Int
      BY <1>2, <3>1, <3>3, <3>4
    <3>6. \A B : AskedFor(a, B) =
                   IF Task(a).constraint \in Mandatory /\ floor # None
                   THEN {floor, net.dataDate}
                   ELSE B \cup {net.dataDate} \cup ({floor} \ {None})
                          \cup (IF B = {} THEN {start} \ {None} ELSE {})
      BY <3>3, <3>4 DEF AskedFor
    <3>7. ASSUME NEW x \in AskedFor(a, X) PROVE \E y \in AskedFor(a, Y) : x <= y
      <4>1. CASE Task(a).constraint \in Mandatory /\ floor # None
        <5>1. AskedFor(a, X) = {floor, net.dataDate} /\ AskedFor(a, Y) = {floor, net.dataDate}
          BY <3>6, <4>1
        <5> QED BY <3>1, <3>5, <3>7, <4>1, <5>1
      <4>2. CASE ~(Task(a).constraint \in Mandatory /\ floor # None)
        <5>1. x \in X \/ x = net.dataDate \/ (x = floor /\ floor # None) \/ (x = start /\ start # None)
          BY <3>6, <3>7, <4>2
        <5>2. /\ Y \subseteq AskedFor(a, Y) /\ net.dataDate \in AskedFor(a, Y)
              /\ floor # None => floor \in AskedFor(a, Y)
          BY <3>6, <4>2
        <5>3. CASE x \in X
          BY <5>2, <5>3
        <5>4. CASE x = net.dataDate
          BY <3>1, <5>2, <5>4
        <5>5. CASE x = floor /\ floor # None
          BY <3>5, <5>2, <5>5
        <5>6. CASE x = start /\ start # None
          BY <3>5, <5>2, <5>6
        <5> QED BY <5>1, <5>3, <5>4, <5>5, <5>6
      <4> QED BY <4>1, <4>2
    <3> QED BY <3>2, <3>7
  <2> HIDE DEF S, T
  <2>4. PICK x \in Int : x = Greatest(S) /\ x \in S
    BY <2>1 DEF IsGreatest
  <2>5. PICK y \in Int : y = Greatest(T)
    BY <2>2 DEF IsGreatest
  <2>6. x <= y
    <3>1. PICK z \in T : x <= z
      BY <2>3, <2>4
    <3>2. z \in Int /\ z <= y
      BY <2>2, <2>5 DEF IsGreatest
    <3> QED BY <3>1, <3>2
  <2>7. PICK lat : lat = Days(a) /\ IsLattice(lat)
    BY ActivityFacts
  <2>8. PICK d \in Int : d = Duration(Task(a))
    BY ActivityFacts
  <2>9. PICK i \in Int : i = SnapStartForward(lat, x)
    BY <2>7, SnapForwardMovesForward
  <2>10. PICK j \in Int : j = SnapStartForward(lat, y)
    BY <2>7, SnapForwardMovesForward
  <2>11. i <= j
    BY <2>6, <2>7, <2>9, <2>10, SnapForwardGrows
  <2>12. /\ Granted(a, X, s) = [s |-> i, f |-> FinishFromStart(lat, i, d)]
         /\ Granted(a, Y, t) = [s |-> j, f |-> FinishFromStart(lat, j, d)]
    BY <1>2, <2>4, <2>5, <2>7, <2>8, <2>9, <2>10 DEF Granted, S, T
  <2>13. SpanLands(lat, i, d) /\ SpanLands(lat, j, d)
    BY <1>2, <2>7, <2>8, <2>12
  <2>14. FinishFromStart(lat, i, d) <= FinishFromStart(lat, j, d) /\ FinishFromStart(lat, i, d) \in Int
    BY <2>7, <2>11, <2>13, SpansGrow, SpansAreInstants
  <2> QED BY <2>11, <2>12, <2>14
<1> QED BY <1>1, <1>2

\* Dates that solve the equations of the formulation over these links.
Solves(E, delay, d) == \A a \in Node : d[a] = Granted(a, BoundsInto(E, a, d), delay[a])

\* The bounds on an activity are finitely many instants, given dates for its
\* predecessors.
LEMMA BoundsAreInstants ==
  ASSUME Structure, NEW E, PartOfTheLinks(E), NEW a, NEW d,
         \A k \in DOMAIN E : E[k][2] = a => d[E[k][1]].s \in Int /\ d[E[k][1]].f \in Int
  PROVE  BoundsInto(E, a, d) \in SUBSET Int /\ IsFiniteSet(BoundsInto(E, a, d))
<1> DEFINE K == {k \in DOMAIN E : E[k][2] = a}
           g == [k \in K |-> ForwardBound(Link(k), d[E[k][1]].s, d[E[k][1]].f)]
<1>1. K \in SUBSET DOMAIN edges /\ IsFiniteSet(DOMAIN edges)
  BY DEF PartOfTheLinks, Structure, KahnInv, IsGraph
<1>2. IsFiniteSet(K)
  <2> HIDE DEF K
  <2> QED BY <1>1, FS_Subset
<1>3. BoundsInto(E, a, d) = {g[k] : k \in K}
  BY DEF BoundsInto
<1>4. ASSUME NEW k \in K PROVE g[k] \in Int
  <2>1. k \in DOMAIN edges /\ d[E[k][1]].s \in Int /\ d[E[k][1]].f \in Int
    BY <1>1
  <2>2. Link(k) \in ALink /\ IsNetwork
    BY <2>1, EdgeFacts DEF Structure, NetworkFixed
  <2> QED BY <2>1, <2>2, ForwardBoundIsInteger
<1>5. DOMAIN g = K
  OBVIOUS
<1> HIDE DEF g, K
<1>6. IsFiniteSet({g[k] : k \in K})
  BY <1>2, <1>5, FinitelyMany
<1> QED BY <1>3, <1>4, <1>6

\* Over fewer links, and with starts delayed no more, no activity is dated later:
\* the argument goes by the first activity of the order that would be.
LEMMA FewerLinksNoLater ==
  ASSUME Structure, phase \in Passes, NothingBegunAhead,
         NEW E, NEW H, PartOfTheLinks(E), PartOfTheLinks(H), DOMAIN E \subseteq DOMAIN H,
         NEW delay, NEW later, NEW G, NEW D, Solves(E, delay, G), Solves(H, later, D),
         \A a \in Node : /\ delay[a] \in Int /\ later[a] \in Int /\ delay[a] <= later[a]
                         /\ D[a].s \in Int /\ D[a].f \in Int,
         RunInWindow(E, G), RunInWindow(H, D)
  PROVE  \A a \in Node : /\ G[a].s \in Int /\ G[a].f \in Int
                         /\ G[a].s <= D[a].s /\ G[a].f <= D[a].f
<1> DEFINE NoLater(a) == /\ G[a].s \in Int /\ G[a].f \in Int
                         /\ G[a].s <= D[a].s /\ G[a].f <= D[a].f
           Bad == {i \in DOMAIN order : ~NoLater(order[i])}
<1>1. /\ Len(order) \in Nat /\ DOMAIN order = 1..Len(order)
      /\ \A j \in DOMAIN order : order[j] \in Node
      /\ \A a \in Node : \E j \in DOMAIN order : order[j] = a
      /\ \A k \in DOMAIN edges : \A j \in DOMAIN order :
           order[j] = edges[k][2] => \E i \in DOMAIN order : i < j /\ order[i] = edges[k][1]
  BY OrderFacts DEF Structure, PhaseOrder
<1>2. IsNetwork
  BY DEF Structure, NetworkFixed
<1>3. ASSUME NEW j \in DOMAIN order, \A i \in DOMAIN order : i < j => NoLater(order[i])
      PROVE  NoLater(order[j])
  <2>1. PICK a \in Node : a = order[j]
    BY <1>1
  <2> DEFINE X == BoundsInto(E, a, G)
             Y == BoundsInto(H, a, D)
  <2>2. ASSUME NEW k \in DOMAIN H, H[k][2] = a
        PROVE  k \in DOMAIN edges /\ H[k][1] \in Node /\ NoLater(H[k][1])
    <3>1. k \in DOMAIN edges /\ H[k] = edges[k]
      BY <2>2 DEF PartOfTheLinks
    <3>2. PICK i \in DOMAIN order : i < j /\ order[i] = edges[k][1]
      BY <1>1, <2>1, <2>2, <3>1
    <3>3. NoLater(order[i]) /\ order[i] \in Node
      BY <1>1, <1>3, <3>2
    <3> HIDE DEF NoLater
    <3> QED BY <3>1, <3>2, <3>3
  <2>3. \A k \in DOMAIN E : k \in DOMAIN H /\ E[k] = H[k]
    BY DEF PartOfTheLinks
  <2>4. X \in SUBSET Int /\ IsFiniteSet(X)
    <3>1. \A k \in DOMAIN E : E[k][2] = a => G[E[k][1]].s \in Int /\ G[E[k][1]].f \in Int
      BY <2>2, <2>3
    <3> QED BY <3>1, BoundsAreInstants
  <2>5. Y \in SUBSET Int /\ IsFiniteSet(Y)
    <3>1. \A k \in DOMAIN H : H[k][2] = a => D[H[k][1]].s \in Int /\ D[H[k][1]].f \in Int
      BY <2>2
    <3> QED BY <3>1, BoundsAreInstants
  <2>6. \A x \in X : \E y \in Y : x <= y
    <3>1. ASSUME NEW k \in DOMAIN E, E[k][2] = a
          PROVE  ForwardBound(Link(k), G[E[k][1]].s, G[E[k][1]].f)
                   <= ForwardBound(Link(k), D[H[k][1]].s, D[H[k][1]].f)
      <4>1. k \in DOMAIN H /\ E[k] = H[k] /\ H[k][2] = a
        BY <2>3, <3>1
      <4>2. PICK p \in Node : p = H[k][1] /\ p = E[k][1] /\ NoLater(p) /\ k \in DOMAIN edges
        BY <2>2, <4>1
      <4>3. Link(k) \in ALink
        BY <4>2, EdgeFacts DEF Structure
      <4>4. BoundLands(Link(k), G[p].s, G[p].f) /\ BoundLands(Link(k), D[p].s, D[p].f)
        BY <4>1, <4>2 DEF RunInWindow
      <4>5. PICK s \in Int, f \in Int, t \in Int, g \in Int :
              s = G[p].s /\ f = G[p].f /\ t = D[p].s /\ g = D[p].f /\ s <= t /\ f <= g
        BY <4>2
      <4>6. ForwardBound(Link(k), s, f) <= ForwardBound(Link(k), t, g)
        BY <1>2, <4>3, <4>4, <4>5, ForwardBoundGrows
      <4> QED BY <4>2, <4>5, <4>6
    <3> HIDE DEF NoLater
    <3> QED BY <2>3, <3>1 DEF BoundsInto
  <2> HIDE DEF X, Y
  <2>7. PICK s \in Int, t \in Int : s = delay[a] /\ t = later[a] /\ s <= t
    OBVIOUS
  <2>8. G[a] = Granted(a, X, s) /\ D[a] = Granted(a, Y, t)
    BY <2>7 DEF Solves, X, Y
  <2>9. ~IsComplete(Task(a)) =>
          /\ SpanLands(Days(a), Granted(a, X, s).s, Duration(Task(a)))
          /\ SpanLands(Days(a), Granted(a, Y, t).s, Duration(Task(a)))
    BY <2>8 DEF RunInWindow
  <2>10. Task(a).start # None /\ ~IsComplete(Task(a)) => Task(a).start <= net.dataDate
    BY DEF NothingBegunAhead
  <2>11. /\ Granted(a, X, s).s \in Int /\ Granted(a, X, s).f \in Int
         /\ Granted(a, X, s).s <= Granted(a, Y, t).s /\ Granted(a, X, s).f <= Granted(a, Y, t).f
    BY <1>2, <2>4, <2>5, <2>6, <2>7, <2>9, <2>10, GrantedGrows
  <2> QED BY <2>1, <2>8, <2>11
<1> HIDE DEF NoLater
<1>4. Bad = {}
  <2> SUFFICES ASSUME Bad # {} PROVE FALSE
    OBVIOUS
  <2>1. Bad \in SUBSET Int /\ IsFiniteSet(Bad)
    <3>1. Bad \in SUBSET (1..Len(order))
      BY <1>1
    <3>2. IsFiniteSet(1..Len(order))
      <4>1. 1 \in Int /\ Len(order) \in Int
        BY <1>1
      <4> QED BY <4>1, FS_Interval
    <3> HIDE DEF Bad
    <3>3. IsFiniteSet(Bad)
      BY <3>1, <3>2, FS_Subset
    <3>4. \A i \in 1..Len(order) : i \in Int
      OBVIOUS
    <3> QED BY <3>1, <3>3, <3>4
  <2> HIDE DEF Bad
  <2>2. PICK j \in Bad : \A i \in Bad : j <= i
    BY <2>1, HasLeast
  <2>3. j \in DOMAIN order /\ ~NoLater(order[j])
    BY DEF Bad
  <2>4. ASSUME NEW i \in DOMAIN order, i < j PROVE NoLater(order[i])
    <3>1. i \notin Bad
      BY <1>1, <2>2, <2>3, <2>4
    <3> QED BY <3>1 DEF Bad
  <2> QED BY <1>3, <2>3, <2>4
<1>5. \A a \in Node : NoLater(a)
  BY <1>1, <1>4
<1> QED BY <1>5 DEF NoLater

\* Progress override, which drops the links the field has contradicted, never
\* dates an activity later than retained logic does, on any network whose open
\* work has not begun after the data date and whose dates stay in the window
\* (progress_logic.py:225-230 decides what is dropped, cpm.py:395-400 what then counts).
THEOREM OverrideIsNeverLater ==
  CPMSpec => [](NothingBegunAhead /\ OverrideInWindow => OverrideNeverLater)
<1>1. Structure /\ DatedAsAsked =>
        (NothingBegunAhead /\ OverrideInWindow => OverrideNeverLater)
  <2> SUFFICES ASSUME Structure, DatedAsAsked, NothingBegunAhead, OverrideInWindow,
                      phase = "backward", net.mode = "retained_logic"
               PROVE  \A a \in Node :
                        /\ RerunOver(OverrideEdges, NoDelay)[a].s <= es[a]
                        /\ RerunOver(OverrideEdges, NoDelay)[a].f <= ef[a]
    BY DEF OverrideNeverLater
  <2> DEFINE E == OverrideEdges
             G == RerunOver(OverrideEdges, NoDelay)
  <2>1. phase \in Passes /\ IsNetwork /\ net.dataDate \in Int
    BY DEF Passes, Structure, NetworkFixed, IsNetwork
  <2>2. PartOfTheLinks(E) /\ PartOfTheLinks(edges)
    <3>1. edges = [k \in DOMAIN net.links |-> <<net.links[k].pred, net.links[k].succ>>]
      BY DEF Structure, NetworkFixed, ActiveEdges, Suppressed
    <3>2. /\ DOMAIN E \subseteq DOMAIN net.links
          /\ \A k \in DOMAIN E : E[k] = <<net.links[k].pred, net.links[k].succ>>
      BY DEF OverrideEdges, ActiveEdges
    <3> HIDE DEF E
    <3> QED BY <3>1, <3>2 DEF PartOfTheLinks
  <2>3. Solves(E, NoDelay, G)
    BY <2>1, <2>2, RerunSolves DEF Solves
  <2>4. \A a \in Node : /\ es[a] \in Int /\ ef[a] \in Int
                        /\ EarlyDates[a].s = es[a] /\ EarlyDates[a].f = ef[a]
                        /\ EarlyDates[a] = [s |-> es[a], f |-> ef[a]]
    BY DEF Structure, PhaseOrder, DatesTyped, Passes, MaybeInt, EarlyDates
  <2>5. Solves(edges, NoDelay, EarlyDates)
    <3>1. ASSUME NEW a \in Node PROVE BoundsInto(edges, a, EarlyDates) = LinkBounds(a)
      <4>1. \A k \in DOMAIN edges : edges[k][1] \in Node
        BY EdgeFacts DEF Structure
      <4>2. \A k \in DOMAIN edges :
              LinkBound(k) = ForwardBound(Link(k), EarlyDates[edges[k][1]].s, EarlyDates[edges[k][1]].f)
        BY <2>4, <4>1 DEF LinkBound
      <4> QED BY <4>2 DEF BoundsInto, LinkBounds
    <3>2. \A a \in Node : [s |-> es[a], f |-> ef[a]] = Granted(a, LinkBounds(a), NoDelay[a])
      BY DEF DatedAsAsked, NoDelay, Structure, PhaseOrder, Passes
    <3> QED BY <2>4, <3>1, <3>2 DEF Solves
  <2>6. \A a \in Node : NoDelay[a] \in Int /\ NoDelay[a] <= NoDelay[a]
    BY <2>1 DEF NoDelay
  <2>7. RunInWindow(E, G) /\ RunInWindow(edges, EarlyDates) /\ DOMAIN E \subseteq DOMAIN edges
    BY <2>2 DEF OverrideInWindow, PartOfTheLinks
  <2> HIDE DEF E, G
  <2>8. \A a \in Node : G[a].s <= EarlyDates[a].s /\ G[a].f <= EarlyDates[a].f
    <3>1. PICK none : none = NoDelay
      OBVIOUS
    <3>2. PICK D : D = EarlyDates
      OBVIOUS
    <3>3. \A a \in Node : /\ none[a] \in Int /\ none[a] <= none[a]
                          /\ D[a].s \in Int /\ D[a].f \in Int
      BY <2>4, <2>6, <3>1, <3>2
    <3>4. /\ PartOfTheLinks(E) /\ PartOfTheLinks(edges) /\ DOMAIN E \subseteq DOMAIN edges
          /\ Solves(E, none, G) /\ Solves(edges, none, D)
          /\ RunInWindow(E, G) /\ RunInWindow(edges, D)
      BY <2>2, <2>3, <2>5, <2>7, <3>1, <3>2
    <3>5. \A a \in Node : /\ G[a].s \in Int /\ G[a].f \in Int
                          /\ G[a].s <= D[a].s /\ G[a].f <= D[a].f
      BY <2>1, <3>3, <3>4, FewerLinksNoLater
    <3> QED BY <3>2, <3>5
  <2> QED BY <2>4, <2>8 DEF G
<1> QED BY <1>1, StructureHolds, DatedAsAskedHolds, PTL

-----------------------------------------------------------------------------
\* Positions of bounds, where all the work keeps one calendar.

\* The last day of a span is a working day, and as many positions on as it has days.
LEMMA SpanEnds ==
  ASSUME NEW lat, IsLattice(lat), NEW s \in lat, NEW d \in Int, d > 0, SpanLands(lat, s, d)
  PROVE  \E u \in lat : /\ FinishFromStart(lat, s, d) = u + 1
                        /\ BisectLeft(lat, u) = BisectLeft(lat, s) + (d - 1)
<1>1. SnapStartForward(lat, s) = s
  BY WorkingInstantsStay
<1>2. Lands(lat, s, d - 1) /\ d - 1 \in Int
  BY <1>1 DEF SpanLands
<1>3. /\ AddWorkingDays(lat, s, d - 1) \in lat
      /\ BisectLeft(lat, AddWorkingDays(lat, s, d - 1)) = BisectLeft(lat, s) + (d - 1)
  BY <1>2, AddLands
<1> QED BY <1>1, <1>3 DEF FinishFromStart

\* A lag counted on the calendar moves that many positions, from the start of a
\* day and from the end of one.
LEMMA LagPositions ==
  ASSUME NEW lat, IsLattice(lat), NEW w \in lat, NEW lag \in Int, NEW days,
         lag = 0 \/ (days = lat /\ net.lagCalendar # "twenty_four_hour")
  PROVE  /\ LagLands(w, lag, "start", days) =>
              \E v \in lat : /\ AdvanceLag(w, lag, "start", days) = v
                             /\ BisectLeft(lat, v) = BisectLeft(lat, w) + lag
         /\ LagLands(w + 1, lag, "finish", days) =>
              \E v \in lat : /\ AdvanceLag(w + 1, lag, "finish", days) = v + 1
                             /\ BisectLeft(lat, v) = BisectLeft(lat, w) + lag
<1>1. w \in Int /\ (w + 1) - 1 = w /\ BisectLeft(lat, w) \in Nat
  <2>1. w \in Int
    BY DEF IsLattice
  <2>2. BisectLeft(lat, w) \in Nat
    BY PositionsCount
  <2> QED BY <2>1, <2>2
<1>2. CASE lag = 0
  BY <1>1, <1>2 DEF AdvanceLag
<1>3. CASE lag # 0
  <2>1. SnapStartForward(lat, w) = w /\ SnapStartBack(lat, w) = w
    BY WorkingInstantsStay
  <2>2. LagLands(w, lag, "start", days) => Lands(lat, w, lag)
    BY <1>3, <2>1 DEF LagLands
  <2>3. LagLands(w + 1, lag, "finish", days) => Lands(lat, w, lag)
    BY <1>1, <1>3, <2>1 DEF LagLands
  <2>4. Lands(lat, w, lag) =>
          /\ AddWorkingDays(lat, w, lag) \in lat
          /\ BisectLeft(lat, AddWorkingDays(lat, w, lag)) = BisectLeft(lat, w) + lag
    BY AddLands
  <2>5. /\ AdvanceLag(w, lag, "start", days) = AddWorkingDays(lat, w, lag)
        /\ AdvanceLag(w + 1, lag, "finish", days) = AddWorkingDays(lat, w, lag) + 1
    BY <1>1, <1>3, <2>1 DEF AdvanceLag
  <2> QED BY <2>2, <2>3, <2>4, <2>5
<1> QED BY <1>2, <1>3

\* How many positions the bound of a link lies past the start of its predecessor.
Shift(l) ==
  l.lag + (IF l.type \in FromPredecessorStart THEN 0 ELSE Duration(Task(l.pred)))
        - (IF l.type \in DrivesSuccessorFinish THEN Duration(Task(l.succ)) ELSE 0)

\* It lies so far, for work on the one calendar.
LEMMA BoundPosition ==
  ASSUME IsNetwork, NEW l \in ALink, l.type # "SF", NEW lat,
         lat = Days(l.pred), lat = Days(l.succ),
         Duration(Task(l.pred)) > 0, Duration(Task(l.succ)) > 0,
         l.lag = 0 \/ net.lagCalendar \in {"predecessor", "successor"},
         NEW s \in lat, NEW f, f = FinishFromStart(lat, s, Duration(Task(l.pred))),
         SpanLands(lat, s, Duration(Task(l.pred))), BoundLands(l, s, f)
  PROVE  BisectLeft(lat, ForwardBound(l, s, f)) = BisectLeft(lat, s) + Shift(l)
<1>1. /\ l.pred \in Node /\ l.succ \in Node /\ l.lag \in Int
      /\ l.type \in {"FS", "SS", "FF"}
  BY DEF ALink, RelationType
<1>2. IsLattice(lat)
  BY <1>1, ActivityFacts
<1>3. PICK d \in Int : d = Duration(Task(l.pred)) /\ d > 0
  BY <1>1, ActivityFacts
<1>4. PICK c \in Int : c = Duration(Task(l.succ)) /\ c > 0
  BY <1>1, ActivityFacts
<1>5. PICK days : days = LagDays(l.pred, l.succ)
  OBVIOUS
<1>6. l.lag = 0 \/ (days = lat /\ net.lagCalendar # "twenty_four_hour")
  BY <1>5 DEF LagDays
<1>7. PICK u \in lat : f = u + 1 /\ BisectLeft(lat, u) = BisectLeft(lat, s) + (d - 1)
  BY <1>2, <1>3, SpanEnds
<1>8. \A w \in lat : w \in Int /\ BisectLeft(lat, w) \in Nat /\ BisectLeft(lat, w + 1) = BisectLeft(lat, w) + 1
  BY <1>2, PositionsCount, PastAWorkingDay DEF IsLattice
<1>9. CASE l.type = "SS"
  <2>1. LagLands(s, l.lag, "start", days)
    BY <1>5, <1>9 DEF BoundLands, FromPredecessorStart
  <2>2. PICK v \in lat : /\ AdvanceLag(s, l.lag, "start", days) = v
                         /\ BisectLeft(lat, v) = BisectLeft(lat, s) + l.lag
    BY <1>1, <1>2, <1>6, <2>1, LagPositions
  <2>3. ForwardBound(l, s, f) = v
    BY <1>5, <1>9, <2>2 DEF ForwardBound, FromPredecessorStart, DrivesSuccessorFinish
  <2>4. Shift(l) = l.lag
    BY <1>1, <1>9 DEF Shift, FromPredecessorStart, DrivesSuccessorFinish
  <2> QED BY <2>2, <2>3, <2>4
<1>10. CASE l.type # "SS"
  <2>1. LagLands(u + 1, l.lag, "finish", days)
    BY <1>1, <1>5, <1>7, <1>10 DEF BoundLands, FromPredecessorStart
  <2>2. PICK v \in lat : /\ AdvanceLag(u + 1, l.lag, "finish", days) = v + 1
                         /\ BisectLeft(lat, v) = BisectLeft(lat, u) + l.lag
    BY <1>1, <1>2, <1>6, <2>1, LagPositions
  <2>3. CASE l.type = "FS"
    <3>1. ForwardBound(l, s, f) = v + 1
      BY <1>5, <1>7, <2>2, <2>3 DEF ForwardBound, FromPredecessorStart, DrivesSuccessorFinish
    <3>2. Shift(l) = l.lag + d
      BY <1>1, <1>3, <2>3 DEF Shift, FromPredecessorStart, DrivesSuccessorFinish
    <3> QED BY <1>1, <1>7, <1>8, <2>2, <3>1, <3>2
  <2>4. CASE l.type = "FF"
    <3>1. v \in Int /\ (v + 1) - 1 = v /\ v + 1 \in Int
      BY <1>8
    <3>2. SnapFinishForward(lat, v + 1) = v + 1
      BY <1>2, <3>1, WorkingInstantsStay DEF SnapFinishForward
    <3>3. SpanLandsBack(lat, v + 1, c)
      BY <1>4, <1>5, <1>7, <2>2, <2>4, <3>2
         DEF BoundLands, FromPredecessorStart, DrivesSuccessorFinish
    <3>4. Lands(lat, v, 1 - c) /\ 1 - c \in Int /\ -(c - 1) = 1 - c /\ SnapStartBack(lat, v) = v
      BY <1>2, <1>4, <3>1, <3>3, WorkingInstantsStay DEF SpanLandsBack
    <3>5. BisectLeft(lat, AddWorkingDays(lat, v, 1 - c)) = BisectLeft(lat, v) + (1 - c)
      BY <1>2, <3>4, AddLands
    <3>6. StartFromFinish(lat, v + 1, c) = AddWorkingDays(lat, v, 1 - c)
      BY <1>4, <3>1, <3>4 DEF StartFromFinish, SubWorkingDays
    <3>7. ForwardBound(l, s, f) = AddWorkingDays(lat, v, 1 - c)
      BY <1>4, <1>5, <1>7, <2>2, <2>4, <3>2, <3>6
         DEF ForwardBound, FromPredecessorStart, DrivesSuccessorFinish
    <3>8. Shift(l) = l.lag + d - c
      BY <1>1, <1>3, <1>4, <2>4 DEF Shift, FromPredecessorStart, DrivesSuccessorFinish
    <3> QED BY <1>1, <1>7, <1>8, <2>2, <3>5, <3>7, <3>8
  <2> QED BY <1>1, <1>10, <2>3, <2>4
<1> QED BY <1>9, <1>10

-----------------------------------------------------------------------------
\* Free float.

\* Without work to be done as late as possible the post-pass leaves the dates as
\* all the links together ask for them.
NoAlap == \A a \in Node : ~IsAlap(a)

DatedUnlessAlap ==
  phase \in Passes /\ NoAlap =>
    \A a \in Node : ef[a] # None =>
      [s |-> es[a], f |-> ef[a]] = Granted(a, LinkBounds(a), net.dataDate)

\* The room link k leaves activity a before the start of its successor.
SlackOver(a, k) ==
  CountWorkingDays(Days(a), SnapStartForward(Days(a), ForwardBound(Link(k), es[a], ef[a])),
                   es[edges[k][2]])

\* The free float reported is no more than any link leaves.
SlacksMeasured ==
  /\ DOMAIN freeFloat = Node
  /\ phase \in {"float", "done"} =>
       \A i \in DOMAIN nodes :
         (phase = "done" \/ i < at) /\ Open(nodes[i]) =>
           \A k \in Successors(nodes[i]) :
             freeFloat[nodes[i]] \in Int /\ freeFloat[nodes[i]] <= SlackOver(nodes[i], k)

\* After the forward pass no step but the sliding of late work writes early dates.
LEMMA DatesStay ==
  ASSUME Structure, [CPMNext]_vars, phase' \in {"alap", "float", "done"}, NoAlap
  PROVE  phase \in {"backward", "alap", "float", "done"} /\ UNCHANGED <<es, ef>>
<1> USE DEF passVars, earlyVars, lateVars, floatVars, cpmVars, vars
<1>1. CASE Validate \/ Sort \/ StartForward
  BY <1>1 DEF Validate, Sort, StartForward
<1>2. CASE Forward
  BY <1>2 DEF Forward, ConsiderPredecessor, KeepActuals, PlaceEarly
<1>3. CASE SetDeadline
  BY <1>3 DEF SetDeadline
<1>4. CASE Backward
  BY <1>4 DEF Backward, ConsiderSuccessor, KeepActualsLate, PlaceLate
<1>5. CASE StartPostPass
  BY <1>5 DEF StartPostPass
<1>6. CASE SlideLate
  <2>1. PICK a : a = order[at]
    OBVIOUS
  <2>2. CASE MaySlide(a)
    <3>1. a \in Node
      BY <1>6, <2>1, ActivityAtPosition DEF SlideLate, Passes
    <3> QED BY <2>2, <3>1 DEF NoAlap, MaySlide
  <2>3. CASE ~MaySlide(a)
    BY <1>6, <2>1, <2>3 DEF SlideLate
  <2> QED BY <2>2, <2>3
<1>7. CASE StartFloat \/ MeasureFloat \/ Return
  BY <1>7 DEF StartFloat, MeasureFloat, Return
<1>8. CASE UNCHANGED vars
  BY <1>8
<1> QED BY <1>1, <1>2, <1>3, <1>4, <1>5, <1>6, <1>7, <1>8 DEF CPMNext, PostPass

\* The dates stay as asked to the end.
LEMMA DatedUnlessAlapHolds == CPMSpec => []DatedUnlessAlap
<1>1. CPMInit => DatedUnlessAlap
  BY DEF CPMInit, DatedUnlessAlap, Passes
<1>2. Structure /\ DatedUnlessAlap /\ DatedAsAsked' /\ [CPMNext]_vars => DatedUnlessAlap'
  <2> SUFFICES ASSUME Structure, DatedUnlessAlap, DatedAsAsked', [CPMNext]_vars
               PROVE  DatedUnlessAlap'
    OBVIOUS
  <2>1. net' = net /\ edges' = edges
    BY StepsKeepTheNetwork
  <2>2. CASE phase' \in {"forward", "backward"}
    BY <2>2 DEF DatedUnlessAlap, DatedAsAsked
  <2>3. CASE phase' \in {"alap", "float", "done"} /\ NoAlap
    <3>1. phase \in Passes /\ UNCHANGED <<es, ef>>
      BY <2>3, DatesStay DEF Passes
    <3>2. \A a : LinkBounds(a)' = LinkBounds(a)
      BY <2>1, <3>1 DEF LinkBounds, LinkBound, ForwardBound, AdvanceLag, LagDays, Link, Task, Days
    <3>3. \A a, B, s : Granted(a, B, s)' = Granted(a, B, s)
      BY <2>1 DEF Granted, AskedFor, Task, Days
    <3>4. ASSUME NEW a \in Node, ef[a] # None,
                 NEW B, B = LinkBounds(a)', NEW s, s = net.dataDate'
          PROVE  [s |-> es[a], f |-> ef[a]] = Granted(a, B, s)'
      <4>1. [s |-> es[a], f |-> ef[a]] = Granted(a, B, s)
        BY <2>1, <2>3, <3>1, <3>2, <3>4 DEF DatedUnlessAlap
      <4> QED BY <3>3, <4>1
    <3> QED BY <2>1, <3>1, <3>4 DEF DatedUnlessAlap
  <2>4. CASE phase' \notin Passes \/ ~NoAlap
    <3>1. NoAlap' <=> NoAlap
      BY <2>1 DEF NoAlap, IsAlap, Task
    <3> QED BY <2>4, <3>1 DEF DatedUnlessAlap
  <2> QED BY <2>2, <2>3, <2>4 DEF Passes
<1> QED BY <1>1, <1>2, StructureHolds, DatedAsAskedHolds, PTL DEF CPMSpec

\* Who writes free floats, and what they are measured from.
LEMMA WhoMeasuresSlack ==
  ASSUME [CPMNext]_vars
  PROVE  /\ MeasureFloat \/ UNCHANGED freeFloat
         /\ phase \in {"float", "done"} => UNCHANGED <<es, ef>>
<1> USE DEF passVars, earlyVars, lateVars, floatVars, cpmVars, vars
<1>1. CASE Validate \/ Sort \/ StartForward
  BY <1>1 DEF Validate, Sort, StartForward
<1>2. CASE Forward
  BY <1>2 DEF Forward, ConsiderPredecessor, KeepActuals, PlaceEarly
<1>3. CASE SetDeadline
  BY <1>3 DEF SetDeadline
<1>4. CASE Backward
  BY <1>4 DEF Backward, ConsiderSuccessor, KeepActualsLate, PlaceLate
<1>5. CASE StartPostPass
  BY <1>5 DEF StartPostPass
<1>6. CASE SlideLate \/ StartFloat
  BY <1>6 DEF SlideLate, StartFloat
<1>7. CASE MeasureFloat
  BY <1>7 DEF MeasureFloat
<1>8. CASE Return \/ UNCHANGED vars
  BY <1>8 DEF Return
<1> QED BY <1>1, <1>2, <1>3, <1>4, <1>5, <1>6, <1>7, <1>8 DEF CPMNext, PostPass

\* Every link out of an activity is heeded before the calculation returns.
LEMMA SlacksMeasuredStep ==
  ASSUME Structure, SlacksMeasured, [CPMNext]_vars, UNCHANGED nodes
  PROVE  SlacksMeasured'
<1>1. net' = net /\ edges' = edges
  BY StepsKeepTheNetwork
<1>2. /\ \A b : Open(b)' = Open(b) /\ Successors(b)' = Successors(b)
      /\ UNCHANGED <<es, ef>> => \A b, k : SlackOver(b, k)' = SlackOver(b, k)
  <2>1. \A b : /\ Open(b)' = Open(b) /\ Successors(b)' = Successors(b)
                /\ Days(b)' = Days(b) /\ Task(b)' = Task(b) /\ Link(b)' = Link(b)
    BY <1>1 DEF Open, Task, Successors, Days, Link
  <2>2. \A p, s : LagDays(p, s)' = LagDays(p, s)
    BY <1>1, <2>1 DEF LagDays
  <2>3. \A i, lag, space, lat : AdvanceLag(i, lag, space, lat)' = AdvanceLag(i, lag, space, lat)
    BY <1>1 DEF AdvanceLag
  <2>4. \A l, s, f : ForwardBound(l, s, f)' = ForwardBound(l, s, f)
    BY <2>1, <2>2, <2>3 DEF ForwardBound
  <2>5. ASSUME UNCHANGED <<es, ef>>, NEW b, NEW k
        PROVE  SlackOver(b, k)' = SlackOver(b, k)
    <3>1. PICK l, s, f : l = Link(k) /\ s = es[b] /\ f = ef[b]
      OBVIOUS
    <3>2. ForwardBound(Link(k), es[b], ef[b])' = ForwardBound(Link(k), es[b], ef[b])
      BY <2>1, <2>4, <2>5, <3>1
    <3> QED BY <1>1, <2>1, <2>5, <3>2 DEF SlackOver
  <2> QED BY <2>1, <2>5
<1>3. /\ Len(nodes) \in Nat /\ DOMAIN nodes = 1..Len(nodes) /\ at \in Nat
      /\ \A i \in DOMAIN nodes : nodes[i] \in Node /\ i \in Nat /\ i >= 1 /\ i <= Len(nodes)
  <2>1. nodes \in Seq(Node) /\ at \in Nat
    BY DEF Structure, KahnInv, IsGraph, DatesTyped
  <2>2. Len(nodes) \in Nat /\ DOMAIN nodes = 1..Len(nodes)
    BY <2>1, LenProperties
  <2>3. ASSUME NEW i \in DOMAIN nodes
        PROVE  nodes[i] \in Node /\ i \in Nat /\ i >= 1 /\ i <= Len(nodes)
    <3>1. i \in Nat /\ i >= 1 /\ i <= Len(nodes) /\ i \in 1..Len(nodes)
      BY <2>2, <2>3
    <3>2. nodes[i] \in Node
      BY <2>1, <3>1, ElementOfSeq
    <3> QED BY <3>1, <3>2
  <2> QED BY <2>1, <2>2, <2>3
<1>4. CASE phase = "float" /\ MeasureFloat
  <2>1. PICK a : a = nodes[at]
    OBVIOUS
  <2>2. /\ at <= Len(nodes) /\ at' = at + 1 /\ phase' = "float" /\ UNCHANGED <<es, ef>>
        /\ IsComplete(Task(a)) => UNCHANGED freeFloat
        /\ ~IsComplete(Task(a)) =>
             \E slack \in Slacks(a) : /\ \A s \in Slacks(a) : slack <= s
                                      /\ freeFloat' = [freeFloat EXCEPT ![a] = slack]
    BY <1>4, <2>1 DEF MeasureFloat, floatVars, earlyVars, lateVars
  <2>3. DOMAIN freeFloat' = Node
    BY <2>2 DEF SlacksMeasured
  <2>4. ASSUME NEW i \in DOMAIN nodes, i < at', Open(nodes[i]), NEW b, b = nodes[i],
               NEW k \in Successors(b)
        PROVE  freeFloat'[b] \in Int /\ freeFloat'[b] <= SlackOver(b, k)
    <3>1. CASE b = a
      <4>1. PICK slack \in Slacks(a) : /\ \A s \in Slacks(a) : slack <= s
                                       /\ freeFloat' = [freeFloat EXCEPT ![a] = slack]
        BY <2>2, <2>4, <3>1 DEF Open, IsComplete
      <4>2. Slacks(a) = {SlackOver(a, j) : j \in Successors(a)}
        BY <2>4, <3>1 DEF Slacks, SlackOver
      <4>3. IsLattice(Days(a)) /\ b \in Node
        BY <1>3, <2>4, <3>1, ActivityFacts DEF Structure, NetworkFixed
      <4>4. slack \in Int
        BY <4>1, <4>2, <4>3, CountIsInteger DEF SlackOver
      <4>5. freeFloat'[b] = slack /\ SlackOver(b, k) \in Slacks(a)
        BY <2>4, <3>1, <4>1, <4>2, <4>3 DEF SlacksMeasured
      <4> QED BY <4>1, <4>4, <4>5
    <3>2. CASE b # a
      <4>1. i < at
        BY <1>3, <2>1, <2>2, <2>4, <3>2
      <4>2. freeFloat[b] \in Int /\ freeFloat[b] <= SlackOver(b, k)
        BY <1>4, <2>4, <4>1 DEF SlacksMeasured
      <4> QED BY <1>3, <2>2, <2>4, <3>2, <4>2 DEF SlacksMeasured
    <3> QED BY <3>1, <3>2
  <2> QED BY <1>2, <2>2, <2>3, <2>4 DEF SlacksMeasured
<1>5. CASE UNCHANGED freeFloat
  <2> SUFFICES ASSUME phase' \in {"float", "done"}, NEW i \in DOMAIN nodes,
                      phase' = "done" \/ i < at', Open(nodes[i]), NEW b, b = nodes[i],
                      NEW k \in Successors(b)
               PROVE  freeFloat[b] \in Int /\ freeFloat[b] <= SlackOver(b, k)'
    BY <1>2, <1>5 DEF SlacksMeasured
  <2>1. CASE phase \in {"float", "done"} /\ (phase = "done" \/ i < at)
    <3>1. freeFloat[b] \in Int /\ freeFloat[b] <= SlackOver(b, k)
      BY <2>1 DEF SlacksMeasured
    <3>2. UNCHANGED <<es, ef>>
      BY <2>1, WhoMeasuresSlack
    <3> QED BY <1>2, <3>1, <3>2
  <2>2. CASE ~(phase \in {"float", "done"} /\ (phase = "done" \/ i < at))
    <3>1. phase' = "done" => phase = "float" /\ at = Len(nodes) + 1
      BY <2>2, WhoMeasures
    <3>2. ~(phase' = "done")
      BY <1>3, <2>2, <3>1
    <3>3. phase' = "float" /\ ~(at' = at /\ phase = "float") /\ ~(at' = 1)
      BY <1>3, <2>2, <3>2
    <3>4. phase = "float" /\ MeasureFloat
      BY <3>3, WhoMeasures
    <3>5. SlacksMeasured'
      BY <1>4, <3>4
    <3> QED BY <1>2, <1>5, <3>2, <3>5 DEF SlacksMeasured
  <2> QED BY <2>1, <2>2
<1> QED BY <1>4, <1>5, WhoMeasuresSlack DEF MeasureFloat

\* So in every run.
LEMMA SlacksMeasuredHolds == CPMSpec => []SlacksMeasured
<1>1. CPMInit => SlacksMeasured
  BY DEF CPMInit, SlacksMeasured
<1>2. Structure /\ SlacksMeasured /\ [CPMNext]_vars => SlacksMeasured'
  <2>1. [CPMNext]_vars => UNCHANGED nodes
    <3>1. [KahnNext]_kahnVars => UNCHANGED nodes
      BY DEF KahnNext, Seed, StartLoop, Dequeue, Release, Finish, Walk, WalkEnds, kahnVars
    <3> QED BY <3>1, StepsKeepTheNetwork
  <2> QED BY <2>1, SlacksMeasuredStep
<1> QED BY <1>1, <1>2, StructureHolds, PTL DEF CPMSpec

\* Bounds that rise, but not past the start granted, leave it as it was.
LEMMA GrantedBetween ==
  ASSUME IsNetwork, NEW a \in Node, ~IsComplete(Task(a)), Task(a).constraint = "none",
         NEW X \in SUBSET Int, IsFiniteSet(X), NEW Y \in SUBSET Int, IsFiniteSet(Y),
         X = {} <=> Y = {}, \A x \in X : \E y \in Y : x <= y, NEW s \in Int,
         Granted(a, X, s).s \in Days(a),
         \A y \in Y : y \in X \/ y <= Granted(a, X, s).s
  PROVE  Granted(a, Y, s) = Granted(a, X, s)
<1> DEFINE S == AskedFor(a, X) \cup {s}
           T == AskedFor(a, Y) \cup {s}
<1>1. S \in SUBSET Int /\ IsGreatest(S, Greatest(S))
  BY AskedHasLatest
<1>2. T \in SUBSET Int /\ IsGreatest(T, Greatest(T))
  BY AskedHasLatest
<1>3. PICK lat : lat = Days(a) /\ IsLattice(lat)
  BY ActivityFacts
<1>4. PICK e \in lat : e = Granted(a, X, s).s
  BY <1>3
<1>5. e \in Int
  BY <1>3 DEF IsLattice
<1>6. \A B : Granted(a, B, s) =
               [s |-> SnapStartForward(lat, Greatest(AskedFor(a, B) \cup {s})),
                f |-> FinishFromStart(lat, SnapStartForward(lat, Greatest(AskedFor(a, B) \cup {s})),
                                      Duration(Task(a)))]
  BY <1>3 DEF Granted
<1>7. e = SnapStartForward(lat, Greatest(S))
  BY <1>4, <1>6
<1>8. /\ \A x \in S : \E y \in T : x <= y
      /\ \A y \in T : y \in S \/ y <= e
  <2>1. PICK R : \A B : AskedFor(a, B) = B \cup R \cup (IF B = {} THEN {Task(a).start} \ {None} ELSE {})
    <3>1. EarlyFloor(Days(a), Task(a)) = None /\ Task(a).constraint \notin Mandatory
      BY DEF EarlyFloor, HasConstraint, Mandatory
    <3>2. \A B : AskedFor(a, B) = B \cup {net.dataDate}
                                    \cup (IF B = {} THEN {Task(a).start} \ {None} ELSE {})
      BY <3>1 DEF AskedFor
    <3> QED BY <3>2
  <2>2. S = X \cup R \cup (IF X = {} THEN {Task(a).start} \ {None} ELSE {}) \cup {s}
    BY <2>1
  <2>3. T = Y \cup R \cup (IF X = {} THEN {Task(a).start} \ {None} ELSE {}) \cup {s}
    BY <2>1
  <2>4. \A x \in S : x \in X \/ x \in T
    BY <2>2, <2>3
  <2>5. \A x \in S : x <= x
    BY <1>1
  <2>6. Y \subseteq T
    BY <2>3
  <2>7. \A y \in T : y \in Y \/ y \in S
    BY <2>2, <2>3
  <2>8. X \subseteq S
    BY <2>2
  <2> HIDE DEF S, T
  <2>9. \A y \in T : y \in S \/ y <= e
    BY <1>4, <2>7, <2>8
  <2> QED BY <2>4, <2>5, <2>6, <2>9
<1> HIDE DEF S, T
<1>9. PICK x \in Int : x = Greatest(S) /\ x \in S /\ \A z \in S : z <= x
  BY <1>1 DEF IsGreatest
<1>10. PICK y \in Int : y = Greatest(T) /\ y \in T /\ \A z \in T : z <= y
  BY <1>2 DEF IsGreatest
<1>11. x <= e
  BY <1>3, <1>7, <1>9, SnapForwardMovesForward
<1>12. x <= y /\ y <= e
  <2>1. \A z \in T : z \in Int
    BY <1>2
  <2>2. PICK z \in T : x <= z
    BY <1>8, <1>9
  <2>3. x <= y
    BY <1>10, <2>1, <2>2
  <2>4. y \in S => y <= e
    BY <1>5, <1>9, <1>11
  <2> QED BY <1>8, <1>10, <2>3, <2>4
<1>13. SnapStartForward(lat, y) = e
  <2>1. SnapStartForward(lat, e) = e
    BY <1>3, WorkingInstantsStay
  <2>2. SnapStartForward(lat, x) <= SnapStartForward(lat, y)
        /\ SnapStartForward(lat, y) <= SnapStartForward(lat, e)
    BY <1>3, <1>5, <1>12, SnapForwardGrows
  <2>3. SnapStartForward(lat, y) \in Int
    BY <1>3, SnapForwardMovesForward
  <2> QED BY <1>5, <1>7, <1>9, <2>1, <2>2, <2>3
<1> QED BY <1>6, <1>7, <1>9, <1>10, <1>13 DEF S, T

\* A delay to a working day no earlier than the start granted is granted.
LEMMA GrantedDelay ==
  ASSUME IsNetwork, NEW a \in Node, ~IsComplete(Task(a)),
         NEW X \in SUBSET Int, IsFiniteSet(X), NEW s \in Int,
         NEW t \in Days(a), Granted(a, X, s).s <= t
  PROVE  Granted(a, X, t) = [s |-> t, f |-> FinishFromStart(Days(a), t, Duration(Task(a)))]
<1>1. PICK lat : lat = Days(a) /\ IsLattice(lat)
  BY ActivityFacts
<1>2. t \in Int
  BY <1>1 DEF IsLattice
<1>3. PICK S : S = AskedFor(a, X) \cup {s}
  OBVIOUS
<1>4. PICK T : T = AskedFor(a, X) \cup {t}
  OBVIOUS
<1>5. S \in SUBSET Int /\ IsGreatest(S, Greatest(S))
  BY <1>3, AskedHasLatest
<1>6. PICK x \in Int : x = Greatest(S) /\ \A z \in S : z <= x
  BY <1>5 DEF IsGreatest
<1>7. Granted(a, X, s).s = SnapStartForward(lat, x)
  BY <1>1, <1>3, <1>6 DEF Granted
<1>8. x <= t
  <2>1. SnapStartForward(lat, x) \in Int /\ SnapStartForward(lat, x) >= x
    BY <1>1, SnapForwardMovesForward
  <2> QED BY <1>2, <1>7, <2>1
<1>9. T \in SUBSET Int /\ IsGreatest(T, t)
  <2>1. \A z \in T : z = t \/ z \in S
    BY <1>3, <1>4
  <2>2. \A z \in S : z \in Int /\ z <= t
    BY <1>2, <1>5, <1>6, <1>8
  <2> QED BY <1>2, <1>4, <2>1, <2>2 DEF IsGreatest
<1>10. Greatest(T) = t
  BY <1>9, GreatestIs
<1>11. SnapStartForward(lat, t) = t
  BY <1>1, WorkingInstantsStay
<1> QED BY <1>1, <1>4, <1>10, <1>11 DEF Granted

\* On one calendar an activity that slips by no more than every link out of it
\* leaves moves no other: a bound slips by as many positions as the activity does,
\* and the argument goes by the first activity of the order that would move.
LEMMA SlipMovesNoOther ==
  ASSUME Structure, phase \in Passes, Plain, OneCalendar,
         NEW a \in Node, NEW n \in Nat, NEW delay, NEW D, NEW F,
         Solves(edges, NoDelay, D), Solves(edges, delay, F),
         RunInWindow(edges, D), RunInWindow(edges, F),
         \A b \in Node : /\ D[b].s \in Days(b) /\ D[b].f \in Int
                         /\ ~IsComplete(Task(b)) =>
                              D[b].f = FinishFromStart(Days(b), D[b].s, Duration(Task(b)))
                         /\ b # a => delay[b] = NoDelay[b],
         Lands(Days(a), D[a].s, n), delay[a] = AddWorkingDays(Days(a), D[a].s, n),
         \A k \in Successors(a) :
           n <= CountWorkingDays(Days(a),
                  SnapStartForward(Days(a), ForwardBound(Link(k), D[a].s, D[a].f)),
                  D[edges[k][2]].s)
  PROVE  \A b \in Node \ {a} : F[b] = D[b]
<1>1. /\ Len(order) \in Nat /\ DOMAIN order = 1..Len(order)
      /\ \A j \in DOMAIN order : order[j] \in Node
      /\ \A b \in Node : \E j \in DOMAIN order : order[j] = b
      /\ \A k \in DOMAIN edges : \A j \in DOMAIN order :
           order[j] = edges[k][2] => \E i \in DOMAIN order : i < j /\ order[i] = edges[k][1]
      /\ \A i, j \in DOMAIN order : order[i] = order[j] => i = j
  BY OrderFacts DEF Structure, PhaseOrder
<1>2. IsNetwork /\ PartOfTheLinks(edges) /\ net.dataDate \in Int
  BY DEF Structure, NetworkFixed, PartOfTheLinks, IsNetwork
<1>3. PICK lat : IsLattice(lat) /\ \A b \in Node : Days(b) = lat
  <2>1. \A b \in Node : Days(b) = Days(a) /\ IsLattice(Days(a))
    BY <1>2, ActivityFacts DEF OneCalendar, Days
  <2> QED BY <2>1
<1>4. \A b \in Node : /\ ~IsComplete(Task(b)) /\ Task(b).constraint = "none"
                      /\ Duration(Task(b)) \in Int /\ Duration(Task(b)) > 0
  <2> SUFFICES ASSUME NEW b \in Node
               PROVE  /\ ~IsComplete(Task(b)) /\ Task(b).constraint = "none"
                      /\ Duration(Task(b)) \in Int /\ Duration(Task(b)) > 0
    OBVIOUS
  <2>1. Task(b).start = None /\ Task(b).dur > 0 /\ Task(b).constraint = "none"
    BY DEF Plain
  <2>2. IsTask(Task(b)) /\ Duration(Task(b)) \in Int
    BY <1>2, ActivityFacts
  <2> QED BY <2>1, <2>2 DEF IsTask, IsComplete, Duration, IsStarted
<1>5. PICK s \in lat : s = D[a].s
  BY <1>3
<1>6. PICK t \in lat : t = delay[a] /\ BisectLeft(lat, t) = BisectLeft(lat, s) + n
  BY <1>3, <1>5, AddLands
<1>7. s \in Int /\ t \in Int /\ s <= t /\ BisectLeft(lat, s) \in Nat
  <2>1. s \in Int /\ t \in Int
    BY <1>3 DEF IsLattice
  <2>2. t >= s
    BY <1>3, <1>5, <1>6, <2>1, AddingMovesForward
  <2>3. BisectLeft(lat, s) \in Nat
    BY <1>3, PositionsCount
  <2> QED BY <2>1, <2>2, <2>3
<1> DEFINE c == Duration(Task(a))
           As(b) == IF b = a THEN F[a] = [s |-> t, f |-> FinishFromStart(lat, t, c)]
                    ELSE F[b] = D[b]
           Bad == {i \in DOMAIN order : ~As(order[i])}
<1>8. ASSUME NEW j \in DOMAIN order, \A i \in DOMAIN order : i < j => As(order[i]),
             NEW b \in Node, b = order[j]
      PROVE  As(b)
  <2> DEFINE X == BoundsInto(edges, b, D)
             Y == BoundsInto(edges, b, F)
  <2>1. ASSUME NEW k \in DOMAIN edges, edges[k][2] = b
        PROVE  As(edges[k][1]) /\ edges[k][1] # b /\ edges[k][1] \in Node
    <3>1. PICK i \in DOMAIN order : i < j /\ order[i] = edges[k][1]
      BY <1>1, <1>8, <2>1
    <3>2. i # j
      BY <1>1, <3>1
    <3>3. As(order[i])
      BY <1>8, <3>1
    <3>4. order[i] # order[j] /\ order[i] \in Node
      BY <1>1, <3>2
    <3> HIDE DEF As
    <3> QED BY <1>8, <3>1, <3>3, <3>4
  <2>2. FinishFromStart(lat, t, c) \in Int
    BY <1>3, <1>4, <1>7, SpansAreInstants
  <2>3. \A p \in Node : D[p].s \in Int /\ D[p].f \in Int
    BY <1>3 DEF IsLattice
  <2>4. X \in SUBSET Int /\ IsFiniteSet(X)
    <3>1. \A k \in DOMAIN edges : edges[k][2] = b => D[edges[k][1]].s \in Int /\ D[edges[k][1]].f \in Int
      BY <2>1, <2>3
    <3> QED BY <1>2, <3>1, BoundsAreInstants
  <2>5. Y \in SUBSET Int /\ IsFiniteSet(Y)
    <3>1. \A k \in DOMAIN edges : edges[k][2] = b => F[edges[k][1]].s \in Int /\ F[edges[k][1]].f \in Int
      <4> SUFFICES ASSUME NEW k \in DOMAIN edges, edges[k][2] = b
                   PROVE  F[edges[k][1]].s \in Int /\ F[edges[k][1]].f \in Int
        OBVIOUS
      <4>1. PICK p \in Node : p = edges[k][1] /\ As(p)
        BY <2>1
      <4>2. CASE p = a
        <5>1. F[p] = [s |-> t, f |-> FinishFromStart(lat, t, c)]
          BY <4>1, <4>2
        <5> QED BY <1>7, <2>2, <4>1, <5>1
      <4>3. CASE p # a
        BY <2>3, <4>1, <4>3
      <4> QED BY <4>2, <4>3
    <3> QED BY <1>2, <3>1, BoundsAreInstants
  <2>6. D[b] = Granted(b, X, net.dataDate)
    BY DEF Solves, NoDelay
  <2>7. F[b] = Granted(b, Y, delay[b])
    BY DEF Solves
  <2>8. ASSUME NEW k \in DOMAIN edges, edges[k][2] = b, edges[k][1] # a
        PROVE  ForwardBound(Link(k), F[edges[k][1]].s, F[edges[k][1]].f)
                 = ForwardBound(Link(k), D[edges[k][1]].s, D[edges[k][1]].f)
    BY <2>1, <2>8
  <2>9. CASE b = a
    <3>1. X = Y
      <4>1. \A k \in DOMAIN edges : edges[k][2] = b =>
              ForwardBound(Link(k), F[edges[k][1]].s, F[edges[k][1]].f)
                = ForwardBound(Link(k), D[edges[k][1]].s, D[edges[k][1]].f)
        BY <2>1, <2>8, <2>9
      <4> QED BY <4>1 DEF BoundsInto
    <3> HIDE DEF X, Y
    <3>2. Granted(a, X, net.dataDate).s <= t
      BY <1>5, <1>7, <2>6, <2>9
    <3>3. Granted(a, X, t) = [s |-> t, f |-> FinishFromStart(Days(a), t, Duration(Task(a)))]
      BY <1>2, <1>3, <1>4, <2>4, <3>2, GrantedDelay
    <3> QED BY <1>3, <1>6, <2>7, <2>9, <3>1, <3>3
  <2>10. CASE b # a
    <3>1. ASSUME NEW k \in DOMAIN edges, edges[k][2] = b, edges[k][1] = a,
                 NEW x, x = ForwardBound(Link(k), D[a].s, D[a].f),
                 NEW y, y = ForwardBound(Link(k), F[a].s, F[a].f)
          PROVE  x <= y /\ y <= D[b].s
      <4>1. PICK l \in ALink : l = Link(k) /\ l.pred = a /\ l.succ = b
        BY <3>1, EdgeFacts DEF Structure
      <4>2. F[a] = [s |-> t, f |-> FinishFromStart(lat, t, c)]
        BY <2>1, <3>1
      <4>3. PICK f \in Int : f = D[a].f /\ f = FinishFromStart(lat, s, c)
        BY <1>3, <1>4, <1>5
      <4>4. PICK g \in Int : g = F[a].f /\ g = FinishFromStart(lat, t, c) /\ F[a].s = t
        BY <2>2, <4>2
      <4>5. BoundLands(l, s, f) /\ BoundLands(l, t, g)
        BY <1>5, <3>1, <4>1, <4>3, <4>4 DEF RunInWindow
      <4>6. SpanLands(lat, s, c) /\ SpanLands(lat, t, c)
        BY <1>3, <1>4, <1>5, <4>4 DEF RunInWindow
      <4>7. f <= g
        BY <1>3, <1>4, <1>7, <4>3, <4>4, <4>6, SpansGrow
      <4>8. x = ForwardBound(l, s, f) /\ y = ForwardBound(l, t, g)
        BY <1>5, <3>1, <4>1, <4>3, <4>4
      <4>9. x <= y
        BY <1>2, <1>7, <4>5, <4>7, <4>8, ForwardBoundGrows
      <4>10. x \in Int /\ y \in Int
        BY <1>2, <1>7, <4>8, ForwardBoundIsInteger
      <4>11. /\ l.type # "SF" /\ (l.lag = 0 \/ net.lagCalendar \in {"predecessor", "successor"})
             /\ lat = Days(l.pred) /\ lat = Days(l.succ)
             /\ Duration(Task(l.pred)) = c /\ c > 0 /\ Duration(Task(l.succ)) > 0
        BY <1>3, <1>4, <3>1, <4>1 DEF Plain, OneCalendar, LagsStayOnOneCalendar
      <4>12. BisectLeft(lat, x) = BisectLeft(lat, s) + Shift(l)
        BY <1>2, <4>3, <4>5, <4>6, <4>8, <4>11, BoundPosition
      <4>13. BisectLeft(lat, y) = BisectLeft(lat, t) + Shift(l)
        <5>1. /\ g = FinishFromStart(lat, t, Duration(Task(l.pred)))
              /\ SpanLands(lat, t, Duration(Task(l.pred))) /\ BoundLands(l, t, g)
              /\ Duration(Task(l.pred)) > 0
          BY <4>4, <4>5, <4>6, <4>11
        <5>2. BisectLeft(lat, ForwardBound(l, t, g)) = BisectLeft(lat, t) + Shift(l)
          BY <1>2, <4>11, <5>1, BoundPosition
        <5> QED BY <4>8, <5>2
      <4>14. Shift(l) \in Int
        BY <1>4, <4>1, <4>11 DEF Shift, ALink
      <4>15. PICK e \in lat : e = D[b].s
        BY <1>3
      <4>16. n <= CountWorkingDays(lat, SnapStartForward(lat, x), e)
        BY <1>3, <1>5, <3>1, <4>15 DEF Successors
      <4>17. BisectLeft(lat, SnapStartForward(lat, x)) = BisectLeft(lat, x)
        BY <1>3, <4>10, SnapSkipsNothing
      <4>18. BisectLeft(lat, y) <= BisectLeft(lat, e)
        <5>1. BisectLeft(lat, x) \in Nat /\ BisectLeft(lat, e) \in Nat /\ BisectLeft(lat, y) \in Nat
          BY <1>3, PositionsCount
        <5>2. BisectLeft(lat, y) = BisectLeft(lat, x) + n
          BY <1>6, <1>7, <4>12, <4>13, <4>14
        <5> QED BY <4>16, <4>17, <5>1, <5>2 DEF CountWorkingDays
      <4>19. e \in Int /\ (e < y => BisectLeft(lat, e) < BisectLeft(lat, y))
        <5>1. e \in Int
          BY <1>3 DEF IsLattice
        <5> QED BY <1>3, <4>10, <5>1, PositionsGrow
      <4>20. BisectLeft(lat, e) \in Nat /\ BisectLeft(lat, y) \in Nat
        BY <1>3, PositionsCount
      <4> QED BY <4>9, <4>10, <4>15, <4>18, <4>19, <4>20
    <3>2. X = {} <=> Y = {}
      BY DEF BoundsInto
    <3>3. \A x \in X : \E y \in Y : x <= y
      <4>1. ASSUME NEW k \in DOMAIN edges, edges[k][2] = b
            PROVE  ForwardBound(Link(k), D[edges[k][1]].s, D[edges[k][1]].f)
                     <= ForwardBound(Link(k), F[edges[k][1]].s, F[edges[k][1]].f)
        <5>1. ForwardBound(Link(k), D[edges[k][1]].s, D[edges[k][1]].f) \in Int
          BY <2>4, <4>1 DEF BoundsInto
        <5> QED BY <2>8, <3>1, <4>1, <5>1
      <4> QED BY <4>1 DEF BoundsInto
    <3>4. \A y \in Y : y \in X \/ y <= D[b].s
      <4>1. ASSUME NEW k \in DOMAIN edges, edges[k][2] = b,
                   NEW y, y = ForwardBound(Link(k), F[edges[k][1]].s, F[edges[k][1]].f)
            PROVE  y \in X \/ y <= D[b].s
        <5>1. CASE edges[k][1] = a
          BY <3>1, <4>1, <5>1
        <5>2. CASE edges[k][1] # a
          BY <2>8, <4>1, <5>2 DEF BoundsInto
        <5> QED BY <5>1, <5>2
      <4> HIDE DEF X
      <4> QED BY <4>1 DEF BoundsInto
    <3> HIDE DEF X, Y
    <3>5. delay[b] = net.dataDate
      BY <2>10 DEF NoDelay
    <3>6. Granted(b, X, net.dataDate).s \in Days(b)
      BY <2>6
    <3>7. \A y \in Y : y \in X \/ y <= Granted(b, X, net.dataDate).s
      BY <2>6, <3>4
    <3>8. Granted(b, Y, net.dataDate) = Granted(b, X, net.dataDate)
      BY <1>2, <1>4, <2>4, <2>5, <3>2, <3>3, <3>6, <3>7, GrantedBetween
    <3> QED BY <2>6, <2>7, <2>10, <3>5, <3>8
  <2> QED BY <2>9, <2>10
<1> HIDE DEF As
<1>9. Bad = {}
  <2> SUFFICES ASSUME Bad # {} PROVE FALSE
    OBVIOUS
  <2>1. Bad \in SUBSET Int /\ IsFiniteSet(Bad)
    <3>1. Bad \in SUBSET (1..Len(order))
      BY <1>1
    <3>2. IsFiniteSet(1..Len(order))
      <4>1. 1 \in Int /\ Len(order) \in Int
        BY <1>1
      <4> QED BY <4>1, FS_Interval
    <3> HIDE DEF Bad
    <3>3. IsFiniteSet(Bad)
      BY <3>1, <3>2, FS_Subset
    <3>4. \A i \in 1..Len(order) : i \in Int
      OBVIOUS
    <3> QED BY <3>1, <3>3, <3>4
  <2> HIDE DEF Bad
  <2>2. PICK j \in Bad : \A i \in Bad : j <= i
    BY <2>1, HasLeast
  <2>3. j \in DOMAIN order /\ ~As(order[j]) /\ order[j] \in Node
    BY <1>1 DEF Bad
  <2>4. ASSUME NEW i \in DOMAIN order, i < j PROVE As(order[i])
    <3>1. i \notin Bad
      BY <1>1, <2>2, <2>3, <2>4
    <3> QED BY <3>1 DEF Bad
  <2> QED BY <1>8, <2>3, <2>4
<1>10. \A b \in Node : As(b)
  BY <1>1, <1>9
<1> QED BY <1>10 DEF As

\* The dates on one calendar lie on it, and neither the calculation nor a run in
\* which an activity slips by its free float leaves the window.
FreeFloatInWindow ==
  phase = "done" /\ Plain /\ OneCalendar =>
    /\ RunInWindow(edges, EarlyDates)
    /\ \A a \in Node : es[a] \in Days(a)
    /\ \A a \in Node : Successors(a) # {} /\ freeFloat[a] >= 0 =>
         /\ Lands(Days(a), es[a], freeFloat[a])
         /\ RunInWindow(edges, Rerun(Delayed(a, freeFloat[a])))

\* An activity that slips by its free float moves no other activity, whatever the
\* network: links of every kind but start-to-finish, with leads and lags, over any
\* one calendar (cpm.py:561-597).
THEOREM FreeFloatIsFree == CPMSpec => [](FreeFloatInWindow => FreeFloatCanBeSpent)
<1>1. Structure /\ DatedUnlessAlap /\ SlacksMeasured => (FreeFloatInWindow => FreeFloatCanBeSpent)
  <2> SUFFICES ASSUME Structure, DatedUnlessAlap, SlacksMeasured, FreeFloatInWindow,
                      phase = "done", Plain, OneCalendar,
                      NEW a \in Node, Successors(a) # {}, freeFloat[a] >= 0,
                      NEW b \in Node \ {a}
               PROVE  Rerun(Delayed(a, freeFloat[a]))[b] = [s |-> es[b], f |-> ef[b]]
    BY DEF FreeFloatCanBeSpent
  <2>1. /\ phase \in Passes /\ IsNetwork /\ net.dataDate \in Int
        /\ PartOfTheLinks(edges)
    BY DEF Passes, Structure, NetworkFixed, IsNetwork, PartOfTheLinks
  <2>2. \A p \in Node : /\ es[p] \in Int /\ ef[p] \in Int /\ ef[p] # None
                        /\ EarlyDates[p].s = es[p] /\ EarlyDates[p].f = ef[p]
                        /\ EarlyDates[p] = [s |-> es[p], f |-> ef[p]]
    BY DEF Structure, PhaseOrder, DatesTyped, Passes, MaybeInt, EarlyDates
  <2>3. NoAlap /\ \A p \in Node : Open(p)
    <3>1. NoAlap
      BY DEF NoAlap, IsAlap, Plain
    <3>2. ASSUME NEW p \in Node PROVE Task(p).finish = None
      <4>1. Task(p).start = None /\ IsTask(Task(p))
        BY <2>1, ActivityFacts DEF Plain
      <4> QED BY <4>1 DEF IsTask
    <3> QED BY <3>1, <3>2 DEF Open
  <2>4. PICK n : n = freeFloat[a]
    OBVIOUS
  <2>5. n \in Nat /\ \A k \in Successors(a) : n <= SlackOver(a, k)
    <3>1. \E i \in DOMAIN nodes : nodes[i] = a
      BY DEF Structure, KahnInv, IsGraph, Elements
    <3>2. \A k \in Successors(a) : freeFloat[a] \in Int /\ freeFloat[a] <= SlackOver(a, k)
      BY <2>3, <3>1 DEF SlacksMeasured
    <3>3. n \in Int
      BY <2>4, <3>2
    <3> QED BY <2>4, <3>2, <3>3
  <2>6. PICK delay : delay = Delayed(a, n)
    OBVIOUS
  <2>7. /\ delay[a] = AddWorkingDays(Days(a), es[a], n)
        /\ \A p \in Node : p # a => delay[p] = NoDelay[p]
    BY <2>6 DEF Delayed, NoDelay
  <2>8. PICK F : F = RerunOver(edges, delay)
    OBVIOUS
  <2>9. Solves(edges, delay, F)
    BY <2>1, <2>8, RerunSolves DEF Solves
  <2>10. PICK D : D = EarlyDates
    OBVIOUS
  <2>11. Solves(edges, NoDelay, D)
    <3>1. ASSUME NEW p \in Node PROVE BoundsInto(edges, p, EarlyDates) = LinkBounds(p)
      <4>1. \A k \in DOMAIN edges : edges[k][1] \in Node
        BY EdgeFacts DEF Structure
      <4>2. \A k \in DOMAIN edges :
              LinkBound(k) = ForwardBound(Link(k), EarlyDates[edges[k][1]].s, EarlyDates[edges[k][1]].f)
        BY <2>2, <4>1 DEF LinkBound
      <4> QED BY <4>2 DEF BoundsInto, LinkBounds
    <3>2. \A p \in Node : [s |-> es[p], f |-> ef[p]] = Granted(p, LinkBounds(p), NoDelay[p])
      BY <2>1, <2>2, <2>3 DEF DatedUnlessAlap, NoDelay
    <3> QED BY <2>2, <2>10, <3>1, <3>2 DEF Solves
  <2>12. /\ RunInWindow(edges, D) /\ RunInWindow(edges, F)
         /\ Lands(Days(a), D[a].s, n)
         /\ \A p \in Node : D[p].s \in Days(p)
    BY <2>2, <2>4, <2>6, <2>8, <2>10 DEF FreeFloatInWindow, Rerun
  <2>13. ASSUME NEW p \in Node
         PROVE  /\ D[p].s \in Days(p) /\ D[p].f \in Int
                /\ ~IsComplete(Task(p)) =>
                     D[p].f = FinishFromStart(Days(p), D[p].s, Duration(Task(p)))
                /\ p # a => delay[p] = NoDelay[p]
    <3>1. ~IsComplete(Task(p)) =>
            D[p].f = FinishFromStart(Days(p), D[p].s, Duration(Task(p)))
      <4>1. PICK B : D[p] = Granted(p, B, NoDelay[p])
        BY <2>11 DEF Solves
      <4>2. PICK s : s = SnapStartForward(Days(p), Greatest(AskedFor(p, B) \cup {NoDelay[p]}))
        OBVIOUS
      <4>3. ~IsComplete(Task(p)) =>
              D[p] = [s |-> s, f |-> FinishFromStart(Days(p), s, Duration(Task(p)))]
        BY <4>1, <4>2 DEF Granted
      <4> QED BY <4>3
    <3> QED BY <2>2, <2>7, <2>10, <2>12, <3>1
  <2>14. \A k \in Successors(a) :
           n <= CountWorkingDays(Days(a),
                  SnapStartForward(Days(a), ForwardBound(Link(k), D[a].s, D[a].f)),
                  D[edges[k][2]].s)
    <3>1. \A k \in Successors(a) : edges[k][2] \in Node
      BY EdgeFacts DEF Structure, Successors
    <3> QED BY <2>2, <2>5, <2>10, <3>1 DEF SlackOver
  <2>15. delay[a] = AddWorkingDays(Days(a), D[a].s, n)
    BY <2>2, <2>7, <2>10
  <2>16. F[b] = D[b]
    BY <2>1, <2>5, <2>9, <2>11, <2>12, <2>13, <2>14, <2>15, SlipMovesNoOther
  <2> QED BY <2>2, <2>4, <2>6, <2>8, <2>10, <2>16 DEF Rerun
<1> QED BY <1>1, StructureHolds, DatedUnlessAlapHolds, SlacksMeasuredHolds, PTL

-----------------------------------------------------------------------------
\* Types.

\* The calendars reach past the dates that were computed: there is a working day
\* no earlier than each early start and one no later than each late start.  Off the
\* window the code raises TimeAxisWindowError, and the model returns its argument.
CalendarsReach ==
  \A a \in Node : Open(a) =>
    /\ es[a] # None => \E w \in Days(a) : es[a] <= w
    /\ ls[a] # None /\ Duration(Task(a)) > 0 => \E w \in Days(a) : w <= ls[a]

\* A start is a working day unless its calendar has come to an end.
StartsSnapped ==
  /\ \A a \in Node : Open(a) /\ es[a] # None =>
       es[a] \in Days(a) \/ (\A w \in Days(a) : w < es[a])
  /\ \A a \in Node : Open(a) /\ ls[a] # None /\ Duration(Task(a)) > 0 =>
       ls[a] \in Days(a) \/ (\A w \in Days(a) : ls[a] < w)

\* What the floats and the report of constraints may hold.
ResultsTyped ==
  /\ totalFloat \in [Node -> MaybeInt] /\ freeFloat \in [Node -> MaybeInt]
  /\ violated \subseteq Node
  /\ phase \in {"float", "done"} => at <= Len(nodes) + 1

\* Who writes what the two conditions speak of.
LEMMA WhoWritesResults ==
  ASSUME [CPMNext]_vars
  PROVE  /\ KeepActualsLate \/ PlaceLate \/ UNCHANGED ls
         /\ MeasureFloat \/ UNCHANGED <<totalFloat, freeFloat>>
         /\ PlaceEarly \/ UNCHANGED violated
         /\ phase' \in {"float", "done"} =>
              \/ at' = 1
              \/ MeasureFloat
              \/ phase \in {"float", "done"} /\ at' = at
<1> USE DEF passVars, earlyVars, lateVars, floatVars, cpmVars, vars
<1>1. CASE Validate \/ Sort \/ StartForward
  BY <1>1 DEF Validate, Sort, StartForward
<1>2. CASE Forward
  BY <1>2 DEF Forward, ConsiderPredecessor, KeepActuals, PlaceEarly
<1>3. CASE SetDeadline
  BY <1>3 DEF SetDeadline
<1>4. CASE Backward
  BY <1>4 DEF Backward, ConsiderSuccessor, KeepActualsLate, PlaceLate
<1>5. CASE StartPostPass
  BY <1>5 DEF StartPostPass
<1>6. CASE SlideLate \/ StartFloat
  BY <1>6 DEF SlideLate, StartFloat
<1>7. CASE MeasureFloat
  BY <1>7 DEF MeasureFloat
<1>8. CASE Return
  BY <1>8 DEF Return
<1>9. CASE UNCHANGED vars
  BY <1>9
<1> QED BY <1>1, <1>2, <1>3, <1>4, <1>5, <1>6, <1>7, <1>8, <1>9 DEF CPMNext, PostPass

\* The backward pass dates an activity that is not finished: its finish is the latest
\* one, snapped, and its start is the days of it before.
LEMMA LatePlaced ==
  ASSUME Structure, PlaceLate, NEW a, a = order[at]
  PROVE  /\ a \in Node /\ ~IsComplete(Task(a)) /\ phase = "backward" /\ NoLinkOutOf(a, cand)
         /\ \E x \in Int, y \in Int, latest \in Int :
              /\ lf' = [lf EXCEPT ![a] = x] /\ ls' = [ls EXCEPT ![a] = y]
              /\ latest = LatestFinish(Days(a), Task(a))
              /\ x = IF Duration(Task(a)) = 0 THEN latest ELSE SnapFinishBack(Days(a), latest)
              /\ y = StartFromFinish(Days(a), x, Duration(Task(a)))
<1> DEFINE latest == LatestFinish(Days(a), Task(a))
           x == IF Duration(Task(a)) = 0 THEN latest ELSE SnapFinishBack(Days(a), latest)
           y == StartFromFinish(Days(a), x, Duration(Task(a)))
<1>1. /\ phase = "backward" /\ at >= 1 /\ ~IsComplete(Task(a)) /\ NoLinkOutOf(a, cand)
      /\ lf' = [lf EXCEPT ![a] = x] /\ ls' = [ls EXCEPT ![a] = y]
  BY DEF PlaceLate
<1>2. a \in Node /\ IsLattice(Days(a)) /\ Task(a) \in Activity /\ Duration(Task(a)) \in Int
  BY <1>1, ActivityAtPosition
<1>3. latest \in Int
  BY <1>1, <1>2, LatestFinishFacts
<1> HIDE DEF latest
<1>4. x \in Int
  BY <1>2, <1>3, SnapFinishMoves
<1>5. y \in Int
  BY <1>2, <1>4, SpansAreInstants
<1>6. /\ latest = LatestFinish(Days(a), Task(a))
      /\ x = IF Duration(Task(a)) = 0 THEN latest ELSE SnapFinishBack(Days(a), latest)
      /\ y = StartFromFinish(Days(a), x, Duration(Task(a)))
  BY DEF latest
<1> HIDE DEF x, y
<1> QED BY <1>1, <1>2, <1>3, <1>4, <1>5, <1>6

\* The start of a span that ends where a day may end is a working day, unless the
\* calendar has not begun.
LEMMA LateStartSnapped ==
  ASSUME NEW lat, IsLattice(lat), NEW latest \in Int, NEW d \in Int, d > 0,
         NEW x, x = SnapFinishBack(lat, latest), NEW y, y = StartFromFinish(lat, x, d)
  PROVE  y \in lat \/ (\A w \in lat : y < w)
<1>1. latest - 1 \in Int /\ lat \subseteq Int
  BY DEF IsLattice
<1>2. PICK u \in Int : u = SnapStartBack(lat, latest - 1)
  BY <1>1, SnapBackMovesBack
<1>3. x = u + 1 /\ x - 1 = u
  BY <1>2 DEF SnapFinishBack
<1>4. y = AddWorkingDays(lat, SnapStartBack(lat, u), -(d - 1))
  BY <1>3 DEF StartFromFinish, SubWorkingDays
<1>5. \A i \in Int : AddWorkingDays(lat, i, -(d - 1)) \in lat
                     \/ AddWorkingDays(lat, i, -(d - 1)) = i
  BY <1>1, AddLands DEF AddWorkingDays, Lands
<1>6. CASE \E w \in lat : w <= latest - 1
  <2>1. u \in lat
    BY <1>1, <1>2, <1>6, SnapBackLands
  <2>2. SnapStartBack(lat, u) = u
    BY <2>1, WorkingInstantsStay
  <2> QED BY <1>2, <1>4, <1>5, <2>1, <2>2
<1>7. CASE ~\E w \in lat : w <= latest - 1
  <2>1. u = latest - 1
    BY <1>1, <1>2, <1>7, SnapBackIs
  <2>2. SnapStartBack(lat, u) = u
    BY <1>1, <1>7, <2>1, SnapBackIs
  <2>3. \A w \in lat : u < w
    BY <1>1, <1>7, <2>1
  <2> QED BY <1>2, <1>4, <1>5, <2>2, <2>3
<1> QED BY <1>6, <1>7

\* No step leaves a start off its calendar.
LEMMA StartsSnappedStep ==
  ASSUME Structure, StartsSnapped, [CPMNext]_vars
  PROVE  StartsSnapped'
<1>1. net' = net
  BY StepsKeepTheNetwork
<1>2. /\ \A b : Open(b)' = Open(b) /\ Days(b)' = Days(b)
      /\ \A b : Duration(Task(b))' = Duration(Task(b))
  BY <1>1 DEF Open, Task, Days
<1>3. \A a \in Node : IsLattice(Days(a)) /\ Duration(Task(a)) \in Int
  BY ActivityFacts DEF Structure, NetworkFixed
<1>4. ASSUME NEW a \in Node, Open(a)', es'[a] # None
      PROVE  es'[a] \in Days(a)' \/ (\A w \in Days(a)' : w < es'[a])
  <2>1. CASE es'[a] = es[a]
    BY <1>2, <1>4, <2>1 DEF StartsSnapped
  <2>2. CASE KeepActuals
    <3>1. ~Open(order[at]) /\ es' = [es EXCEPT ![order[at]] = Task(order[at]).start]
      BY <2>2, KeepActualsStep DEF IsComplete, Open
    <3>2. es'[a] = es[a]
      BY <1>2, <1>4, <3>1 DEF Structure, DatesTyped
    <3> QED BY <2>1, <3>2
  <2>3. CASE PlaceEarly
    <3>1. PICK b : b = order[at]
      OBVIOUS
    <3>2. PICK e : e = EarliestStart(Days(b), Task(b))
      OBVIOUS
    <3>3. b \in Node /\ phase = "forward" /\ at <= Len(order)
      BY <2>3, <3>1, PlaceEarlyStep DEF PlaceEarly
    <3>4. e \in Int
      <4>1. bound \in MaybeInt /\ Task(b) \in Activity /\ IsLattice(Days(b)) /\ IsNetwork
        BY <3>3, ActivityFacts DEF Structure, NetworkFixed, DatesTyped
      <4> QED BY <3>2, <4>1, EarliestStartFacts
    <3>5. es' = [es EXCEPT ![b] = SnapStartForward(Days(b), e)]
      BY <2>3, <3>1, <3>2 DEF PlaceEarly
    <3>6. CASE a = b
      <4>1. es'[a] = SnapStartForward(Days(a), e)
        BY <3>5, <3>6 DEF Structure, DatesTyped
      <4> QED BY <1>2, <1>3, <3>4, <4>1, SnapIsSettled
    <3>7. CASE a # b
      BY <2>1, <3>5, <3>7
    <3> QED BY <3>6, <3>7
  <2>4. CASE SlideLate /\ es'[a] # es[a]
    <3>1. ~UNCHANGED <<es, ef>>
      BY <2>4
    <3>2. PICK b : b = order[at]
      OBVIOUS
    <3>3. PICK room : /\ room \in Int
                      /\ \E start, finish :
                           /\ start = AddWorkingDays(Days(b), SnapStartForward(Days(b), es[b]), room)
                           /\ es' = [es EXCEPT ![b] = start]
      BY <2>4, <3>1, <3>2, SlideRoom
    <3>4. PICK s : s = SnapStartForward(Days(b), es[b])
      OBVIOUS
    <3>5. a = b /\ es[a] \in Int /\ es'[a] = AddWorkingDays(Days(a), s, room)
      <4>1. es' = [es EXCEPT ![b] = AddWorkingDays(Days(b), s, room)]
        BY <3>3, <3>4
      <4>2. es[order[at]] \in Int
        BY <2>4, <3>1, SlideLateStep
      <4> QED BY <2>4, <3>2, <4>1, <4>2 DEF Structure, DatesTyped
    <3>6. s \in Int /\ (s \in Days(a) \/ (\A w \in Days(a) : w < s))
      BY <1>3, <3>4, <3>5, SnapIsSettled, SnapForwardMovesForward
    <3>7. es'[a] \in Days(a) \/ es'[a] = s
      BY <1>3, <3>3, <3>5, AddLands DEF AddWorkingDays, Lands
    <3> QED BY <1>2, <3>6, <3>7
  <2> QED BY <2>1, <2>2, <2>3, <2>4, WhoWrites
<1>5. ASSUME NEW a \in Node, Open(a)', ls'[a] # None, Duration(Task(a))' > 0
      PROVE  ls'[a] \in Days(a)' \/ (\A w \in Days(a)' : ls'[a] < w)
  <2>1. CASE ls'[a] = ls[a]
    BY <1>2, <1>5, <2>1 DEF StartsSnapped
  <2>2. CASE KeepActualsLate
    <3>1. ~Open(order[at]) /\ ls' = [ls EXCEPT ![order[at]] = es[order[at]]]
      BY <2>2 DEF KeepActualsLate, IsComplete, Open
    <3>2. ls'[a] = ls[a]
      BY <1>2, <1>5, <3>1 DEF Structure, DatesTyped
    <3> QED BY <2>1, <3>2
  <2>3. CASE PlaceLate
    <3>1. PICK b : b = order[at]
      OBVIOUS
    <3>2. PICK x \in Int, y \in Int, latest \in Int :
            /\ ls' = [ls EXCEPT ![b] = y]
            /\ x = IF Duration(Task(b)) = 0 THEN latest ELSE SnapFinishBack(Days(b), latest)
            /\ y = StartFromFinish(Days(b), x, Duration(Task(b)))
      BY <2>3, <3>1, LatePlaced
    <3>3. CASE a = b
      <4>1. ls'[a] = y
        BY <3>2, <3>3 DEF Structure, DatesTyped
      <4>2. Duration(Task(a)) > 0 /\ Duration(Task(a)) # 0
        BY <1>2, <1>3, <1>5
      <4>3. x = SnapFinishBack(Days(a), latest) /\ y = StartFromFinish(Days(a), x, Duration(Task(a)))
        BY <3>2, <3>3, <4>2
      <4>4. y \in Days(a) \/ (\A w \in Days(a) : y < w)
        BY <1>3, <4>2, <4>3, LateStartSnapped
      <4> QED BY <1>2, <4>1, <4>4
    <3>4. CASE a # b
      BY <2>1, <3>2, <3>4
    <3> QED BY <3>3, <3>4
  <2>4. CASE UNCHANGED ls
    BY <2>1, <2>4
  <2> QED BY <2>2, <2>3, <2>4, WhoWritesResults
<1> QED BY <1>4, <1>5 DEF StartsSnapped

\* No step gives a result another type.
LEMMA ResultsTypedStep ==
  ASSUME Structure, ResultsTyped, [CPMNext]_vars, UNCHANGED nodes
  PROVE  ResultsTyped'
<1>1. \A a \in Node : IsLattice(Days(a))
  BY ActivityFacts DEF Structure, NetworkFixed
<1>2. Len(nodes) \in Nat /\ at \in Nat
  BY LenProperties DEF Structure, KahnInv, IsGraph, DatesTyped
<1>3. violated' \subseteq Node
  <2>1. CASE PlaceEarly
    <3>1. order[at] \in Node
      BY <2>1, PlaceEarlyStep
    <3> QED BY <2>1, <3>1 DEF PlaceEarly, ResultsTyped
  <2> QED BY <2>1, WhoWritesResults DEF ResultsTyped
<1>4. totalFloat' \in [Node -> MaybeInt] /\ freeFloat' \in [Node -> MaybeInt]
  <2>1. CASE UNCHANGED <<totalFloat, freeFloat>>
    BY <2>1 DEF ResultsTyped
  <2>2. CASE MeasureFloat
    <3>1. PICK a : a = nodes[at]
      OBVIOUS
    <3>2. CASE IsComplete(Task(a))
      <4>1. UNCHANGED <<totalFloat, freeFloat>>
        BY <2>2, <3>1, <3>2 DEF MeasureFloat, floatVars
      <4> QED BY <2>1, <4>1
    <3>3. CASE ~IsComplete(Task(a))
      <4>1. totalFloat' = [totalFloat EXCEPT ![a] = CountWorkingDays(Days(a), es[a], ls[a])]
        BY <2>2, <3>1, <3>3 DEF MeasureFloat
      <4>2. PICK slack \in Slacks(a) : freeFloat' = [freeFloat EXCEPT ![a] = slack]
        BY <2>2, <3>1, <3>3 DEF MeasureFloat
      <4>3. CASE a \in Node
        <5>1. slack \in Int
          BY <1>1, <4>3, CountIsInteger DEF Slacks
        <5>2. CountWorkingDays(Days(a), es[a], ls[a]) \in Int
          BY <1>1, <4>3, CountIsInteger
        <5> QED BY <4>1, <4>2, <5>1, <5>2 DEF ResultsTyped, MaybeInt
      <4>4. CASE a \notin Node
        BY <4>1, <4>2, <4>4 DEF ResultsTyped
      <4> QED BY <4>3, <4>4
    <3> QED BY <3>2, <3>3
  <2> QED BY <2>1, <2>2, WhoWritesResults
<1>5. phase' \in {"float", "done"} => at' <= Len(nodes') + 1
  <2>1. MeasureFloat => at <= Len(nodes) /\ at' = at + 1
    BY DEF MeasureFloat
  <2> QED BY <1>2, <2>1, WhoWritesResults DEF ResultsTyped
<1> QED BY <1>3, <1>4, <1>5 DEF ResultsTyped

\* In every run starts are snapped and results typed.
LEMMA StartsAndResults == CPMSpec => [](StartsSnapped /\ ResultsTyped)
<1>1. CPMInit => StartsSnapped /\ ResultsTyped
  BY DEF CPMInit, StartsSnapped, ResultsTyped, MaybeInt
<1>2. Structure /\ (StartsSnapped /\ ResultsTyped) /\ [CPMNext]_vars
      => (StartsSnapped /\ ResultsTyped)'
  <2>1. [CPMNext]_vars => UNCHANGED nodes
    <3>1. [KahnNext]_kahnVars => UNCHANGED nodes
      BY DEF KahnNext, Seed, StartLoop, Dequeue, Release, Finish, Walk, WalkEnds, kahnVars
    <3> QED BY <3>1, StepsKeepTheNetwork
  <2> QED BY <2>1, StartsSnappedStep, ResultsTypedStep
<1> QED BY <1>1, <1>2, StructureHolds, PTL DEF CPMSpec

\* An order that is complete has as many places as there are activities.
LEMMA OrderHasAll ==
  ASSUME KahnInv, sort = "ordered"
  PROVE  Len(order) = Len(nodes)
<1>1. /\ \A a \in Node : \E j \in DOMAIN order : order[j] = a
      /\ \A j \in DOMAIN order : order[j] \in Node
  BY OrderFacts
<1>2. Placed = Node
  BY <1>1 DEF Placed, Elements
<1> QED BY <1>2, LengthDecides

\* The calculation computes what it says it does: instants where there are instants,
\* floats that are numbers, a network that is never another one; and every start
\* it computes for work still to do is a day its calendar works, as long as the
\* calendar reaches so far, whatever the network, the calendars and the progress
\* (cpm.py:489-606, timeaxis.py).
THEOREM DatesAreTyped == CPMSpec => [](CalendarsReach => CPMTypeOK)
<1>1. Structure /\ (StartsSnapped /\ ResultsTyped) => (CalendarsReach => CPMTypeOK)
  <2> SUFFICES ASSUME Structure, StartsSnapped, ResultsTyped, CalendarsReach
               PROVE  CPMTypeOK
    OBVIOUS
  <2>1. KahnTypeOK /\ IsGraph /\ IsNetwork
    BY DEF Structure, KahnInv, NetworkFixed
  <2>2. \A a \in Node : IsLattice(Days(a))
    BY <2>1, ActivityFacts
  <2>3. /\ phase \in {"validate", "rejected", "sort", "forward", "backward", "alap",
                      "float", "done"}
        /\ cand \in Nat /\ bound \in MaybeInt /\ driver \in Node \cup {None}
        /\ driving \in [Node -> Node \cup {None}] /\ violated \subseteq Node
        /\ \A d \in {es, ef, ls, lf, totalFloat, freeFloat} : d \in [Node -> MaybeInt]
    BY DEF Structure, DatesTyped, Passes, ResultsTyped
  <2>4. at \in 0..(Len(nodes) + 1)
    <3>1. Len(nodes) \in Nat /\ at \in Nat
      BY <2>1, LenProperties DEF IsGraph, Structure, DatesTyped
    <3>2. CASE phase \notin Passes
      BY <3>1, <3>2 DEF Structure, PhaseOrder
    <3>3. CASE phase \in {"float", "done"}
      BY <3>1, <3>3 DEF ResultsTyped
    <3>4. CASE phase \in {"forward", "backward", "alap"}
      <4>1. Len(order) = Len(nodes)
        BY <3>4, OrderHasAll DEF Structure, PhaseOrder, Passes
      <4>2. phase # "forward" => at <= Len(order)
        BY <3>4 DEF Structure, PhaseOrder
      <4>3. phase = "forward" => at <= Len(order) + 1
        BY <3>1, <4>1 DEF Structure, DatedPrefix
      <4> QED BY <3>1, <4>1, <4>2, <4>3
    <3> QED BY <3>2, <3>3, <3>4 DEF Structure, DatesTyped, Passes
  <2>5. ASSUME NEW a \in Node, es[a] # None, Task(a).finish = None
        PROVE  es[a] \in Days(a)
    <3>1. es[a] \in Int /\ Days(a) \subseteq Int
      BY <2>2, <2>5 DEF IsLattice, Structure, DatesTyped, MaybeInt
    <3>2. PICK w \in Days(a) : es[a] <= w
      BY <2>5 DEF CalendarsReach, Open
    <3>3. es[a] \in Days(a) \/ (\A v \in Days(a) : v < es[a])
      BY <2>5 DEF StartsSnapped, Open
    <3> QED BY <3>1, <3>2, <3>3
  <2>6. ASSUME NEW a \in Node, ls[a] # None, Task(a).finish = None, Duration(Task(a)) > 0
        PROVE  ls[a] \in Days(a)
    <3>1. ls[a] \in Int /\ Days(a) \subseteq Int
      BY <2>2, <2>6 DEF IsLattice, Structure, DatesTyped, MaybeInt
    <3>2. PICK w \in Days(a) : w <= ls[a]
      BY <2>6 DEF CalendarsReach, Open
    <3>3. ls[a] \in Days(a) \/ (\A v \in Days(a) : ls[a] < v)
      BY <2>6 DEF StartsSnapped, Open
    <3> QED BY <3>1, <3>2, <3>3
  <2> QED BY <2>1, <2>3, <2>4, <2>5, <2>6 DEF CPMTypeOK
<1> QED BY <1>1, StructureHolds, StartsAndResults, PTL

-----------------------------------------------------------------------------
\* Lags taken back.

\* A working day is no earlier than an instant as many working days come before.
LEMMA PositionReached ==
  ASSUME NEW lat, IsLattice(lat), NEW x \in lat, NEW i \in Int,
         BisectLeft(lat, x) >= BisectLeft(lat, i)
  PROVE  i <= x
<1>1. x \in Int /\ BisectLeft(lat, x) \in Nat /\ BisectLeft(lat, i) \in Nat
  BY PositionsCount DEF IsLattice
<1>2. ~(x < i)
  <2>1. x < i => BisectLeft(lat, x) < BisectLeft(lat, i)
    BY <1>1, PositionsGrow
  <2> QED BY <1>1, <2>1
<1> QED BY <1>1, <1>2

\* Snapping back loses the one day it may have to pass over.
LEMMA PositionOfTheDayBefore ==
  ASSUME NEW lat, IsLattice(lat), NEW i \in Int
  PROVE  /\ SnapStartBack(lat, i - 1) \in Int
         /\ BisectLeft(lat, SnapStartBack(lat, i - 1)) + 1 >= BisectLeft(lat, i)
         /\ SnapStartBack(lat, i - 1) \in lat =>
              BisectLeft(lat, SnapStartBack(lat, i - 1)) + 1 = BisectLeft(lat, i)
<1>1. i - 1 \in Int /\ lat \subseteq Int
  BY DEF IsLattice
<1>2. PICK u \in Int : u = SnapStartBack(lat, i - 1)
  BY <1>1, SnapBackMovesBack
<1>3. u <= i - 1 /\ \A w \in lat : w <= i - 1 => w <= u
  BY <1>1, <1>2, SnapBackMovesBack, SnapBackIs
<1>4. BisectLeft(lat, u) \in Nat /\ BisectLeft(lat, i) \in Nat
  BY PositionsCount
<1>5. CASE u \in lat
  <2>1. BisectLeft(lat, u + 1) = BisectLeft(lat, u) + 1
    BY <1>5, PastAWorkingDay
  <2>2. DaysBefore(lat, i) = DaysBefore(lat, u + 1)
    <3>1. \A w \in lat : w < i <=> w < u + 1
      BY <1>1, <1>2, <1>3
    <3> QED BY <3>1 DEF DaysBefore
  <2>3. BisectLeft(lat, i) = BisectLeft(lat, u + 1)
    BY <2>2 DEF BisectLeft
  <2> QED BY <1>2, <1>4, <2>1, <2>3
<1>6. CASE u \notin lat
  <2>1. ~\E w \in lat : w <= i - 1
    BY <1>1, <1>2, <1>6, SnapBackLands
  <2>2. \A w \in lat : w < i <=> w < u
    BY <1>1, <1>2, <1>3, <2>1
  <2>3. DaysBefore(lat, i) = DaysBefore(lat, u)
    BY <2>2 DEF DaysBefore
  <2>4. BisectLeft(lat, i) = BisectLeft(lat, u)
    BY <2>3 DEF BisectLeft
  <2> QED BY <1>2, <1>4, <1>6, <2>4
<1> QED BY <1>5, <1>6

\* What starts by the time a lag from it ends may start as late as the lag back from
\* there leads.
LEMMA LagBackFromStart ==
  ASSUME NEW lat, IsLattice(lat), NEW i \in Int, NEW j \in Int, NEW lag \in Int,
         LagLands(i, lag, "start", lat), LagLands(j, -lag, "start", lat),
         AdvanceLag(i, lag, "start", lat) <= j
  PROVE  i <= AdvanceLag(j, -lag, "start", lat)
<1>1. CASE lag = 0 \/ net.lagCalendar = "twenty_four_hour"
  BY <1>1 DEF AdvanceLag
<1>2. CASE ~(lag = 0 \/ net.lagCalendar = "twenty_four_hour")
  <2>1. PICK s \in Int : s = SnapStartForward(lat, i) /\ BisectLeft(lat, s) = BisectLeft(lat, i)
    BY SnapForwardMovesForward, SnapSkipsNothing
  <2>2. PICK t \in Int : t = SnapStartForward(lat, j) /\ BisectLeft(lat, t) = BisectLeft(lat, j)
    BY SnapForwardMovesForward, SnapSkipsNothing
  <2>3. -lag \in Int /\ -lag # 0 /\ Lands(lat, s, lag) /\ Lands(lat, t, -lag)
    BY <1>2, <2>1, <2>2 DEF LagLands
  <2>4. PICK v \in lat : v = AddWorkingDays(lat, s, lag)
                         /\ BisectLeft(lat, v) = BisectLeft(lat, s) + lag
    BY <2>3, AddLands
  <2>5. PICK x \in lat : x = AddWorkingDays(lat, t, -lag)
                         /\ BisectLeft(lat, x) = BisectLeft(lat, t) + (-lag)
    BY <2>3, AddLands
  <2>6. AdvanceLag(i, lag, "start", lat) = v /\ AdvanceLag(j, -lag, "start", lat) = x
    BY <1>2, <2>1, <2>2, <2>3, <2>4, <2>5 DEF AdvanceLag
  <2>7. v \in Int /\ x \in Int
    BY DEF IsLattice
  <2>8. BisectLeft(lat, v) <= BisectLeft(lat, j)
    BY <2>6, <2>7, PositionsGrow
  <2>9. \A w \in {i, j, v, x} : BisectLeft(lat, w) \in Nat
    BY PositionsCount
  <2>10. BisectLeft(lat, x) >= BisectLeft(lat, i)
    BY <2>1, <2>2, <2>4, <2>5, <2>8, <2>9
  <2> QED BY <2>6, <2>10, PositionReached
<1> QED BY <1>1, <1>2

\* The same for what has to finish before the lag begins.
LEMMA LagBackFromFinish ==
  ASSUME NEW lat, IsLattice(lat), NEW i \in Int, NEW j \in Int, NEW lag \in Int,
         LagLands(i, lag, "finish", lat), LagLands(j, -lag, "start", lat),
         AdvanceLag(i, lag, "finish", lat) <= j
  PROVE  i <= AdvanceLag(j, -lag, "start", lat)
<1>1. CASE lag = 0 \/ net.lagCalendar = "twenty_four_hour"
  BY <1>1 DEF AdvanceLag
<1>2. CASE ~(lag = 0 \/ net.lagCalendar = "twenty_four_hour")
  <2>1. PICK s \in Int : s = SnapStartBack(lat, i - 1)
                         /\ BisectLeft(lat, s) + 1 >= BisectLeft(lat, i)
    BY PositionOfTheDayBefore
  <2>2. PICK t \in Int : t = SnapStartForward(lat, j) /\ BisectLeft(lat, t) = BisectLeft(lat, j)
    BY SnapForwardMovesForward, SnapSkipsNothing
  <2>3. -lag \in Int /\ -lag # 0 /\ Lands(lat, s, lag) /\ Lands(lat, t, -lag)
    BY <1>2, <2>1, <2>2 DEF LagLands
  <2>4. PICK v \in lat : v = AddWorkingDays(lat, s, lag)
                         /\ BisectLeft(lat, v) = BisectLeft(lat, s) + lag
    BY <2>3, AddLands
  <2>5. PICK x \in lat : x = AddWorkingDays(lat, t, -lag)
                         /\ BisectLeft(lat, x) = BisectLeft(lat, t) + (-lag)
    BY <2>3, AddLands
  <2>6. AdvanceLag(i, lag, "finish", lat) = v + 1 /\ AdvanceLag(j, -lag, "start", lat) = x
    BY <1>2, <2>1, <2>2, <2>3, <2>4, <2>5 DEF AdvanceLag
  <2>7. v \in Int /\ x \in Int /\ v < j
    BY <2>6 DEF IsLattice
  <2>8. BisectLeft(lat, v) < BisectLeft(lat, j)
    BY <2>7, PositionsGrow
  <2>9. \A w \in {i, j, v, x, s} : BisectLeft(lat, w) \in Nat
    BY PositionsCount
  <2>10. BisectLeft(lat, x) >= BisectLeft(lat, i)
    BY <2>1, <2>2, <2>4, <2>5, <2>8, <2>9
  <2> QED BY <2>6, <2>10, PositionReached
<1> QED BY <1>1, <1>2

\* And for what has to finish a lag before something else does, when the lag is
\* counted on its own calendar.
LEMMA LagBackBetweenFinishes ==
  ASSUME NEW lat, IsLattice(lat), NEW i \in Int, NEW j \in Int, NEW lag \in Int,
         LagLands(i, lag, "finish", lat), LagLands(j, -lag, "finish", lat),
         lag = 0 \/ net.lagCalendar = "twenty_four_hour" \/ i - 1 \in lat,
         AdvanceLag(i, lag, "finish", lat) <= j
  PROVE  i <= AdvanceLag(j, -lag, "finish", lat)
<1>1. CASE lag = 0 \/ net.lagCalendar = "twenty_four_hour"
  BY <1>1 DEF AdvanceLag
<1>2. CASE ~(lag = 0 \/ net.lagCalendar = "twenty_four_hour")
  <2>1. i - 1 \in lat /\ SnapStartBack(lat, i - 1) = i - 1
    BY <1>2, WorkingInstantsStay
  <2>2. PICK t \in Int : t = SnapStartBack(lat, j - 1)
    BY PositionOfTheDayBefore
  <2>3. -lag \in Int /\ -lag # 0 /\ Lands(lat, i - 1, lag) /\ Lands(lat, t, -lag)
    BY <1>2, <2>1, <2>2 DEF LagLands
  <2>4. PICK v \in lat : v = AddWorkingDays(lat, i - 1, lag)
                         /\ BisectLeft(lat, v) = BisectLeft(lat, i - 1) + lag
    BY <2>3, AddLands
  <2>5. PICK x \in lat : x = AddWorkingDays(lat, t, -lag)
                         /\ BisectLeft(lat, x) = BisectLeft(lat, t) + (-lag)
    BY <2>3, AddLands
  <2>6. AdvanceLag(i, lag, "finish", lat) = v + 1 /\ AdvanceLag(j, -lag, "finish", lat) = x + 1
    BY <1>2, <2>1, <2>2, <2>3, <2>4, <2>5 DEF AdvanceLag
  <2>7. v \in Int /\ x \in Int /\ v <= j - 1 /\ i - 1 \in Int /\ j - 1 \in Int
    BY <2>6 DEF IsLattice
  <2>8. v <= t
    BY <2>2, <2>7, SnapBackIs
  <2>9. BisectLeft(lat, v) <= BisectLeft(lat, t)
    BY <2>7, <2>8, PositionsGrow
  <2>10. \A w \in {i - 1, t, v, x} : BisectLeft(lat, w) \in Nat
    BY PositionsCount
  <2>11. BisectLeft(lat, x) >= BisectLeft(lat, i - 1)
    BY <2>4, <2>5, <2>9, <2>10
  <2>12. i - 1 <= x
    BY <2>7, <2>11, PositionReached
  <2> QED BY <2>6, <2>7, <2>12
<1> QED BY <1>1, <1>2

\* The days the bound a link puts on its predecessor is computed from are on the
\* calendars, given the late dates of its successor.
BoundLandsBack(l, s, f) ==
  LET toFinish == l.type \in DrivesSuccessorFinish
      i     == IF toFinish THEN f ELSE s
      space == IF toFinish THEN "finish" ELSE "start"
      lat   == LagDays(l.pred, l.succ)
      b     == AdvanceLag(i, -l.lag, space, lat)
  IN  /\ LagLands(i, -l.lag, space, lat)
      /\ l.type \in FromPredecessorStart =>
           /\ \E w \in Days(l.pred) : w <= b
           /\ SpanLands(Days(l.pred), SnapStartBack(Days(l.pred), b), Duration(Task(l.pred)))

\* A finish the link asks of its successor is within the successor's calendar.
FinishSnaps(l, s, f) ==
  l.type \in DrivesSuccessorFinish =>
    LET fromStart == l.type \in FromPredecessorStart
        b == AdvanceLag(IF fromStart THEN s ELSE f, l.lag,
                        IF fromStart THEN "start" ELSE "finish", LagDays(l.pred, l.succ))
    IN  \E w \in Days(l.succ) : b <= w + 1

\* The two passes count the lag of the link alike.
LagsAgree(l) ==
  /\ l.type # "SF"
  /\ l.type = "FF" =>
       l.lag = 0 \/ net.lagCalendar = "twenty_four_hour"
         \/ LagDays(l.pred, l.succ) = Days(l.pred)

\* A span as it is drawn: it starts on a working day and has all its days.
IsSpan(a, s, f) ==
  /\ s \in Days(a) /\ SpanLands(Days(a), s, Duration(Task(a)))
  /\ f = FinishFromStart(Days(a), s, Duration(Task(a)))

\* Where its days end.
LEMMA SpanFacts ==
  ASSUME IsNetwork, NEW a \in Node, Duration(Task(a)) > 0, NEW s, NEW f, IsSpan(a, s, f)
  PROVE  /\ s \in Int /\ f \in Int /\ f - 1 \in Days(a) /\ s < f
         /\ BisectLeft(Days(a), s) \in Nat
         /\ BisectLeft(Days(a), f - 1) = BisectLeft(Days(a), s) + (Duration(Task(a)) - 1)
         /\ BisectLeft(Days(a), f) = BisectLeft(Days(a), s) + Duration(Task(a))
<1>1. PICK lat : lat = Days(a) /\ IsLattice(lat)
  BY ActivityFacts
<1>2. PICK d \in Int : d = Duration(Task(a)) /\ d > 0
  BY ActivityFacts
<1>3. s \in lat /\ SpanLands(lat, s, d) /\ f = FinishFromStart(lat, s, d)
  BY <1>1, <1>2 DEF IsSpan
<1>4. PICK u \in lat : f = u + 1 /\ BisectLeft(lat, u) = BisectLeft(lat, s) + (d - 1)
  BY <1>1, <1>2, <1>3, SpanEnds
<1>5. s \in Int /\ u \in Int
  BY <1>1, <1>3 DEF IsLattice
<1>6. BisectLeft(lat, u + 1) = BisectLeft(lat, u) + 1
  BY <1>1, PastAWorkingDay
<1>7. BisectLeft(lat, s) \in Nat /\ BisectLeft(lat, u) \in Nat
  BY <1>1, PositionsCount
<1>8. s <= u
  BY <1>1, <1>2, <1>4, <1>5, <1>7, PositionReached
<1>9. f - 1 = u /\ f \in Int
  BY <1>4, <1>5
<1> QED BY <1>1, <1>2, <1>3, <1>4, <1>5, <1>6, <1>7, <1>8, <1>9

\* An activity that starts later ends later.
LEMMA SpansAreOrdered ==
  ASSUME IsNetwork, NEW a \in Node, Duration(Task(a)) > 0,
         NEW s, NEW f, IsSpan(a, s, f), NEW t, NEW g, IsSpan(a, t, g)
  PROVE  (s <= t <=> f <= g) /\ (s < t <=> f < g)
<1>1. PICK lat : lat = Days(a) /\ IsLattice(lat)
  BY ActivityFacts
<1>2. PICK d \in Int : d = Duration(Task(a)) /\ d > 0
  BY ActivityFacts
<1>3. /\ s \in lat /\ f - 1 \in lat /\ s \in Int /\ f \in Int /\ BisectLeft(lat, s) \in Nat
      /\ BisectLeft(lat, f - 1) = BisectLeft(lat, s) + (d - 1)
  BY <1>1, <1>2, SpanFacts DEF IsSpan
<1>4. /\ t \in lat /\ g - 1 \in lat /\ t \in Int /\ g \in Int /\ BisectLeft(lat, t) \in Nat
      /\ BisectLeft(lat, g - 1) = BisectLeft(lat, t) + (d - 1)
  BY <1>1, <1>2, SpanFacts DEF IsSpan
<1>5. /\ s < t => BisectLeft(lat, s) < BisectLeft(lat, t)
      /\ t < s => BisectLeft(lat, t) < BisectLeft(lat, s)
      /\ s = t => BisectLeft(lat, t) = BisectLeft(lat, s)
  BY <1>1, <1>3, <1>4, PositionsGrow
<1>6. PICK u \in lat, v \in lat : u = f - 1 /\ v = g - 1
  BY <1>3, <1>4
<1>7. u \in Int /\ v \in Int
  BY <1>3, <1>4, <1>6
<1>8. /\ u < v => BisectLeft(lat, u) < BisectLeft(lat, v)
      /\ v < u => BisectLeft(lat, v) < BisectLeft(lat, u)
      /\ u = v => BisectLeft(lat, u) = BisectLeft(lat, v)
  BY <1>1, <1>7, PositionsGrow
<1> QED BY <1>2, <1>3, <1>4, <1>5, <1>6, <1>7, <1>8

\* Going back undoes going forward: what the link lets start at t may end as late as
\* the bound the link puts on it, across calendars.
LEMMA BoundsUndo ==
  ASSUME IsNetwork, NEW l \in ALink, LagsAgree(l),
         Duration(Task(l.pred)) > 0, Duration(Task(l.succ)) > 0,
         NEW s, NEW f, IsSpan(l.pred, s, f), BoundLands(l, s, f), FinishSnaps(l, s, f),
         NEW t, NEW g, IsSpan(l.succ, t, g), BoundLandsBack(l, t, g),
         ForwardBound(l, s, f) <= t
  PROVE  f <= BackwardBound(l, t, g)
<1>1. /\ l.pred \in Node /\ l.succ \in Node /\ l.lag \in Int
      /\ l.type \in {"FS", "SS", "FF"}
  BY DEF ALink, RelationType, LagsAgree
<1>2. PICK here, d : /\ here = Days(l.pred) /\ IsLattice(here)
                     /\ d = Duration(Task(l.pred)) /\ d \in Int /\ d > 0
  BY <1>1, ActivityFacts
<1>3. PICK there, c : /\ there = Days(l.succ) /\ IsLattice(there)
                      /\ c = Duration(Task(l.succ)) /\ c \in Int /\ c > 0
  BY <1>1, ActivityFacts
<1>4. PICK days : days = LagDays(l.pred, l.succ) /\ IsLattice(days)
  BY <1>1, LagDaysIsLattice
<1>5. s \in Int /\ f \in Int /\ f - 1 \in here /\ s \in here
  BY <1>1, <1>2, SpanFacts DEF IsSpan
<1>6. /\ t \in Int /\ g \in Int /\ g - 1 \in there /\ t \in there
      /\ BisectLeft(there, t) \in Nat
      /\ BisectLeft(there, g - 1) = BisectLeft(there, t) + (c - 1)
  BY <1>1, <1>3, SpanFacts DEF IsSpan
<1>7. CASE l.type = "FS"
  <2>1. /\ LagLands(f, l.lag, "finish", days) /\ LagLands(t, -l.lag, "start", days)
        /\ ForwardBound(l, s, f) = AdvanceLag(f, l.lag, "finish", days)
        /\ BackwardBound(l, t, g) = AdvanceLag(t, -l.lag, "start", days)
    BY <1>4, <1>7 DEF BoundLands, BoundLandsBack, ForwardBound, BackwardBound,
       FromPredecessorStart, DrivesSuccessorFinish
  <2> QED BY <1>1, <1>4, <1>5, <1>6, <2>1, LagBackFromFinish
<1>8. CASE l.type = "SS"
  <2>1. /\ LagLands(s, l.lag, "start", days) /\ LagLands(t, -l.lag, "start", days)
        /\ ForwardBound(l, s, f) = AdvanceLag(s, l.lag, "start", days)
    BY <1>4, <1>8 DEF BoundLands, BoundLandsBack, ForwardBound,
       FromPredecessorStart, DrivesSuccessorFinish
  <2>2. PICK b : b = AdvanceLag(t, -l.lag, "start", days)
    OBVIOUS
  <2>3. /\ SpanLands(here, SnapStartBack(here, b), d)
        /\ BackwardBound(l, t, g) = FinishFromStart(here, SnapStartBack(here, b), d)
    BY <1>2, <1>4, <1>8, <2>2 DEF BoundLandsBack, BackwardBound,
       FromPredecessorStart, DrivesSuccessorFinish
  <2>4. b \in Int
    <3>1. -l.lag \in Int
      BY <1>1
    <3> QED BY <1>4, <1>6, <2>2, <3>1, LagIsInteger
  <2>5. s <= b
    BY <1>1, <1>4, <1>5, <1>6, <2>1, <2>2, LagBackFromStart
  <2>6. s <= SnapStartBack(here, b) /\ SnapStartBack(here, b) \in Int
    BY <1>2, <1>5, <2>4, <2>5, SnapBackIs, SnapBackMovesBack
  <2>7. SpanLands(here, s, d) /\ f = FinishFromStart(here, s, d)
    BY <1>2 DEF IsSpan
  <2> QED BY <1>2, <1>5, <2>3, <2>6, <2>7, SpansGrow
<1>9. CASE l.type = "FF"
  <2>1. PICK b : b = AdvanceLag(f, l.lag, "finish", days)
    OBVIOUS
  <2>2. b \in Int
    BY <1>1, <1>4, <1>5, <2>1, LagIsInteger
  <2>3. PICK y : y = SnapFinishForward(there, b)
    OBVIOUS
  <2>4. /\ LagLands(f, l.lag, "finish", days) /\ LagLands(g, -l.lag, "finish", days)
        /\ SpanLandsBack(there, y, c) /\ StartFromFinish(there, y, c) <= t
        /\ BackwardBound(l, t, g) = AdvanceLag(g, -l.lag, "finish", days)
        /\ \E w \in there : b <= w + 1
    BY <1>3, <1>4, <1>9, <2>1, <2>3 DEF BoundLands, BoundLandsBack, FinishSnaps, ForwardBound,
       BackwardBound, FromPredecessorStart, DrivesSuccessorFinish
  <2>5. l.lag = 0 \/ net.lagCalendar = "twenty_four_hour" \/ f - 1 \in days
    BY <1>2, <1>4, <1>5, <1>9 DEF LagsAgree
  <2>6. b <= g
    <3>1. b - 1 \in Int /\ there \subseteq Int
      BY <1>3, <2>2 DEF IsLattice
    <3>2. PICK u \in Int : u = SnapStartForward(there, b - 1) /\ u >= b - 1
      BY <1>3, <3>1, SnapForwardMovesForward
    <3>3. y - 1 = u
      BY <2>3, <3>2 DEF SnapFinishForward
    <3>4. u \in there
      <4>1. PICK w \in there : b <= w + 1
        BY <2>4
      <4>2. w >= b - 1 /\ w \in Int
        BY <2>2, <3>1, <4>1
      <4>3. SnapStartForward(there, u) = u /\ (u \in there \/ (\A v \in there : v < u))
        BY <1>3, <3>1, <3>2, SnapIsSettled
      <4>4. u \notin there => u = b - 1
        BY <1>3, <3>1, <3>2, SnapForwardIs
      <4> QED BY <3>2, <4>2, <4>3, <4>4
    <3>5. SnapStartBack(there, y - 1) = u
      BY <1>3, <3>3, <3>4, WorkingInstantsStay
    <3>6. 1 - c \in Int /\ -(c - 1) = 1 - c /\ c # 0 /\ Lands(there, u, 1 - c)
      BY <1>3, <2>4, <3>5 DEF SpanLandsBack
    <3>7. PICK z \in there : /\ z = AddWorkingDays(there, u, 1 - c)
                             /\ BisectLeft(there, z) = BisectLeft(there, u) + (1 - c)
      BY <1>3, <3>6, AddLands
    <3>8. z <= t
      BY <2>4, <3>5, <3>6, <3>7 DEF StartFromFinish, SubWorkingDays
    <3>9. z \in Int
      BY <3>1
    <3>10. BisectLeft(there, z) <= BisectLeft(there, t)
      BY <1>3, <1>6, <3>8, <3>9, PositionsGrow
    <3>11. BisectLeft(there, u) \in Nat /\ BisectLeft(there, z) \in Nat
      BY <1>3, PositionsCount
    <3>12. BisectLeft(there, g - 1) >= BisectLeft(there, u)
      BY <1>3, <1>6, <3>7, <3>10, <3>11
    <3>13. u <= g - 1
      BY <1>3, <1>6, <3>2, <3>12, PositionReached
    <3> QED BY <1>6, <2>2, <3>2, <3>13
  <2> QED BY <1>1, <1>4, <1>5, <1>6, <2>1, <2>4, <2>5, <2>6, LagBackBetweenFinishes
<1> QED BY <1>1, <1>7, <1>8, <1>9

\* A span read from its finish: the days before it are on the calendar too.
LEMMA SpanReadBack ==
  ASSUME IsNetwork, NEW a \in Node, Duration(Task(a)) > 0, NEW s, NEW f, IsSpan(a, s, f)
  PROVE  SpanLandsBack(Days(a), f, Duration(Task(a)))
         /\ StartFromFinish(Days(a), f, Duration(Task(a))) = s
<1>1. PICK lat : lat = Days(a) /\ IsLattice(lat)
  BY ActivityFacts
<1>2. PICK d \in Int : d = Duration(Task(a)) /\ d > 0
  BY ActivityFacts
<1>3. /\ s \in lat /\ f \in Int /\ f - 1 \in lat /\ BisectLeft(lat, s) \in Nat
      /\ BisectLeft(lat, f - 1) = BisectLeft(lat, s) + (d - 1)
  BY <1>1, <1>2, SpanFacts DEF IsSpan
<1>4. PICK u \in lat : u = f - 1
  BY <1>3
<1>5. SnapStartBack(lat, u) = u
  BY <1>1, WorkingInstantsStay
<1>6. BisectLeft(lat, s) = BisectLeft(lat, u) + (1 - d)
  BY <1>2, <1>3, <1>4
<1>7. Lands(lat, u, 1 - d)
  BY <1>3, <1>6 DEF Lands, IsDaysFrom
<1>8. 1 - d \in Int /\ -(d - 1) = 1 - d
  BY <1>2
<1>9. PICK z \in lat : z = AddWorkingDays(lat, u, 1 - d)
                       /\ BisectLeft(lat, z) = BisectLeft(lat, u) + (1 - d)
  BY <1>1, <1>7, <1>8, AddLands
<1>10. z = s
  BY <1>1, <1>3, <1>6, <1>9, PositionsAreUnique
<1> QED BY <1>1, <1>2, <1>4, <1>5, <1>7, <1>8, <1>9, <1>10
        DEF SpanLandsBack, StartFromFinish, SubWorkingDays

\* The calendar of a lag is the one its two ends keep.
LEMMA LagOnOneCalendar ==
  ASSUME NEW l, Task(l.pred).cal = Task(l.succ).cal,
         net.lagCalendar \in {"predecessor", "successor"}
  PROVE  LagDays(l.pred, l.succ) = Days(l.pred) /\ Days(l.succ) = Days(l.pred)
BY DEF LagDays, Days

\* Going forward undoes going back: what ends by the bound a link puts on it asks for
\* no start later than the one the bound was computed from.  Without a lag, across
\* calendars.
LEMMA BoundsRedoPlain ==
  ASSUME IsNetwork, NEW l \in ALink, l.type # "SF", l.lag = 0,
         Duration(Task(l.pred)) > 0, Duration(Task(l.succ)) > 0,
         NEW s, NEW f, IsSpan(l.pred, s, f), BoundLands(l, s, f),
         NEW t, NEW g, IsSpan(l.succ, t, g), BoundLandsBack(l, t, g),
         f <= BackwardBound(l, t, g)
  PROVE  ForwardBound(l, s, f) <= t
<1>1. l.pred \in Node /\ l.succ \in Node /\ l.type \in {"FS", "SS", "FF"}
  BY DEF ALink, RelationType
<1>2. PICK here, d : /\ here = Days(l.pred) /\ IsLattice(here)
                     /\ d = Duration(Task(l.pred)) /\ d \in Int /\ d > 0
  BY <1>1, ActivityFacts
<1>3. PICK there, c : /\ there = Days(l.succ) /\ IsLattice(there)
                      /\ c = Duration(Task(l.succ)) /\ c \in Int /\ c > 0
  BY <1>1, ActivityFacts
<1>4. s \in Int /\ f \in Int /\ f - 1 \in here /\ s \in here
  BY <1>1, <1>2, SpanFacts DEF IsSpan
<1>5. t \in Int /\ g \in Int /\ g - 1 \in there /\ t \in there
  BY <1>1, <1>3, SpanFacts DEF IsSpan
<1>6. \A i, space, lat : AdvanceLag(i, l.lag, space, lat) = i /\ AdvanceLag(i, -l.lag, space, lat) = i
  <2>1. PICK n \in Int : n = l.lag
    BY DEF ALink
  <2>2. PICK m : m = -n
    OBVIOUS
  <2>3. m \in Int /\ m + n = 0
    BY <2>2
  <2>4. n = 0
    BY <2>1
  <2>5. m = 0
    BY <2>3, <2>4
  <2>6. -l.lag = m
    BY <2>1, <2>2
  <2>7. -l.lag = 0 /\ l.lag = 0
    BY <2>5, <2>6
  <2> QED BY <2>7 DEF AdvanceLag
<1>7. CASE l.type = "FS"
  BY <1>6, <1>7 DEF ForwardBound, BackwardBound, FromPredecessorStart, DrivesSuccessorFinish
<1>8. CASE l.type = "SS"
  <2>1. ForwardBound(l, s, f) = s
    BY <1>6, <1>8 DEF ForwardBound, FromPredecessorStart, DrivesSuccessorFinish
  <2>2. PICK x \in Int : x = SnapStartBack(here, t) /\ x <= t
    BY <1>2, <1>5, SnapBackMovesBack
  <2>3. PICK e : e = FinishFromStart(here, x, d)
    OBVIOUS
  <2>4. /\ BackwardBound(l, t, g) = e
        /\ \E w \in here : w <= t
        /\ SpanLands(here, x, d)
    BY <1>2, <1>6, <1>8, <2>2, <2>3 DEF BoundLandsBack, BackwardBound,
       FromPredecessorStart, DrivesSuccessorFinish
  <2>5. x \in here
    BY <1>2, <1>5, <2>2, <2>4, SnapBackLands
  <2>6. IsSpan(l.pred, x, e)
    BY <1>2, <2>3, <2>4, <2>5 DEF IsSpan
  <2>7. s <= x
    BY <1>1, <2>4, <2>6, SpansAreOrdered
  <2> QED BY <1>4, <1>5, <2>1, <2>2, <2>7
<1>9. CASE l.type = "FF"
  <2>1. PICK y : y = SnapFinishForward(there, f)
    OBVIOUS
  <2>2. /\ ForwardBound(l, s, f) = StartFromFinish(there, y, c)
        /\ BackwardBound(l, t, g) = g
        /\ SpanLandsBack(there, y, c)
    BY <1>3, <1>6, <1>9, <2>1 DEF BoundLands, ForwardBound, BackwardBound,
       FromPredecessorStart, DrivesSuccessorFinish
  <2>3. y \in Int
    BY <1>3, <1>4, <2>1, SnapFinishMoves
  <2>4. y <= g
    <3>1. f - 1 \in Int /\ g - 1 \in Int /\ f - 1 <= g - 1
      BY <1>4, <1>5, <2>2
    <3>2. SnapStartForward(there, f - 1) <= SnapStartForward(there, g - 1)
      BY <1>3, <3>1, SnapForwardGrows
    <3>3. SnapStartForward(there, g - 1) = g - 1
      BY <1>3, <1>5, WorkingInstantsStay
    <3>4. SnapStartForward(there, f - 1) \in Int
      BY <1>3, <3>1, SnapForwardMovesForward
    <3> QED BY <1>5, <2>1, <3>2, <3>3, <3>4 DEF SnapFinishForward
  <2>5. SpanLandsBack(there, g, c) /\ StartFromFinish(there, g, c) = t
    BY <1>1, <1>3, SpanReadBack
  <2> QED BY <1>3, <1>5, <2>2, <2>3, <2>4, <2>5, SpansGrow
<1> QED BY <1>1, <1>7, <1>8, <1>9

\* With a lag, on one calendar.
LEMMA BoundsRedoLagged ==
  ASSUME IsNetwork, NEW l \in ALink, l.type # "SF",
         Task(l.pred).cal = Task(l.succ).cal,
         net.lagCalendar \in {"predecessor", "successor"},
         Duration(Task(l.pred)) > 0, Duration(Task(l.succ)) > 0,
         NEW s, NEW f, IsSpan(l.pred, s, f), BoundLands(l, s, f),
         NEW t, NEW g, IsSpan(l.succ, t, g), BoundLandsBack(l, t, g),
         f <= BackwardBound(l, t, g)
  PROVE  ForwardBound(l, s, f) <= t
<1>1. l.pred \in Node /\ l.succ \in Node /\ l.type \in {"FS", "SS", "FF"}
  BY DEF ALink, RelationType
<1>2. PICK lat : /\ lat = Days(l.pred) /\ lat = Days(l.succ) /\ IsLattice(lat)
                 /\ lat = LagDays(l.pred, l.succ)
  <2>1. LagDays(l.pred, l.succ) = Days(l.pred) /\ Days(l.succ) = Days(l.pred)
    BY LagOnOneCalendar
  <2> QED BY <1>1, <2>1, ActivityFacts
<1>3. PICK d \in Int : d = Duration(Task(l.pred)) /\ d > 0
  BY <1>1, ActivityFacts
<1>4. PICK c \in Int : c = Duration(Task(l.succ)) /\ c > 0
  BY <1>1, ActivityFacts
<1>5. PICK n \in Int, m \in Int : n = l.lag /\ m = -l.lag
  BY DEF ALink
<1>6. s \in Int /\ f \in Int /\ f - 1 \in lat /\ s \in lat
  <2>1. s \in Int /\ f \in Int /\ f - 1 \in Days(l.pred)
    BY <1>1, SpanFacts
  <2>2. s \in Days(l.pred)
    BY DEF IsSpan
  <2> QED BY <1>2, <2>1, <2>2
<1>7. /\ t \in Int /\ g \in Int /\ g - 1 \in lat /\ t \in lat
      /\ BisectLeft(lat, g - 1) = BisectLeft(lat, t) + (c - 1)
  <2>1. /\ t \in Int /\ g \in Int /\ g - 1 \in Days(l.succ)
        /\ BisectLeft(Days(l.succ), g - 1)
             = BisectLeft(Days(l.succ), t) + (Duration(Task(l.succ)) - 1)
    BY <1>1, SpanFacts
  <2>2. t \in Days(l.succ)
    BY DEF IsSpan
  <2> QED BY <1>2, <1>4, <2>1, <2>2
<1>8. \A w : BisectLeft(lat, w) \in Nat
  BY <1>2, PositionsCount
<1>9. lat \subseteq Int
  BY <1>2 DEF IsLattice
<1>10. net.lagCalendar # "twenty_four_hour"
  OBVIOUS
<1>11. \A w \in lat :
         /\ LagLands(w, n, "start", lat) =>
              \E v \in lat : AdvanceLag(w, n, "start", lat) = v /\ BisectLeft(lat, v) = BisectLeft(lat, w) + n
         /\ LagLands(w + 1, n, "finish", lat) =>
              \E v \in lat : AdvanceLag(w + 1, n, "finish", lat) = v + 1 /\ BisectLeft(lat, v) = BisectLeft(lat, w) + n
  BY <1>2, <1>10, LagPositions
<1>12. \A w \in lat :
         /\ LagLands(w, m, "start", lat) =>
              \E v \in lat : AdvanceLag(w, m, "start", lat) = v /\ BisectLeft(lat, v) = BisectLeft(lat, w) + m
         /\ LagLands(w + 1, m, "finish", lat) =>
              \E v \in lat : AdvanceLag(w + 1, m, "finish", lat) = v + 1 /\ BisectLeft(lat, v) = BisectLeft(lat, w) + m
  BY <1>2, <1>10, LagPositions
<1>13. PICK u \in lat : u = f - 1 /\ f = u + 1
  BY <1>6
<1>14. PICK r \in lat : r = g - 1 /\ g = r + 1
  BY <1>7
<1>15. CASE l.type = "FS"
  <2>1. /\ LagLands(f, n, "finish", lat) /\ LagLands(t, m, "start", lat)
        /\ ForwardBound(l, s, f) = AdvanceLag(f, n, "finish", lat)
        /\ BackwardBound(l, t, g) = AdvanceLag(t, m, "start", lat)
    BY <1>2, <1>5, <1>15 DEF BoundLands, BoundLandsBack, ForwardBound, BackwardBound,
       FromPredecessorStart, DrivesSuccessorFinish
  <2>2. PICK v \in lat : ForwardBound(l, s, f) = v + 1 /\ BisectLeft(lat, v) = BisectLeft(lat, u) + n
    BY <1>11, <1>13, <2>1
  <2>3. PICK x \in lat : BackwardBound(l, t, g) = x /\ BisectLeft(lat, x) = BisectLeft(lat, t) + m
    BY <1>7, <1>12, <2>1
  <2>4. u \in Int /\ x \in Int /\ v \in Int /\ u < x
    BY <1>6, <1>9, <1>13, <2>3
  <2>5. BisectLeft(lat, u) < BisectLeft(lat, x)
    BY <1>2, <2>4, PositionsGrow
  <2>6. BisectLeft(lat, v) < BisectLeft(lat, t)
    BY <1>5, <1>8, <2>2, <2>3, <2>5
  <2>7. t <= v => BisectLeft(lat, t) <= BisectLeft(lat, v)
    BY <1>2, <1>7, <2>4, PositionsGrow
  <2>8. v < t
    BY <1>7, <1>8, <2>4, <2>6, <2>7
  <2> QED BY <1>7, <2>2, <2>4, <2>8
<1>16. CASE l.type = "SS"
  <2>1. PICK x : x = AdvanceLag(t, m, "start", lat)
    OBVIOUS
  <2>2. PICK e : e = FinishFromStart(lat, SnapStartBack(lat, x), d)
    OBVIOUS
  <2>3. /\ LagLands(s, n, "start", lat) /\ LagLands(t, m, "start", lat)
        /\ ForwardBound(l, s, f) = AdvanceLag(s, n, "start", lat)
    BY <1>2, <1>5, <1>16 DEF BoundLands, BoundLandsBack, ForwardBound,
       FromPredecessorStart, DrivesSuccessorFinish
  <2>4. BackwardBound(l, t, g) = e /\ SpanLands(lat, SnapStartBack(lat, x), d)
    BY <1>2, <1>3, <1>5, <1>16, <2>1, <2>2 DEF BoundLandsBack, BackwardBound,
       FromPredecessorStart, DrivesSuccessorFinish
  <2>5. PICK v \in lat : ForwardBound(l, s, f) = v /\ BisectLeft(lat, v) = BisectLeft(lat, s) + n
    BY <1>6, <1>11, <2>3
  <2>6. x \in lat /\ BisectLeft(lat, x) = BisectLeft(lat, t) + m
    BY <1>7, <1>12, <2>1, <2>3
  <2>7. SnapStartBack(lat, x) = x
    BY <1>2, <2>6, WorkingInstantsStay
  <2>8. IsSpan(l.pred, x, e)
    BY <1>2, <1>3, <2>2, <2>4, <2>6, <2>7 DEF IsSpan
  <2>9. s <= x
    BY <1>1, <2>4, <2>8, SpansAreOrdered
  <2>10. x \in Int /\ v \in Int
    BY <1>9, <2>6
  <2>11. BisectLeft(lat, s) <= BisectLeft(lat, x)
    BY <1>2, <1>6, <2>9, <2>10, PositionsGrow
  <2>12. BisectLeft(lat, t) >= BisectLeft(lat, v)
    BY <1>5, <1>8, <2>5, <2>6, <2>11
  <2> QED BY <1>2, <1>7, <2>5, <2>10, <2>12, PositionReached
<1>17. CASE l.type = "FF"
  <2>1. PICK b : b = AdvanceLag(f, n, "finish", lat)
    OBVIOUS
  <2>2. PICK y : y = SnapFinishForward(lat, b)
    OBVIOUS
  <2>3. /\ LagLands(f, n, "finish", lat) /\ LagLands(g, m, "finish", lat)
        /\ SpanLandsBack(lat, y, c) /\ ForwardBound(l, s, f) = StartFromFinish(lat, y, c)
        /\ BackwardBound(l, t, g) = AdvanceLag(g, m, "finish", lat)
    BY <1>2, <1>4, <1>5, <1>17, <2>1, <2>2 DEF BoundLands, BoundLandsBack, ForwardBound,
       BackwardBound, FromPredecessorStart, DrivesSuccessorFinish
  <2>4. PICK v \in lat : b = v + 1 /\ BisectLeft(lat, v) = BisectLeft(lat, u) + n
    BY <1>11, <1>13, <2>1, <2>3
  <2>5. PICK x \in lat : BackwardBound(l, t, g) = x + 1 /\ BisectLeft(lat, x) = BisectLeft(lat, r) + m
    BY <1>12, <1>14, <2>3
  <2>6. u \in Int /\ x \in Int /\ v \in Int /\ u <= x
    <3>1. u \in Int /\ x \in Int /\ v \in Int
      BY <1>9
    <3>2. u + 1 <= x + 1
      BY <1>13, <2>5
    <3> QED BY <3>1, <3>2
  <2>7. BisectLeft(lat, u) <= BisectLeft(lat, x)
    BY <1>2, <2>6, PositionsGrow
  <2>8. SnapStartForward(lat, v) = v /\ SnapStartBack(lat, v) = v
    BY <1>2, WorkingInstantsStay
  <2>9. b - 1 = v
    BY <2>4, <2>6
  <2>10. y = v + 1 /\ y - 1 = v
    BY <2>2, <2>6, <2>8, <2>9 DEF SnapFinishForward
  <2>11. 1 - c \in Int /\ -(c - 1) = 1 - c /\ c # 0 /\ Lands(lat, v, 1 - c)
    BY <1>4, <2>3, <2>8, <2>10 DEF SpanLandsBack
  <2>12. PICK z \in lat : z = AddWorkingDays(lat, v, 1 - c)
                          /\ BisectLeft(lat, z) = BisectLeft(lat, v) + (1 - c)
    BY <1>2, <2>11, AddLands
  <2>13. ForwardBound(l, s, f) = z
    BY <2>3, <2>8, <2>10, <2>11, <2>12 DEF StartFromFinish, SubWorkingDays
  <2>14. BisectLeft(lat, t) >= BisectLeft(lat, z)
    BY <1>4, <1>5, <1>7, <1>8, <1>14, <2>4, <2>5, <2>7, <2>12
  <2>15. z \in Int
    BY <1>9
  <2> QED BY <1>2, <1>7, <2>13, <2>14, <2>15, PositionReached
<1> QED BY <1>1, <1>15, <1>16, <1>17

-----------------------------------------------------------------------------
\* The backward pass.

\* The bound an active link puts on the late finish of its predecessor.
BackBound(k) == BackwardBound(Link(k), ls[edges[k][2]], lf[edges[k][2]])

\* The inner loop over the successors of order[at]: bound is the least bound met so
\* far, and the bound of one of the links.
SuccessorsConsidered ==
  phase = "backward" =>
    /\ (bound # None \/ cand # 1) => at >= 1 /\ ~IsComplete(Task(order[at]))
    /\ at >= 1 =>
         \A k \in DOMAIN edges :
           edges[k][1] = order[at] /\ k < cand => bound # None /\ bound <= BackBound(k)
    /\ bound # None =>
         \E k \in DOMAIN edges : edges[k][1] = order[at] /\ bound = BackBound(k)

\* The latest finish of a is the deadline or what a successor of it allows, whichever
\* comes first.
IsLatest(a, latest) ==
  /\ latest \in Int /\ latest <= deadline
  /\ \A k \in Successors(a) : latest <= BackBound(k)
  /\ latest = deadline \/ \E k \in Successors(a) : latest = BackBound(k)

\* Open work without a constraint ends on the last of its days before then, and
\* starts its days before that.
LateAsAsked(a) ==
  Open(a) /\ Task(a).constraint = "none" =>
    \E latest \in Int :
      /\ IsLatest(a, latest)
      /\ lf[a] = IF Duration(Task(a)) = 0 THEN latest ELSE SnapFinishBack(Days(a), latest)
      /\ ls[a] = StartFromFinish(Days(a), lf[a], Duration(Task(a)))

\* All that the backward pass has dated.
LateDatesAsked ==
  /\ phase = "backward" => \A j \in DOMAIN order : j > at => LateAsAsked(order[j])
  /\ phase \in {"alap", "float", "done"} => \A a \in Node : LateAsAsked(a)

\* A link out of the activity being placed leads to one placed already, and a link out
\* of one placed already does not lead back.
LEMMA SuccessorIsLater ==
  ASSUME Structure, phase = "backward", at >= 1, NEW j \in DOMAIN order, j >= at,
         NEW k \in DOMAIN edges, edges[k][1] = order[j]
  PROVE  \E i \in DOMAIN order : i > at /\ i > j /\ order[i] = edges[k][2] /\ edges[k][2] # order[at]
<1>1. KahnInv /\ NetworkFixed /\ sort = "ordered" /\ at \in Nat /\ at <= Len(order)
  BY DEF Structure, PhaseOrder, Passes, DatesTyped
<1>2. /\ DOMAIN order = 1..Len(order) /\ Len(order) \in Nat
      /\ \A i, m \in DOMAIN order : order[i] = order[m] => i = m
      /\ \A b \in Node : \E i \in DOMAIN order : order[i] = b
  BY <1>1, OrderFacts
<1>3. PICK i \in DOMAIN order : order[i] = edges[k][2]
  BY <1>1, <1>2, EdgeFacts
<1>4. PICK m \in DOMAIN order : m < i /\ order[m] = edges[k][1]
  BY <1>1, <1>3, OrderFacts
<1>5. m = j
  BY <1>2, <1>4
<1>6. i > at /\ i > j
  BY <1>1, <1>2, <1>4, <1>5
<1>7. at \in DOMAIN order
  BY <1>1, <1>2
<1>8. edges[k][2] # order[at]
  BY <1>1, <1>2, <1>3, <1>6, <1>7
<1> QED BY <1>3, <1>6, <1>8

\* So the bound of such a link stands.
LEMMA BackBoundKnown ==
  ASSUME Structure, LateDated, phase = "backward", at >= 1,
         NEW k \in DOMAIN edges, edges[k][1] = order[at]
  PROVE  BackBound(k) \in Int /\ ls[edges[k][2]] # None
<1>1. /\ at \in DOMAIN order /\ at >= at
  <2>1. KahnInv /\ sort = "ordered" /\ at \in Nat /\ at <= Len(order)
    BY DEF Structure, PhaseOrder, Passes, DatesTyped
  <2> QED BY <2>1, OrderFacts
<1>2. PICK i \in DOMAIN order : i > at /\ order[i] = edges[k][2]
  BY <1>1, SuccessorIsLater
<1>3. edges[k][2] \in Node /\ Link(k) \in ALink
  BY EdgeFacts DEF Structure
<1>4. lf[edges[k][2]] # None
  BY <1>2 DEF LateDated
<1>5. /\ ls[edges[k][2]] \in Int /\ lf[edges[k][2]] \in Int /\ ls[edges[k][2]] # None
  BY <1>3, <1>4 DEF Structure, DatesTyped, MaybeInt
<1> QED BY <1>3, <1>5, BackwardBoundIsInteger DEF BackBound, Structure, NetworkFixed

\* It stands until its successor's late dates change.
LEMMA BackBoundStays ==
  ASSUME net' = net, edges' = edges, NEW k \in DOMAIN edges,
         ls'[edges[k][2]] = ls[edges[k][2]], lf'[edges[k][2]] = lf[edges[k][2]]
  PROVE  BackBound(k)' = BackBound(k)
BY DEF BackBound, BackwardBound, AdvanceLag, LagDays, Link, Task, Days

\* The loop over the successors keeps the running minimum.
LEMMA SuccessorsConsideredStep ==
  ASSUME Structure, LinksConsidered, LateDated, SuccessorsConsidered, [CPMNext]_vars
  PROVE  SuccessorsConsidered'
<1>1. net' = net /\ edges' = edges /\ LinkPositions
  BY StepsKeepTheNetwork
     DEF LinkPositions, Structure, NetworkFixed, IsNetwork, ActiveEdges
<1>2. CASE bound' = None /\ cand' = 1
  BY <1>1, <1>2 DEF SuccessorsConsidered, LinkPositions
<1>3. CASE SetDeadline
  <2>1. phase = "forward" /\ at = Len(order) + 1 /\ bound' = bound /\ cand' = cand
    BY <1>3 DEF SetDeadline
  <2>2. Len(order) \in Nat
    BY <2>1, OrderFacts DEF Structure, PhaseOrder, Passes
  <2>3. ~(at <= Len(order))
    BY <2>1, <2>2
  <2>4. bound = None /\ cand = 1
    BY <2>1, <2>3 DEF LinksConsidered
  <2> QED BY <1>2, <2>1, <2>4
<1>4. CASE KeepActualsLate
  <2>1. /\ phase = "backward" /\ at >= 1 /\ IsComplete(Task(order[at]))
        /\ bound' = bound /\ cand' = cand
    BY <1>4 DEF KeepActualsLate
  <2>2. bound = None /\ cand = 1
    BY <2>1 DEF SuccessorsConsidered
  <2> QED BY <1>2, <2>1, <2>2
<1>5. CASE PlaceLate
  BY <1>2, <1>5 DEF PlaceLate
<1>6. CASE ConsiderSuccessor
  <2>1. /\ phase = "backward" /\ at >= 1 /\ ~IsComplete(Task(order[at]))
        /\ UNCHANGED <<phase, at, order, ls, lf>>
    BY <1>6 DEF ConsiderSuccessor, kahnVars, lateVars
  <2>2. PICK n \in DOMAIN edges :
          /\ IsNextEdge(order[at], cand, n) /\ cand' = n + 1
          /\ bound' = IF ls[edges[n][2]] # None /\ (bound = None \/ BackBound(n) < bound)
                      THEN BackBound(n) ELSE bound
    BY <1>6 DEF ConsiderSuccessor, BackBound
  <2>3. edges[n][1] = order[at] /\ cand \in Nat /\ cand <= n
    BY <2>2 DEF IsNextEdge, Structure, DatesTyped
  <2>4. ls[edges[n][2]] # None /\ BackBound(n) \in Int
    BY <2>1, <2>3, BackBoundKnown
  <2>5. \A k \in DOMAIN edges : BackBound(k)' = BackBound(k)
    BY <1>1, <2>1, BackBoundStays
  <2>6. bound' # None /\ bound' <= BackBound(n)
    BY <2>2, <2>4, NoneAssumption DEF Structure, DatesTyped, MaybeInt
  <2>7. ASSUME NEW k \in DOMAIN edges, edges[k][1] = order[at], k < n + 1
        PROVE  bound' <= BackBound(k)
    <3>1. k \in Nat /\ n \in Nat /\ BackBound(k) \in Int
      BY <1>1, <2>1, <2>7, BackBoundKnown DEF LinkPositions
    <3>2. CASE k < cand
      <4>1. bound # None /\ bound <= BackBound(k)
        BY <2>1, <2>7, <3>2 DEF SuccessorsConsidered
      <4>2. bound \in Int
        BY <4>1 DEF Structure, DatesTyped, MaybeInt
      <4> QED BY <2>2, <2>4, <3>1, <4>1, <4>2
    <3>3. CASE ~(k < cand)
      <4>1. k = n
        BY <2>2, <2>3, <2>7, <3>1, <3>3 DEF IsNextEdge
      <4> QED BY <2>6, <4>1
    <3> QED BY <3>2, <3>3
  <2>8. \E k \in DOMAIN edges : edges[k][1] = order[at] /\ bound' = BackBound(k)
    <3>1. CASE bound' = BackBound(n)
      BY <2>3, <3>1
    <3>2. CASE bound' # BackBound(n)
      <4>1. bound' = bound /\ bound # None
        BY <2>2, <2>6, <3>2
      <4> QED BY <2>1, <4>1 DEF SuccessorsConsidered
    <3> QED BY <3>1, <3>2
  <2>9. (~IsComplete(Task(order[at])))'
    BY <1>1, <2>1 DEF Task, IsComplete
  <2> QED BY <1>1, <2>1, <2>2, <2>5, <2>6, <2>7, <2>8, <2>9 DEF SuccessorsConsidered
<1>7. CASE phase' # "backward"
  BY <1>7 DEF SuccessorsConsidered
<1>8. CASE UNCHANGED vars
  <2>1. UNCHANGED <<phase, at, order, ls, lf, cand, bound>>
    BY <1>8 DEF vars, kahnVars, cpmVars, passVars, lateVars
  <2>2. \A k \in DOMAIN edges : BackBound(k)' = BackBound(k)
    BY <1>1, <2>1, BackBoundStays
  <2>3. Task(order[at])' = Task(order[at])
    BY <1>1, <2>1 DEF Task
  <2> QED BY <1>1, <2>1, <2>2, <2>3 DEF SuccessorsConsidered, IsComplete
<1>9. CASE Validate \/ Sort \/ StartForward \/ Forward \/ StartPostPass \/ PostPass
  <2>1. PostPass => phase' \in {"alap", "float", "done"}
    BY DEF PostPass, SlideLate, StartFloat, MeasureFloat, Return
  <2>2. Sort => phase' = "sort"
    BY DEF Sort, cpmVars
  <2>3. Forward => phase' = "forward"
    BY DEF Forward, KeepActuals, ConsiderPredecessor, PlaceEarly
  <2>4. phase' # "backward"
    BY <1>9, <2>1, <2>2, <2>3 DEF Validate, StartForward, StartPostPass
  <2> QED BY <1>7, <2>4
<1> QED BY <1>3, <1>4, <1>5, <1>6, <1>8, <1>9 DEF CPMNext, Backward

\* What decides the late dates of an activity already placed does not change when
\* another one is placed.
LEMMA LateAsAskedStays ==
  ASSUME net' = net, edges' = edges, deadline' = deadline, NEW a,
         ls'[a] = ls[a], lf'[a] = lf[a],
         \A k \in Successors(a) : ls'[edges[k][2]] = ls[edges[k][2]]
                                  /\ lf'[edges[k][2]] = lf[edges[k][2]],
         LateAsAsked(a)
  PROVE  LateAsAsked(a)'
<1>1. /\ Open(a)' = Open(a) /\ Days(a)' = Days(a) /\ Task(a)' = Task(a)
      /\ Successors(a)' = Successors(a)
  BY DEF Open, Task, Days, Successors
<1>2. \A k \in Successors(a) : BackBound(k)' = BackBound(k)
  BY BackBoundStays DEF Successors
<1>3. \A latest : IsLatest(a, latest)' <=> IsLatest(a, latest)
  BY <1>1, <1>2 DEF IsLatest
<1> QED BY <1>1, <1>3 DEF LateAsAsked

\* Placing an activity gives it the dates its successors and the deadline ask for.
LEMMA PlacedLateAsAsked ==
  ASSUME Structure, LateDated, SuccessorsConsidered, PlaceLate, net' = net, edges' = edges,
         NEW a, a = order[at]
  PROVE  LateAsAsked(a)'
<1>1. /\ a \in Node /\ phase = "backward" /\ at >= 1 /\ NoLinkOutOf(a, cand)
      /\ deadline' = deadline /\ deadline \in Int
  <2>1. a \in Node /\ phase = "backward" /\ NoLinkOutOf(a, cand)
    BY LatePlaced
  <2> QED BY <2>1 DEF PlaceLate, spanVars, Structure, PhaseOrder, Passes
<1>2. PICK x \in Int, y \in Int, latest \in Int :
        /\ lf' = [lf EXCEPT ![a] = x] /\ ls' = [ls EXCEPT ![a] = y]
        /\ latest = LatestFinish(Days(a), Task(a))
        /\ x = IF Duration(Task(a)) = 0 THEN latest ELSE SnapFinishBack(Days(a), latest)
        /\ y = StartFromFinish(Days(a), x, Duration(Task(a)))
  BY LatePlaced
<1>3. lf'[a] = x /\ ls'[a] = y
  BY <1>1, <1>2 DEF Structure, DatesTyped
<1>4. /\ Open(a)' = Open(a) /\ Days(a)' = Days(a) /\ Task(a)' = Task(a)
      /\ Successors(a)' = Successors(a)
  BY DEF Open, Task, Days, Successors
<1>5. \A k \in Successors(a) : /\ k \in DOMAIN edges /\ edges[k][1] = a /\ BackBound(k) \in Int
                               /\ BackBound(k)' = BackBound(k)
  <2> SUFFICES ASSUME NEW k \in Successors(a)
               PROVE  /\ k \in DOMAIN edges /\ edges[k][1] = a /\ BackBound(k) \in Int
                      /\ BackBound(k)' = BackBound(k)
    OBVIOUS
  <2>1. k \in DOMAIN edges /\ edges[k][1] = a /\ BackBound(k) \in Int
    BY <1>1, BackBoundKnown DEF Successors
  <2>2. at \in DOMAIN order /\ at >= at
    <3>1. KahnInv /\ sort = "ordered" /\ at \in Nat /\ at <= Len(order)
      BY <1>1 DEF Structure, PhaseOrder, Passes, DatesTyped
    <3> QED BY <1>1, <3>1, OrderFacts
  <2>3. edges[k][2] # a
    BY <1>1, <2>1, <2>2, SuccessorIsLater
  <2> QED BY <1>2, <2>1, <2>3, BackBoundStays
<1>6. Task(a).constraint = "none" =>
        latest = IF bound = None THEN deadline ELSE Earlier(bound, deadline)
  <2>1. Task(a).constraint = "none" => LateCap(Days(a), Task(a)) = None
    BY DEF LateCap, HasConstraint
  <2> QED BY <1>2, <2>1 DEF LatestFinish
<1>7. bound # None => bound \in Int
  BY DEF Structure, DatesTyped, MaybeInt
<1>8. \A k \in Successors(a) : bound # None /\ bound <= BackBound(k)
  <2>1. \A k \in Successors(a) : k < cand
    <3>1. \A k \in Successors(a) : k \in Int /\ cand \in Int
      BY <1>5, EdgeFacts DEF Structure, DatesTyped
    <3> QED BY <1>1, <1>5, <3>1 DEF NoLinkOutOf
  <2> QED BY <1>1, <1>5, <2>1 DEF SuccessorsConsidered
<1>9. bound # None => \E k \in Successors(a) : bound = BackBound(k)
  BY <1>1 DEF SuccessorsConsidered, Successors
<1>10. Task(a).constraint = "none" => IsLatest(a, latest)'
  <2> SUFFICES ASSUME Task(a).constraint = "none" PROVE IsLatest(a, latest)'
    OBVIOUS
  <2>1. CASE bound = None
    <3>1. latest = deadline /\ Successors(a) = {}
      BY <1>6, <1>8, <2>1
    <3> QED BY <1>1, <1>4, <3>1 DEF IsLatest
  <2>2. CASE bound # None
    <3>1. latest <= deadline /\ latest <= bound /\ (latest = deadline \/ latest = bound)
      BY <1>1, <1>6, <1>7, <2>2 DEF Earlier
    <3>2. \A k \in Successors(a) : latest <= BackBound(k)
      BY <1>5, <1>7, <1>8, <2>2, <3>1
    <3>3. latest = deadline \/ \E k \in Successors(a) : latest = BackBound(k)
      BY <1>9, <2>2, <3>1
    <3> QED BY <1>1, <1>4, <1>5, <3>1, <3>2, <3>3 DEF IsLatest
  <2> QED BY <2>1, <2>2
<1> QED BY <1>2, <1>3, <1>4, <1>10 DEF LateAsAsked

\* No step breaks them.
LEMMA LateDatesAskedStep ==
  ASSUME Structure, LateDated, SuccessorsConsidered, LateDatesAsked, [CPMNext]_vars
  PROVE  LateDatesAsked'
<1>1. net' = net /\ edges' = edges /\ (phase # "sort" => UNCHANGED order)
  BY StepsKeepTheNetwork DEF kahnVars
<1>2. CASE KeepActualsLate \/ PlaceLate
  <2>1. /\ phase = "backward" /\ phase' = "backward" /\ at' = at - 1 /\ at >= 1 /\ at \in Nat
        /\ deadline' = deadline /\ order' = order
    BY <1>1, <1>2 DEF KeepActualsLate, PlaceLate, spanVars, Structure, DatesTyped
  <2>2. PICK a : a = order[at]
    OBVIOUS
  <2>3. PICK x, y : lf' = [lf EXCEPT ![a] = x] /\ ls' = [ls EXCEPT ![a] = y]
    <3>1. CASE KeepActualsLate
      BY <2>2, <3>1 DEF KeepActualsLate
    <3>2. CASE PlaceLate
      BY <2>2, <3>2, LatePlaced
    <3> QED BY <1>2, <3>1, <3>2
  <2>4. /\ KahnInv /\ sort = "ordered" /\ at \in DOMAIN order
        /\ \A j \in DOMAIN order : j \in Nat
        /\ \A i, j \in DOMAIN order : order[i] = order[j] => i = j
    <3>1. KahnInv /\ sort = "ordered" /\ at \in Nat /\ at <= Len(order)
      BY <2>1 DEF Structure, PhaseOrder, Passes, DatesTyped
    <3> QED BY <2>1, <3>1, OrderFacts
  <2>5. LateAsAsked(a)'
    <3>1. CASE KeepActualsLate
      <4>1. ~Open(a)'
        BY <1>1, <2>2, <3>1 DEF KeepActualsLate, IsComplete, Open, Task
      <4> QED BY <4>1 DEF LateAsAsked
    <3>2. CASE PlaceLate
      BY <1>1, <2>2, <3>2, PlacedLateAsAsked
    <3> QED BY <1>2, <3>1, <3>2
  <2>6. ASSUME NEW j \in DOMAIN order, j > at - 1, NEW b, b = order[j]
        PROVE  LateAsAsked(b)'
    <3>1. CASE j = at
      BY <2>2, <2>5, <2>6, <3>1
    <3>2. CASE j # at
      <4>1. j > at
        BY <2>1, <2>4, <2>6, <3>2
      <4>2. LateAsAsked(b)
        BY <2>1, <2>6, <4>1 DEF LateDatesAsked
      <4>3. b # a
        BY <2>2, <2>4, <2>6, <3>2
      <4>4. \A k \in Successors(b) : edges[k][2] # a
        <5>1. j >= at
          BY <2>1, <2>4, <4>1
        <5> QED BY <2>1, <2>2, <2>6, <5>1, SuccessorIsLater DEF Successors
      <4>5. ls'[b] = ls[b] /\ lf'[b] = lf[b]
        BY <2>3, <4>3
      <4>6. \A k \in Successors(b) : ls'[edges[k][2]] = ls[edges[k][2]]
                                     /\ lf'[edges[k][2]] = lf[edges[k][2]]
        BY <2>3, <4>4
      <4> QED BY <1>1, <2>1, <4>2, <4>5, <4>6, LateAsAskedStays
    <3> QED BY <3>1, <3>2
  <2> QED BY <2>1, <2>6 DEF LateDatesAsked
<1>3. CASE UNCHANGED <<ls, lf, deadline>>
  <2>1. \A a : LateAsAsked(a) => LateAsAsked(a)'
    BY <1>1, <1>3, LateAsAskedStays
  <2>2. CASE StartPostPass
    <3>1. phase = "backward" /\ at = 0 /\ phase' \in {"alap", "float"}
      BY <2>2 DEF StartPostPass
    <3>2. \A a \in Node : \E j \in DOMAIN order : order[j] = a /\ j > 0
      BY <3>1, OrderFacts DEF Structure, PhaseOrder, Passes
    <3>3. \A a \in Node : LateAsAsked(a)
      BY <3>1, <3>2 DEF LateDatesAsked
    <3> QED BY <2>1, <3>1, <3>3 DEF LateDatesAsked
  <2>3. CASE ~SetDeadline /\ ~StartPostPass /\ ~KeepActualsLate /\ ~PlaceLate
    <3>1. /\ phase' = "backward" => phase = "backward" /\ at' = at
          /\ phase' \in {"alap", "float", "done"} => phase \in {"alap", "float", "done"}
      BY <2>3 DEF CPMNext, Validate, Sort, StartForward, Forward, KeepActuals,
         ConsiderPredecessor, PlaceEarly, Backward, ConsiderSuccessor, PostPass, SlideLate,
         StartFloat, MeasureFloat, Return, vars, cpmVars, passVars
    <3> QED BY <1>1, <2>1, <3>1 DEF LateDatesAsked
  <2>4. CASE SetDeadline /\ ~StartPostPass
    <3>1. phase = "forward" /\ phase' = "backward" /\ at' = Len(order)
      BY <2>4 DEF SetDeadline
    <3>2. \A j \in DOMAIN order : ~(j > Len(order))
      BY <3>1, OrderFacts DEF Structure, PhaseOrder, Passes
    <3> QED BY <1>1, <3>1, <3>2 DEF LateDatesAsked
  <2> QED BY <1>2, <2>2, <2>3, <2>4
<1>4. CASE SetDeadline
  <2>1. phase = "forward" /\ phase' = "backward" /\ at' = Len(order)
    BY <1>4 DEF SetDeadline
  <2>2. \A j \in DOMAIN order : ~(j > Len(order))
    BY <2>1, OrderFacts DEF Structure, PhaseOrder, Passes
  <2> QED BY <1>1, <2>1, <2>2 DEF LateDatesAsked
<1>5. KeepActualsLate \/ PlaceLate \/ SetDeadline \/ UNCHANGED <<ls, lf, deadline>>
  <2> USE DEF passVars, earlyVars, lateVars, spanVars, floatVars, cpmVars, vars
  <2>1. CASE Validate \/ Sort \/ StartForward
    BY <2>1 DEF Validate, Sort, StartForward
  <2>2. CASE Forward
    BY <2>2 DEF Forward, ConsiderPredecessor, KeepActuals, PlaceEarly
  <2>3. CASE Backward
    BY <2>3 DEF Backward, ConsiderSuccessor
  <2>4. CASE StartPostPass
    BY <2>4 DEF StartPostPass
  <2>5. CASE PostPass
    BY <2>5 DEF PostPass, SlideLate, StartFloat, MeasureFloat, Return
  <2>6. CASE UNCHANGED vars
    BY <2>6
  <2> QED BY <2>1, <2>2, <2>3, <2>4, <2>5, <2>6 DEF CPMNext
<1> QED BY <1>2, <1>3, <1>4, <1>5

\* In every run late dates are as the deadline and the successors ask.
LEMMA LateDatesAskedHolds == CPMSpec => [](SuccessorsConsidered /\ LateDatesAsked)
<1>1. CPMInit => SuccessorsConsidered /\ LateDatesAsked
  BY DEF CPMInit, SuccessorsConsidered, LateDatesAsked
<1>2. CPMInv /\ (CapsKept /\ LateDated /\ FloatsMeasured)
        /\ (SuccessorsConsidered /\ LateDatesAsked) /\ [CPMNext]_vars
      => (SuccessorsConsidered /\ LateDatesAsked)'
  <2>1. CPMInv => Structure /\ LinksConsidered
    BY DEF CPMInv
  <2> QED BY <2>1, SuccessorsConsideredStep, LateDatesAskedStep
<1> QED BY <1>1, <1>2, CPMInvariant, CapsAndFloats, PTL DEF CPMSpec

-----------------------------------------------------------------------------
\* The finish the late dates run from, and what drives the activities, when nothing
\* is to be done as late as possible.

\* The project finishes with the terminal activity, and with no activity later.
FinishSet ==
  /\ terminal \in Node /\ projectFinish \in Int
  /\ net.mustFinishBy = None => deadline = projectFinish
  /\ ef[terminal] = projectFinish
  /\ \A a \in Node : ef[a] <= projectFinish

FinishUnlessAlap == phase \in {"backward", "alap", "float", "done"} /\ NoAlap => FinishSet

\* An activity with a driver starts where the link from it says.
Driven(a) ==
  driving[a] # None =>
    \E k \in DOMAIN edges :
      edges[k] = <<driving[a], a>> /\ es[a] = SnapStartForward(Days(a), LinkBound(k))

DrivenUnlessAlap ==
  phase \in Passes /\ NoAlap =>
    \A a \in Node : es[a] # None /\ ~IsComplete(Task(a)) => Driven(a)

\* The terminal activity is one that ends the project.
LEMMA TerminalEnds ==
  ASSUME KahnInv, sort = "ordered", NEW b \in Node
  PROVE  TerminalActivity(ef[b]) \in Node /\ ef[TerminalActivity(ef[b])] = ef[b]
<1>1. /\ DOMAIN order = 1..Len(order) /\ Len(order) \in Nat
      /\ \A i \in DOMAIN order : order[i] \in Node
      /\ \E i \in DOMAIN order : order[i] = b
  BY OrderFacts
<1>2. PICK last : last = {i \in DOMAIN order : ef[order[i]] = ef[b]}
  OBVIOUS
<1>3. PICK open : open = {i \in last : ~IsComplete(Task(order[i]))}
  OBVIOUS
<1>4. PICK pool : pool = IF open # {} THEN open ELSE last
  OBVIOUS
<1>5. PICK m : m = CHOOSE i \in pool : IsLeast(pool, i)
  OBVIOUS
<1>6. TerminalActivity(ef[b]) = order[m]
  BY <1>2, <1>3, <1>4, <1>5 DEF TerminalActivity
<1>7. pool # {} /\ pool \subseteq last
  BY <1>1, <1>2, <1>3, <1>4
<1>8. pool \in SUBSET (1..Len(order))
  BY <1>1, <1>2, <1>7
<1>9. pool \in SUBSET Int /\ IsFiniteSet(pool)
  <2>1. 1 \in Int /\ Len(order) \in Int
    BY <1>1
  <2>2. IsFiniteSet(1..Len(order))
    BY <2>1, FS_Interval
  <2>3. IsFiniteSet(pool)
    BY <1>8, <2>2, FS_Subset
  <2>4. \A i \in 1..Len(order) : i \in Int
    OBVIOUS
  <2> QED BY <1>8, <2>3, <2>4
<1>10. \E i \in pool : IsLeast(pool, i)
  BY <1>7, <1>9, HasLeast DEF IsLeast
<1>11. m \in pool
  BY <1>5, <1>10
<1> QED BY <1>1, <1>2, <1>6, <1>7, <1>11

\* Only the step that sets the deadline writes the project finish, and it takes the
\* latest of the early finishes.
LEMMA FinishUnlessAlapStep ==
  ASSUME Structure, FinishUnlessAlap, [CPMNext]_vars
  PROVE  FinishUnlessAlap'
<1>1. net' = net
  BY StepsKeepTheNetwork
<1>2. NoAlap' <=> NoAlap
  BY <1>1 DEF NoAlap, IsAlap, Task
<1>3. CASE SetDeadline
  <2>1. /\ phase = "forward" /\ at = Len(order) + 1 /\ UNCHANGED <<es, ef>>
        /\ KahnInv /\ sort = "ordered"
    BY <1>3 DEF SetDeadline, earlyVars, Structure, PhaseOrder, Passes
  <2>2. PICK b \in Node : /\ \A a \in Node : ef[a] <= ef[b]
                          /\ projectFinish' = ef[b] /\ terminal' = TerminalActivity(ef[b])
                          /\ net.mustFinishBy = None => deadline' = ef[b]
    <3>1. PICK f \in {ef[a] : a \in Node} :
            /\ \A a \in Node : ef[a] <= f
            /\ projectFinish' = f
            /\ terminal' = TerminalActivity(f)
            /\ deadline' = IF net.mustFinishBy = None THEN f ELSE net.mustFinishBy + 1
      BY <1>3 DEF SetDeadline
    <3> QED BY <3>1
  <2>3. terminal' \in Node /\ ef[terminal'] = ef[b]
    BY <2>1, <2>2, TerminalEnds
  <2>4. ef[b] \in Int
    <3>1. \A j \in DOMAIN order : j < at
      BY <2>1, OrderFacts
    <3>2. \E j \in DOMAIN order : order[j] = b
      BY <2>1, OrderFacts
    <3>3. ef[b] # None
      BY <2>1, <3>1, <3>2 DEF Structure, DatedPrefix
    <3> QED BY <3>3 DEF Structure, DatesTyped, MaybeInt
  <2> QED BY <1>1, <2>1, <2>2, <2>3, <2>4 DEF FinishUnlessAlap, FinishSet
<1>4. CASE ~SetDeadline
  <2>1. /\ phase' \in {"backward", "alap", "float", "done"}
             => /\ phase \in {"backward", "alap", "float", "done"}
                /\ UNCHANGED <<terminal, projectFinish, deadline>>
        /\ phase' = "backward" => UNCHANGED <<es, ef>>
    <3> USE DEF passVars, earlyVars, lateVars, spanVars, floatVars, cpmVars, vars
    <3>1. CASE Validate \/ Sort \/ StartForward
      BY <3>1 DEF Validate, Sort, StartForward
    <3>2. CASE Forward
      BY <3>2 DEF Forward, ConsiderPredecessor, KeepActuals, PlaceEarly
    <3>3. CASE Backward
      BY <3>3 DEF Backward, ConsiderSuccessor, KeepActualsLate, PlaceLate
    <3>4. CASE StartPostPass
      BY <3>4 DEF StartPostPass
    <3>5. CASE PostPass
      BY <3>5 DEF PostPass, SlideLate, StartFloat, MeasureFloat, Return
    <3>6. CASE UNCHANGED vars
      BY <3>6
    <3> QED BY <1>4, <3>1, <3>2, <3>3, <3>4, <3>5, <3>6 DEF CPMNext
  <2>2. ASSUME phase' \in {"backward", "alap", "float", "done"}, NoAlap
        PROVE  FinishSet'
    <3>1. UNCHANGED <<es, ef>>
      BY <2>1, <2>2, DatesStay
    <3>2. FinishSet
      BY <2>1, <2>2 DEF FinishUnlessAlap
    <3> QED BY <1>1, <2>1, <2>2, <3>1, <3>2 DEF FinishSet
  <2> QED BY <1>2, <2>2 DEF FinishUnlessAlap
<1> QED BY <1>3, <1>4

\* In every run without work to be done late the finish is the terminal activity's.
LEMMA FinishHolds == CPMSpec => []FinishUnlessAlap
<1>1. CPMInit => FinishUnlessAlap
  BY DEF CPMInit, FinishUnlessAlap
<1> QED BY <1>1, FinishUnlessAlapStep, StructureHolds, PTL DEF CPMSpec

\* And every activity starts where its driver says.
LEMMA DrivenHolds == CPMSpec => []DrivenUnlessAlap
<1>1. CPMInit => DrivenUnlessAlap
  BY DEF CPMInit, DrivenUnlessAlap, Passes
<1>2. Structure /\ DrivenUnlessAlap /\ (LinksHonoured /\ StartIsExplained)' /\ [CPMNext]_vars
      => DrivenUnlessAlap'
  <2> SUFFICES ASSUME Structure, DrivenUnlessAlap, StartIsExplained', [CPMNext]_vars
               PROVE  DrivenUnlessAlap'
    OBVIOUS
  <2>1. net' = net /\ edges' = edges
    BY StepsKeepTheNetwork
  <2>2. NoAlap' <=> NoAlap
    BY <2>1 DEF NoAlap, IsAlap, Task
  <2>3. CASE phase' \in {"forward", "backward"}
    BY <2>3 DEF DrivenUnlessAlap, StartIsExplained, Driven
  <2>4. CASE phase' \in {"alap", "float", "done"} /\ NoAlap
    <3>1. phase \in Passes /\ UNCHANGED <<es, ef>>
      BY <2>4, DatesStay DEF Passes
    <3>2. UNCHANGED driving
      <4> USE DEF passVars, earlyVars, lateVars, spanVars, floatVars, cpmVars, vars
      <4>1. CASE Validate \/ Sort \/ StartForward \/ SetDeadline
        BY <2>4, <4>1 DEF Validate, Sort, StartForward, SetDeadline
      <4>2. CASE Forward
        BY <2>4, <4>2 DEF Forward, ConsiderPredecessor, KeepActuals, PlaceEarly
      <4>3. CASE Backward
        BY <4>3 DEF Backward, ConsiderSuccessor, KeepActualsLate, PlaceLate
      <4>4. CASE StartPostPass
        BY <4>4 DEF StartPostPass
      <4>5. CASE PostPass
        BY <4>5 DEF PostPass, SlideLate, StartFloat, MeasureFloat, Return
      <4>6. CASE UNCHANGED vars
        BY <4>6
      <4> QED BY <4>1, <4>2, <4>3, <4>4, <4>5, <4>6 DEF CPMNext
    <3>3. \A k \in DOMAIN edges : LinkBound(k)' = LinkBound(k)
      BY <2>1, <3>1, BoundStays
    <3>4. \A a : Task(a)' = Task(a) /\ Days(a)' = Days(a)
      BY <2>1 DEF Task, Days
    <3>5. \A a : Driven(a)' <=> Driven(a)
      BY <2>1, <3>1, <3>2, <3>3, <3>4 DEF Driven
    <3> QED BY <2>4, <3>1, <3>4, <3>5 DEF DrivenUnlessAlap, IsComplete
  <2>5. CASE phase' \notin Passes \/ ~NoAlap
    BY <2>2, <2>5 DEF DrivenUnlessAlap
  <2> QED BY <2>3, <2>4, <2>5 DEF Passes
<1> QED BY <1>1, <1>2, StructureHolds, LinkProperties, PTL DEF CPMSpec

-----------------------------------------------------------------------------
\* Dates compared with the late ones.

\* What the networks judged have in common.
LEMMA PlainFacts ==
  ASSUME Structure, Plain
  PROVE  /\ NoAlap /\ net.mustFinishBy = None
         /\ \A a \in Node : /\ Open(a) /\ ~IsComplete(Task(a)) /\ Task(a).start = None
                            /\ Task(a).constraint = "none"
                            /\ Duration(Task(a)) > 0 /\ Duration(Task(a)) # 0
         /\ \A k \in DOMAIN edges : LagsAgree(Link(k))
<1>1. IsNetwork
  BY DEF Structure, NetworkFixed
<1>2. NoAlap /\ net.mustFinishBy = None
  BY DEF Plain, NoAlap, IsAlap
<1>3. ASSUME NEW a \in Node
      PROVE  /\ Open(a) /\ ~IsComplete(Task(a)) /\ Task(a).start = None
             /\ Task(a).constraint = "none"
             /\ Duration(Task(a)) > 0 /\ Duration(Task(a)) # 0
  <2>1. Task(a).start = None /\ Task(a).constraint = "none" /\ Task(a).dur > 0
    BY DEF Plain
  <2>2. Task(a).finish = None
    BY <1>1, <2>1, ActivityFacts DEF IsTask
  <2>3. Duration(Task(a)) = Task(a).dur /\ Duration(Task(a)) \in Int
    BY <1>1, <2>1, ActivityFacts DEF Duration, IsStarted
  <2> QED BY <2>1, <2>2, <2>3 DEF Open, IsComplete
<1>4. ASSUME NEW k \in DOMAIN edges PROVE LagsAgree(Link(k))
  <2>1. Link(k).pred = edges[k][1] /\ Link(k).succ = edges[k][2]
    BY EdgeFacts DEF Structure
  <2> QED BY <2>1 DEF Plain, LagsAgree
<1> QED BY <1>2, <1>3, <1>4

\* A start that is snapped and has its days on the calendar is on it.
LEMMA SettledOnCalendar ==
  ASSUME NEW lat, IsLattice(lat), NEW g \in Int, NEW s, s = SnapStartForward(lat, g),
         NEW d \in Int, d > 0, SpanLands(lat, s, d)
  PROVE  s \in lat
<1>1. s \in Int /\ SnapStartForward(lat, s) = s /\ (s \in lat \/ (\A w \in lat : w < s))
  BY SnapIsSettled, SnapForwardMovesForward
<1>2. Lands(lat, s, d - 1)
  BY <1>1 DEF SpanLands
<1>3. PICK w \in lat : BisectLeft(lat, w) = BisectLeft(lat, s) + (d - 1)
  BY <1>2 DEF Lands, IsDaysFrom
<1>4. BisectLeft(lat, w) \in Nat /\ BisectLeft(lat, s) \in Nat /\ w \in Int
  BY PositionsCount DEF IsLattice
<1>5. w < s => BisectLeft(lat, w) < BisectLeft(lat, s)
  BY <1>1, <1>4, PositionsGrow
<1> QED BY <1>1, <1>3, <1>4, <1>5

\* What is granted to an activity without a constraint that has not started: the first
\* working day from the latest of the bounds, the data date and the delay.
LEMMA GrantedIs ==
  ASSUME IsNetwork, NEW a \in Node, ~IsComplete(Task(a)), Task(a).constraint = "none",
         Task(a).start = None,
         NEW B \in SUBSET Int, IsFiniteSet(B), NEW s \in Int
  PROVE  \E g \in Int :
           /\ g \in B \/ g \in {net.dataDate, s}
           /\ \A x \in B : x <= g
           /\ net.dataDate <= g /\ s <= g
           /\ Granted(a, B, s).s = SnapStartForward(Days(a), g)
           /\ Granted(a, B, s).f = FinishFromStart(Days(a), Granted(a, B, s).s, Duration(Task(a)))
<1>1. PICK A : A = AskedFor(a, B)
  OBVIOUS
<1>2. A = B \cup {net.dataDate}
  <2>1. EarlyFloor(Days(a), Task(a)) = None
    BY DEF EarlyFloor, HasConstraint
  <2>2. (IF IsStarted(Task(a)) /\ Task(a).constraint \in FloorsEarlyStart
         THEN None ELSE EarlyFloor(Days(a), Task(a))) = None
    BY <2>1
  <2>3. ({None} \ {None}) = {} /\ (IF B = {} THEN {Task(a).start} \ {None} ELSE {}) = {}
    OBVIOUS
  <2> QED BY <1>1, <2>2, <2>3 DEF AskedFor
<1>3. PICK g : g = Greatest(A \cup {s})
  OBVIOUS
<1>4. A \cup {s} \in SUBSET Int /\ IsGreatest(A \cup {s}, g)
  BY <1>1, <1>3, AskedHasLatest
<1>5. g \in Int /\ g \in A \cup {s} /\ \A x \in A \cup {s} : x <= g
  BY <1>4 DEF IsGreatest
<1>6. Granted(a, B, s) = [s |-> SnapStartForward(Days(a), g),
                          f |-> FinishFromStart(Days(a), SnapStartForward(Days(a), g),
                                                Duration(Task(a)))]
  BY <1>1, <1>3 DEF Granted
<1>7. g \in B \/ g \in {net.dataDate, s}
  BY <1>2, <1>5
<1>8. (\A x \in B : x <= g) /\ net.dataDate <= g /\ s <= g
  BY <1>2, <1>5
<1>9. /\ Granted(a, B, s).s = SnapStartForward(Days(a), g)
      /\ Granted(a, B, s).f = FinishFromStart(Days(a), Granted(a, B, s).s, Duration(Task(a)))
  BY <1>6
<1> QED BY <1>5, <1>7, <1>8, <1>9

\* Every span is drawn in full.
AllSpans(D) == \A a \in Node : IsSpan(a, D[a].s, D[a].f)

\* No start is earlier than a link asks.
LinksKept(D) ==
  \A k \in DOMAIN edges :
    ForwardBound(Link(k), D[edges[k][1]].s, D[edges[k][1]].f) <= D[edges[k][2]].s

\* Dates that solve the equations of the second formulation are instants.
LEMMA SolutionIsDated ==
  ASSUME Structure, phase \in Passes, Plain, NEW delay, \A b \in Node : delay[b] \in Int,
         NEW F, Solves(edges, delay, F)
  PROVE  \A b \in Node : F[b].s \in Int /\ F[b].f \in Int
<1> DEFINE Dated(b) == F[b].s \in Int /\ F[b].f \in Int
           Bad == {j \in DOMAIN order : ~Dated(order[j])}
<1>1. /\ Len(order) \in Nat /\ DOMAIN order = 1..Len(order)
      /\ \A j \in DOMAIN order : order[j] \in Node
      /\ \A i, j \in DOMAIN order : order[i] = order[j] => i = j
      /\ \A b \in Node : \E j \in DOMAIN order : order[j] = b
      /\ \A k \in DOMAIN edges : \A j \in DOMAIN order :
           order[j] = edges[k][2] => \E i \in DOMAIN order : i < j /\ order[i] = edges[k][1]
  BY OrderFacts DEF Structure, PhaseOrder
<1>2. IsNetwork /\ PartOfTheLinks(edges)
  BY DEF Structure, NetworkFixed, PartOfTheLinks
<1>3. ASSUME NEW j \in DOMAIN order,
             \A i \in DOMAIN order : i < j => Dated(order[i])
      PROVE  Dated(order[j])
  <2>1. PICK b \in Node : b = order[j]
    BY <1>1
  <2>2. PICK B : B = BoundsInto(edges, b, F)
    OBVIOUS
  <2>3. \A k \in DOMAIN edges : edges[k][2] = b => F[edges[k][1]].s \in Int /\ F[edges[k][1]].f \in Int
    BY <1>1, <1>3, <2>1
  <2>4. B \in SUBSET Int /\ IsFiniteSet(B)
    BY <1>2, <2>2, <2>3, BoundsAreInstants
  <2>5. F[b] = Granted(b, B, delay[b])
    BY <2>2 DEF Solves
  <2>6. PICK g \in Int :
          /\ Granted(b, B, delay[b]).s = SnapStartForward(Days(b), g)
          /\ Granted(b, B, delay[b]).f
               = FinishFromStart(Days(b), Granted(b, B, delay[b]).s, Duration(Task(b)))
    BY <1>2, <2>4, PlainFacts, GrantedIs
  <2>7. F[b].s = SnapStartForward(Days(b), g) /\ F[b].f = FinishFromStart(Days(b), F[b].s, Duration(Task(b)))
    BY <2>5, <2>6
  <2>8. IsLattice(Days(b)) /\ Duration(Task(b)) \in Int
    BY <1>2, ActivityFacts
  <2>9. F[b].s \in Int
    BY <2>7, <2>8, SnapForwardMovesForward
  <2>10. F[b].f \in Int
    BY <2>7, <2>8, <2>9, SpansAreInstants
  <2> QED BY <2>1, <2>9, <2>10
<1> HIDE DEF Dated
<1>4. Bad = {}
  <2> SUFFICES ASSUME Bad # {} PROVE FALSE
    OBVIOUS
  <2>1. Bad \in SUBSET Int /\ IsFiniteSet(Bad)
    <3>1. Bad \in SUBSET (1..Len(order))
      BY <1>1
    <3>2. IsFiniteSet(1..Len(order))
      <4>1. 1 \in Int /\ Len(order) \in Int
        BY <1>1
      <4> QED BY <4>1, FS_Interval
    <3> HIDE DEF Bad
    <3>3. IsFiniteSet(Bad)
      BY <3>1, <3>2, FS_Subset
    <3>4. \A i \in 1..Len(order) : i \in Int
      OBVIOUS
    <3> QED BY <3>1, <3>3, <3>4
  <2> HIDE DEF Bad
  <2>2. PICK j \in Bad : \A i \in Bad : j <= i
    BY <2>1, HasLeast
  <2>3. j \in DOMAIN order /\ ~Dated(order[j])
    BY <2>2 DEF Bad
  <2>4. ASSUME NEW i \in DOMAIN order, i < j PROVE Dated(order[i])
    <3>1. i \notin Bad
      BY <1>1, <2>2, <2>3, <2>4
    <3> QED BY <3>1 DEF Bad
  <2> QED BY <1>3, <2>3, <2>4
<1>5. \A b \in Node : Dated(b)
  BY <1>1, <1>4
<1> QED BY <1>5 DEF Dated

\* And, within the window, spans that keep the links, none earlier than it is delayed.
LEMMA SolutionSpans ==
  ASSUME Structure, phase \in Passes, Plain, NEW delay, \A b \in Node : delay[b] \in Int,
         NEW F, Solves(edges, delay, F), RunInWindow(edges, F)
  PROVE  /\ AllSpans(F) /\ LinksKept(F)
         /\ \A b \in Node : delay[b] <= F[b].s /\ net.dataDate <= F[b].s
<1>1. IsNetwork /\ PartOfTheLinks(edges) /\ net.dataDate \in Int
  BY DEF Structure, NetworkFixed, PartOfTheLinks, IsNetwork
<1>2. \A b \in Node : F[b].s \in Int /\ F[b].f \in Int
  BY SolutionIsDated
<1>3. ASSUME NEW b \in Node
      PROVE  /\ IsSpan(b, F[b].s, F[b].f) /\ delay[b] <= F[b].s /\ net.dataDate <= F[b].s
             /\ \A x \in BoundsInto(edges, b, F) : x <= F[b].s
  <2>1. PICK B : B = BoundsInto(edges, b, F)
    OBVIOUS
  <2>2. \A k \in DOMAIN edges : F[edges[k][1]].s \in Int /\ F[edges[k][1]].f \in Int
    BY <1>2, EdgeFacts DEF Structure
  <2>3. B \in SUBSET Int /\ IsFiniteSet(B)
    BY <1>1, <2>1, <2>2, BoundsAreInstants
  <2>4. F[b] = Granted(b, B, delay[b])
    BY <2>1 DEF Solves
  <2>5. PICK g \in Int :
          /\ \A x \in B : x <= g
          /\ net.dataDate <= g /\ delay[b] <= g
          /\ Granted(b, B, delay[b]).s = SnapStartForward(Days(b), g)
          /\ Granted(b, B, delay[b]).f
               = FinishFromStart(Days(b), Granted(b, B, delay[b]).s, Duration(Task(b)))
    BY <1>1, <2>3, PlainFacts, GrantedIs
  <2>6. PICK s \in Int, d \in Int : s = F[b].s /\ d = Duration(Task(b)) /\ d > 0
    BY <1>1, <1>2, PlainFacts, ActivityFacts
  <2>7. IsLattice(Days(b)) /\ SpanLands(Days(b), s, d)
    BY <1>1, <2>6, PlainFacts, ActivityFacts DEF RunInWindow
  <2>8. s = SnapStartForward(Days(b), g) /\ F[b].f = FinishFromStart(Days(b), s, d)
    BY <2>4, <2>5, <2>6
  <2>9. s \in Days(b)
    BY <2>6, <2>7, <2>8, SettledOnCalendar
  <2>10. g <= s
    BY <2>7, <2>8, SnapForwardMovesForward
  <2>11. IsSpan(b, F[b].s, F[b].f)
    BY <2>6, <2>7, <2>8, <2>9 DEF IsSpan
  <2>12. \A x \in B : x <= s
    BY <2>3, <2>5, <2>6, <2>10
  <2> QED BY <1>1, <2>1, <2>5, <2>6, <2>10, <2>11, <2>12
<1>4. LinksKept(F)
  <2> SUFFICES ASSUME NEW k \in DOMAIN edges
               PROVE  ForwardBound(Link(k), F[edges[k][1]].s, F[edges[k][1]].f) <= F[edges[k][2]].s
    BY DEF LinksKept
  <2>1. PICK b \in Node : b = edges[k][2]
    BY EdgeFacts DEF Structure
  <2>2. ForwardBound(Link(k), F[edges[k][1]].s, F[edges[k][1]].f) \in BoundsInto(edges, b, F)
    BY <2>1 DEF BoundsInto
  <2> QED BY <1>3, <2>1, <2>2
<1> QED BY <1>3, <1>4 DEF AllSpans

-----------------------------------------------------------------------------
\* The late dates of a are a span of it, and no span of it that ends by what the
\* deadline and the successors allow ends later.
DrawnLate(a) ==
  /\ IsSpan(a, ls[a], lf[a])
  /\ \E latest \in Int :
       /\ IsLatest(a, latest) /\ lf[a] <= latest
       /\ \A f \in Int : f - 1 \in Days(a) /\ f <= latest => f <= lf[a]

\* The window reaches back to the late dates of a.
LateInWindow(a) ==
  (\E w \in Days(a) : w < lf[a]) /\ SpanLandsBack(Days(a), lf[a], Duration(Task(a)))

\* And to the bounds the backward pass reads off the links.
BackInWindow ==
  \A k \in DOMAIN edges : BoundLandsBack(Link(k), ls[edges[k][2]], lf[edges[k][2]])

\* No finish a link asks for lies beyond the days of its successor.
FinishesSnap(D) ==
  \A k \in DOMAIN edges : FinishSnaps(Link(k), D[edges[k][1]].s, D[edges[k][1]].f)

\* Late dates as asked, within the window, are drawn so.
LEMMA LateSpan ==
  ASSUME Structure, NEW a \in Node, Open(a), Task(a).constraint = "none",
         Duration(Task(a)) > 0, LateAsAsked(a), LateInWindow(a)
  PROVE  DrawnLate(a)
<1>1. PICK lat : lat = Days(a) /\ IsLattice(lat) /\ lat \subseteq Int
  BY ActivityFacts DEF Structure, NetworkFixed, IsLattice
<1>2. PICK d \in Int : d = Duration(Task(a)) /\ d > 0 /\ d # 0
  BY ActivityFacts DEF Structure, NetworkFixed
<1>3. Open(a) /\ Task(a).constraint = "none"
  OBVIOUS
<1>4. PICK latest \in Int :
        /\ IsLatest(a, latest)
        /\ lf[a] = SnapFinishBack(lat, latest) /\ ls[a] = StartFromFinish(lat, lf[a], d)
  BY <1>1, <1>2, <1>3 DEF LateAsAsked
<1>5. PICK u \in Int : u = SnapStartBack(lat, latest - 1) /\ u <= latest - 1
  BY <1>1, <1>4, SnapBackMovesBack
<1>6. lf[a] = u + 1 /\ lf[a] - 1 = u
  BY <1>4, <1>5 DEF SnapFinishBack
<1>7. u \in lat
  <2>1. PICK w \in lat : w < lf[a]
    BY <1>1 DEF LateInWindow
  <2>2. w \in Int
    BY <1>1
  <2>3. w <= latest - 1
    BY <1>5, <1>6, <2>1, <2>2
  <2> QED BY <1>1, <1>5, <2>3, SnapBackLands
<1>8. SnapStartBack(lat, lf[a] - 1) = u
  BY <1>1, <1>6, <1>7, WorkingInstantsStay
<1>9. 1 - d \in Int /\ -(d - 1) = 1 - d /\ Lands(lat, u, 1 - d)
  BY <1>1, <1>2, <1>8 DEF LateInWindow, SpanLandsBack
<1>10. PICK z \in lat : z = AddWorkingDays(lat, u, 1 - d)
                        /\ BisectLeft(lat, z) = BisectLeft(lat, u) + (1 - d)
  BY <1>1, <1>9, AddLands
<1>11. ls[a] = z
  BY <1>2, <1>4, <1>8, <1>9, <1>10 DEF StartFromFinish, SubWorkingDays
<1>12. SnapStartForward(lat, z) = z
  BY <1>1, WorkingInstantsStay
<1>13. BisectLeft(lat, u) \in Nat /\ BisectLeft(lat, z) \in Nat
  BY <1>1, PositionsCount
<1>14. BisectLeft(lat, u) = BisectLeft(lat, z) + (d - 1)
  BY <1>2, <1>10, <1>13
<1>15. Lands(lat, z, d - 1)
  BY <1>7, <1>14 DEF Lands, IsDaysFrom
<1>16. PICK v \in lat : v = AddWorkingDays(lat, z, d - 1)
                        /\ BisectLeft(lat, v) = BisectLeft(lat, z) + (d - 1)
  BY <1>1, <1>2, <1>15, AddLands
<1>17. v = u
  BY <1>1, <1>7, <1>14, <1>16, PositionsAreUnique
<1>18. FinishFromStart(lat, z, d) = u + 1
  BY <1>2, <1>12, <1>16, <1>17 DEF FinishFromStart
<1>19. SpanLands(lat, z, d)
  BY <1>12, <1>15 DEF SpanLands
<1>20. IsSpan(a, ls[a], lf[a])
  BY <1>1, <1>2, <1>6, <1>11, <1>18, <1>19 DEF IsSpan
<1>21. ASSUME NEW f \in Int, f - 1 \in lat, f <= latest
       PROVE  f <= lf[a]
  <2>1. PICK w \in lat : w = f - 1
    BY <1>21
  <2>2. w <= latest - 1
    BY <1>21, <2>1
  <2>3. w <= u
    BY <1>1, <1>5, <2>2, SnapBackIs
  <2> QED BY <1>5, <1>6, <1>21, <2>1, <2>3
<1>22. lf[a] <= latest
  BY <1>5, <1>6
<1> QED BY <1>1, <1>4, <1>20, <1>21, <1>22 DEF DrawnLate

\* Spans that keep the links and end by the deadline are no later than the late dates:
\* nothing that can be done in time is late.
LEMMA NoLaterThanLate ==
  ASSUME Structure, phase \in Passes, Plain, \A a \in Node : DrawnLate(a), BackInWindow,
         NEW D, AllSpans(D), LinksKept(D), FinishesSnap(D),
         \A k \in DOMAIN edges : BoundLands(Link(k), D[edges[k][1]].s, D[edges[k][1]].f),
         \A a \in Node : D[a].f <= deadline
  PROVE  \A a \in Node : D[a].s <= ls[a]
<1> DEFINE InTime(b) == D[b].s <= ls[b]
           Bad == {j \in DOMAIN order : ~InTime(order[j])}
<1>1. /\ Len(order) \in Nat /\ DOMAIN order = 1..Len(order)
      /\ \A j \in DOMAIN order : order[j] \in Node
      /\ \A i, j \in DOMAIN order : order[i] = order[j] => i = j
      /\ \A b \in Node : \E j \in DOMAIN order : order[j] = b
      /\ \A k \in DOMAIN edges : \A j \in DOMAIN order :
           order[j] = edges[k][2] => \E i \in DOMAIN order : i < j /\ order[i] = edges[k][1]
  BY OrderFacts DEF Structure, PhaseOrder
<1>2. IsNetwork
  BY DEF Structure, NetworkFixed
<1>3. ASSUME NEW j \in DOMAIN order,
             \A i \in DOMAIN order : j < i => InTime(order[i])
      PROVE  InTime(order[j])
  <2>1. PICK b \in Node : b = order[j]
    BY <1>1
  <2>2. PICK s, f : s = D[b].s /\ f = D[b].f
    OBVIOUS
  <2>3. IsSpan(b, s, f) /\ f <= deadline
    BY <2>2 DEF AllSpans
  <2>4. s \in Int /\ f \in Int /\ f - 1 \in Days(b)
    BY <1>2, <2>3, PlainFacts, SpanFacts
  <2>5. PICK latest \in Int :
          /\ IsLatest(b, latest)
          /\ \A x \in Int : x - 1 \in Days(b) /\ x <= latest => x <= lf[b]
    BY DEF DrawnLate
  <2>6. ASSUME NEW k \in Successors(b) PROVE f <= BackBound(k)
    <3>1. k \in DOMAIN edges /\ edges[k][1] = b
      BY DEF Successors
    <3>2. PICK c \in Node : c = edges[k][2]
      BY <3>1, EdgeFacts DEF Structure
    <3>3. PICK i \in DOMAIN order : order[i] = c
      BY <1>1
    <3>4. PICK m \in DOMAIN order : m < i /\ order[m] = b
      BY <1>1, <3>1, <3>2, <3>3
    <3>5. m = j
      BY <1>1, <2>1, <3>4
    <3>6. D[c].s <= ls[c]
      BY <1>3, <3>3, <3>4, <3>5
    <3>7. PICK l \in ALink : l = Link(k) /\ l.pred = b /\ l.succ = c
      BY <3>1, <3>2, EdgeFacts DEF Structure
    <3>8. BoundLands(l, s, f) /\ FinishSnaps(l, s, f) /\ ForwardBound(l, s, f) <= D[c].s
      BY <2>2, <3>1, <3>2, <3>7 DEF LinksKept, FinishesSnap
    <3>9. PICK t, g : t = ls[c] /\ g = lf[c] /\ IsSpan(c, t, g)
      BY DEF DrawnLate
    <3>10. BoundLandsBack(l, t, g) /\ BackBound(k) = BackwardBound(l, t, g)
      BY <3>1, <3>2, <3>7, <3>9 DEF BackInWindow, BackBound
    <3>11. IsSpan(c, D[c].s, D[c].f)
      BY DEF AllSpans
    <3>12. D[c].s \in Int /\ t \in Int
      BY <1>2, <3>9, <3>11, PlainFacts, SpanFacts
    <3>13. ForwardBound(l, s, f) \in Int
      BY <1>2, <2>4, ForwardBoundIsInteger
    <3>14. ForwardBound(l, s, f) <= t
      BY <3>6, <3>8, <3>9, <3>12, <3>13
    <3>15. LagsAgree(l) /\ Duration(Task(l.pred)) > 0 /\ Duration(Task(l.succ)) > 0
      BY <3>1, <3>7, PlainFacts
    <3>16. IsSpan(l.pred, s, f) /\ IsSpan(l.succ, t, g)
      BY <2>3, <3>7, <3>9
    <3>17. f <= BackwardBound(l, t, g)
      BY <1>2, <3>8, <3>10, <3>14, <3>15, <3>16, BoundsUndo
    <3> QED BY <3>10, <3>17
  <2>7. f <= latest
    BY <2>3, <2>5, <2>6 DEF IsLatest
  <2>8. f <= lf[b]
    BY <2>4, <2>5, <2>7
  <2>9. PICK t, g : t = ls[b] /\ g = lf[b] /\ IsSpan(b, t, g)
    BY DEF DrawnLate
  <2>10. Duration(Task(b)) > 0
    BY PlainFacts
  <2>11. s <= t
    BY <1>2, <2>3, <2>8, <2>9, <2>10, SpansAreOrdered
  <2> QED BY <2>1, <2>2, <2>9, <2>11
<1> HIDE DEF InTime
<1>4. Bad = {}
  <2> SUFFICES ASSUME Bad # {} PROVE FALSE
    OBVIOUS
  <2>1. Bad \in SUBSET Int /\ IsFiniteSet(Bad)
    <3>1. Bad \in SUBSET (1..Len(order))
      BY <1>1
    <3>2. IsFiniteSet(1..Len(order))
      <4>1. 1 \in Int /\ Len(order) \in Int
        BY <1>1
      <4> QED BY <4>1, FS_Interval
    <3> HIDE DEF Bad
    <3>3. IsFiniteSet(Bad)
      BY <3>1, <3>2, FS_Subset
    <3>4. \A i \in 1..Len(order) : i \in Int
      OBVIOUS
    <3> QED BY <3>1, <3>3, <3>4
  <2> HIDE DEF Bad
  <2>2. PICK j \in Bad : \A i \in Bad : i <= j
    BY <2>1, HasGreatest
  <2>3. j \in DOMAIN order /\ ~InTime(order[j])
    BY <2>2 DEF Bad
  <2>4. ASSUME NEW i \in DOMAIN order, j < i PROVE InTime(order[i])
    <3>1. i \notin Bad
      BY <1>1, <2>2, <2>3, <2>4
    <3> QED BY <3>1 DEF Bad
  <2> QED BY <1>3, <2>3, <2>4
<1>5. \A b \in Node : InTime(b)
  BY <1>1, <1>4
<1> QED BY <1>5 DEF InTime

-----------------------------------------------------------------------------
\* The bounds the links put on the late dates, within the window.
LateLinksLand ==
  \A k \in DOMAIN edges : BoundLands(Link(k), ls[edges[k][1]], lf[edges[k][1]])

\* No late start is earlier than a link asks, given the late dates.
LateLinksKept ==
  \A k \in DOMAIN edges :
    ForwardBound(Link(k), ls[edges[k][1]], lf[edges[k][1]]) <= ls[edges[k][2]]

\* The late dates keep a link, whose lag is counted on a calendar that the work at both
\* its ends keeps.
LEMMA LateKeepsLink ==
  ASSUME Structure, NEW k \in DOMAIN edges, NEW l, l = Link(k), l.type # "SF",
         l.lag # 0 => /\ Task(l.pred).cal = Task(l.succ).cal
                      /\ net.lagCalendar \in {"predecessor", "successor"},
         Duration(Task(l.pred)) > 0, Duration(Task(l.succ)) > 0,
         DrawnLate(l.pred), DrawnLate(l.succ),
         BoundLandsBack(l, ls[l.succ], lf[l.succ]), BoundLands(l, ls[l.pred], lf[l.pred])
  PROVE  ForwardBound(l, ls[l.pred], lf[l.pred]) <= ls[l.succ]
<1>1. IsNetwork
  BY DEF Structure, NetworkFixed
<1>2. PICK b \in Node, c \in Node :
        b = edges[k][1] /\ c = edges[k][2] /\ l.pred = b /\ l.succ = c /\ l \in ALink
  BY EdgeFacts DEF Structure
<1>3. PICK s, f : s = ls[b] /\ f = lf[b] /\ IsSpan(b, s, f)
  BY <1>2 DEF DrawnLate
<1>4. PICK t, g : t = ls[c] /\ g = lf[c] /\ IsSpan(c, t, g)
  BY <1>2 DEF DrawnLate
<1>5. BoundLands(l, s, f) /\ BoundLandsBack(l, t, g)
  BY <1>2, <1>3, <1>4
<1>6. PICK latest \in Int : IsLatest(b, latest) /\ f <= latest
  BY <1>2, <1>3 DEF DrawnLate
<1>7. PICK x : x = BackwardBound(l, t, g) /\ latest <= x
  <2>1. k \in Successors(b)
    BY <1>2 DEF Successors
  <2>2. latest <= BackBound(k)
    BY <1>6, <2>1 DEF IsLatest
  <2>3. BackBound(k) = BackwardBound(l, t, g)
    BY <1>2, <1>4 DEF BackBound
  <2> QED BY <2>2, <2>3
<1>8. IsSpan(l.pred, s, f) /\ IsSpan(l.succ, t, g)
  BY <1>2, <1>3, <1>4
<1>9. f \in Int /\ t \in Int /\ g \in Int
  BY <1>1, <1>2, <1>8, SpanFacts
<1>10. x \in Int
  BY <1>1, <1>2, <1>7, <1>9, BackwardBoundIsInteger
<1>11. f <= BackwardBound(l, t, g)
  BY <1>6, <1>7, <1>9, <1>10
<1>12. CASE l.lag = 0
  <2>1. ForwardBound(l, s, f) <= t
    BY <1>1, <1>2, <1>5, <1>8, <1>11, <1>12, BoundsRedoPlain
  <2> QED BY <1>2, <1>3, <1>4, <2>1
<1>13. CASE l.lag # 0
  <2>1. ForwardBound(l, s, f) <= t
    BY <1>1, <1>2, <1>5, <1>8, <1>11, <1>13, BoundsRedoLagged
  <2> QED BY <1>2, <1>3, <1>4, <2>1
<1> QED BY <1>12, <1>13

\* So they keep all the links of a network judged.
LEMMA LateKeepsLinks ==
  ASSUME Structure, Plain, LagsStayOnOneCalendar, \A a \in Node : DrawnLate(a),
         BackInWindow, LateLinksLand
  PROVE  LateLinksKept
<1> SUFFICES ASSUME NEW k \in DOMAIN edges
             PROVE  ForwardBound(Link(k), ls[edges[k][1]], lf[edges[k][1]]) <= ls[edges[k][2]]
  BY DEF LateLinksKept
<1>1. PICK l \in ALink, b \in Node, c \in Node :
        /\ l = Link(k) /\ b = edges[k][1] /\ c = edges[k][2] /\ l.pred = b /\ l.succ = c
  BY EdgeFacts DEF Structure
<1>2. BoundLands(l, ls[b], lf[b]) /\ BoundLandsBack(l, ls[c], lf[c])
  BY <1>1 DEF LateLinksLand, BackInWindow
<1>3. l.type # "SF" /\ Duration(Task(b)) > 0 /\ Duration(Task(c)) > 0
  BY <1>1, PlainFacts DEF LagsAgree
<1>4. l.lag # 0 => Task(b).cal = Task(c).cal /\ net.lagCalendar \in {"predecessor", "successor"}
  BY <1>1 DEF LagsStayOnOneCalendar
<1>5. ForwardBound(l, ls[l.pred], lf[l.pred]) <= ls[l.succ]
  BY <1>1, <1>2, <1>3, <1>4, LateKeepsLink
<1> QED BY <1>1, <1>5

\* A run in which nothing is delayed past its late start dates nothing past its late
\* dates.
LEMMA RunWithinLate ==
  ASSUME Structure, phase \in Passes, Plain, \A a \in Node : DrawnLate(a),
         LateLinksLand, LateLinksKept,
         NEW delay,
         \A b \in Node : delay[b] \in Int /\ delay[b] <= ls[b] /\ net.dataDate <= ls[b],
         NEW F, Solves(edges, delay, F), RunInWindow(edges, F)
  PROVE  \A a \in Node : F[a].s <= ls[a] /\ F[a].f <= lf[a]
<1> DEFINE InTime(b) == F[b].s <= ls[b] /\ F[b].f <= lf[b]
           Bad == {j \in DOMAIN order : ~InTime(order[j])}
<1>1. /\ Len(order) \in Nat /\ DOMAIN order = 1..Len(order)
      /\ \A j \in DOMAIN order : order[j] \in Node
      /\ \A i, j \in DOMAIN order : order[i] = order[j] => i = j
      /\ \A b \in Node : \E j \in DOMAIN order : order[j] = b
      /\ \A k \in DOMAIN edges : \A j \in DOMAIN order :
           order[j] = edges[k][2] => \E i \in DOMAIN order : i < j /\ order[i] = edges[k][1]
  BY OrderFacts DEF Structure, PhaseOrder
<1>2. IsNetwork /\ PartOfTheLinks(edges) /\ net.dataDate \in Int
  BY DEF Structure, NetworkFixed, PartOfTheLinks, IsNetwork
<1>3. AllSpans(F) /\ \A b \in Node : F[b].s \in Int /\ F[b].f \in Int
  BY SolutionSpans, SolutionIsDated
<1>4. \A b \in Node : ls[b] \in Int /\ lf[b] \in Int
  BY <1>2, PlainFacts, SpanFacts DEF DrawnLate
<1>5. ASSUME NEW j \in DOMAIN order,
             \A i \in DOMAIN order : i < j => InTime(order[i])
      PROVE  InTime(order[j])
  <2>1. PICK b \in Node : b = order[j]
    BY <1>1
  <2>2. PICK B : B = BoundsInto(edges, b, F)
    OBVIOUS
  <2>3. \A k \in DOMAIN edges : F[edges[k][1]].s \in Int /\ F[edges[k][1]].f \in Int
    BY <1>3, EdgeFacts DEF Structure
  <2>4. B \in SUBSET Int /\ IsFiniteSet(B)
    BY <1>2, <2>2, <2>3, BoundsAreInstants
  <2>5. F[b] = Granted(b, B, delay[b])
    BY <2>2 DEF Solves
  <2>6. PICK t, e : t = ls[b] /\ e = lf[b] /\ IsSpan(b, t, e) /\ t \in Int
    BY <1>4 DEF DrawnLate
  <2>7. \A x \in B : x <= t
    <3>1. SUFFICES ASSUME NEW k \in DOMAIN edges, edges[k][2] = b
                   PROVE  ForwardBound(Link(k), F[edges[k][1]].s, F[edges[k][1]].f) <= t
      BY <2>2 DEF BoundsInto
    <3>2. PICK i \in DOMAIN order : i < j /\ order[i] = edges[k][1]
      BY <1>1, <2>1, <3>1
    <3>3. PICK p \in Node : p = edges[k][1]
      BY EdgeFacts DEF Structure
    <3>4. F[p].s <= ls[p] /\ F[p].f <= lf[p]
      BY <1>5, <3>2, <3>3
    <3>5. PICK x, y, v, w : x = F[p].s /\ y = F[p].f /\ v = ls[p] /\ w = lf[p]
      OBVIOUS
    <3>6. x \in Int /\ y \in Int /\ v \in Int /\ w \in Int /\ x <= v /\ y <= w
      BY <1>3, <1>4, <3>4, <3>5
    <3>7. PICK l \in ALink : l = Link(k)
      BY EdgeFacts DEF Structure
    <3>8. BoundLands(l, x, y) /\ BoundLands(l, v, w) /\ ForwardBound(l, v, w) <= t
      BY <2>6, <3>1, <3>3, <3>5, <3>7 DEF RunInWindow, LateLinksLand, LateLinksKept
    <3>9. ForwardBound(l, x, y) <= ForwardBound(l, v, w)
      BY <1>2, <3>6, <3>8, ForwardBoundGrows
    <3>10. ForwardBound(l, x, y) \in Int /\ ForwardBound(l, v, w) \in Int
      BY <1>2, <3>6, ForwardBoundIsInteger
    <3>11. ForwardBound(l, x, y) <= t
      BY <2>6, <3>8, <3>9, <3>10
    <3> QED BY <3>3, <3>5, <3>7, <3>11
  <2>8. PICK h \in Int : /\ h \in B \/ h \in {net.dataDate, delay[b]}
                         /\ Granted(b, B, delay[b]).s = SnapStartForward(Days(b), h)
    BY <1>2, <2>4, PlainFacts, GrantedIs
  <2>9. h <= t
    BY <2>6, <2>7, <2>8
  <2>10. PICK s, f : s = F[b].s /\ f = F[b].f /\ IsSpan(b, s, f)
    BY <1>3 DEF AllSpans
  <2>11. PICK lat : lat = Days(b) /\ IsLattice(lat) /\ t \in lat
    BY <1>2, <2>6, ActivityFacts DEF IsSpan
  <2>12. SnapStartForward(lat, t) = t
    BY <2>11, WorkingInstantsStay
  <2>13. s <= t
    BY <2>5, <2>6, <2>8, <2>9, <2>10, <2>11, <2>12, SnapForwardGrows
  <2>14. Duration(Task(b)) > 0
    BY PlainFacts
  <2>15. f <= e
    BY <1>2, <2>6, <2>10, <2>13, <2>14, SpansAreOrdered
  <2> QED BY <2>1, <2>6, <2>10, <2>13, <2>15
<1> HIDE DEF InTime
<1>6. Bad = {}
  <2> SUFFICES ASSUME Bad # {} PROVE FALSE
    OBVIOUS
  <2>1. Bad \in SUBSET Int /\ IsFiniteSet(Bad)
    <3>1. Bad \in SUBSET (1..Len(order))
      BY <1>1
    <3>2. IsFiniteSet(1..Len(order))
      <4>1. 1 \in Int /\ Len(order) \in Int
        BY <1>1
      <4> QED BY <4>1, FS_Interval
    <3> HIDE DEF Bad
    <3>3. IsFiniteSet(Bad)
      BY <3>1, <3>2, FS_Subset
    <3>4. \A i \in 1..Len(order) : i \in Int
      OBVIOUS
    <3> QED BY <3>1, <3>3, <3>4
  <2> HIDE DEF Bad
  <2>2. PICK j \in Bad : \A i \in Bad : j <= i
    BY <2>1, HasLeast
  <2>3. j \in DOMAIN order /\ ~InTime(order[j])
    BY <2>2 DEF Bad
  <2>4. ASSUME NEW i \in DOMAIN order, i < j PROVE InTime(order[i])
    <3>1. i \notin Bad
      BY <1>1, <2>2, <2>3, <2>4
    <3> QED BY <3>1 DEF Bad
  <2> QED BY <1>5, <2>3, <2>4
<1>7. \A b \in Node : InTime(b)
  BY <1>1, <1>6
<1> QED BY <1>7 DEF InTime

\* The finish of a run is the finish of one of its activities, and no activity's is
\* later.
LEMMA FinishIs ==
  ASSUME IsGraph, Node # {}, NEW D, \A a \in Node : D[a].f \in Int
  PROVE  \E c \in Node : FinishOf(D) = D[c].f /\ \A a \in Node : D[a].f <= D[c].f
<1>1. PICK F : F = [a \in Node |-> D[a].f]
  OBVIOUS
<1>2. DOMAIN F = Node /\ \A a \in Node : F[a] = D[a].f
  BY <1>1
<1>3. PICK S : S = {F[a] : a \in Node}
  OBVIOUS
<1>4. IsFiniteSet(Node)
  <2>1. nodes \in Seq(Node) /\ Elements(nodes) = Node /\ Injective(nodes)
    BY DEF IsGraph, Injective
  <2> QED BY <2>1, InjectiveLength
<1>5. IsFiniteSet(S)
  BY <1>2, <1>3, <1>4, FinitelyMany
<1>6. S \in SUBSET Int /\ S # {}
  BY <1>2, <1>3
<1>7. PICK x \in S : \A y \in S : y <= x
  BY <1>5, <1>6, HasGreatest
<1>8. IsGreatest(S, x)
  BY <1>7 DEF IsGreatest
<1>9. Greatest(S) = x
  BY <1>6, <1>8, GreatestIs
<1>10. S = {D[a].f : a \in Node}
  BY <1>2, <1>3
<1>11. FinishOf(D) = x
  BY <1>9, <1>10 DEF FinishOf
<1>12. PICK c \in Node : x = F[c]
  BY <1>3, <1>7
<1>13. \A a \in Node : F[a] <= x
  BY <1>3, <1>7
<1> QED BY <1>2, <1>11, <1>12, <1>13

-----------------------------------------------------------------------------
\* The chain that sets the finish.

\* One step back along the driving links.
WithDrivers(met) == met \cup ({driving[a] : a \in met} \ {None})

\* f holds what the walk has met after each of its first n steps.
MetTo(n, f) == f = [i \in 0..n |-> IF i = 0 THEN {terminal} ELSE WithDrivers(f[i - 1])]

\* The path presented is what such a walk ends with.
LEMMA PathIs ==
  LongestPath = (CHOOSE f : MetTo(Cardinality(Node), f))[Cardinality(Node)]
BY DEF LongestPath, MetTo, WithDrivers

\* There is such a walk, of any number of steps.
LEMMA WalkExists ==
  ASSUME NEW N \in Nat
  PROVE  \E f : MetTo(N, f)
<1> DEFINE B == {n \in 0..N : ~\E f : MetTo(n, f)}
<1>1. ASSUME B # {} PROVE FALSE
  <2>1. B \in SUBSET Int /\ IsFiniteSet(B)
    <3>1. B \in SUBSET (0..N) /\ B \in SUBSET Int
      OBVIOUS
    <3>2. IsFiniteSet(0..N)
      <4>1. 0 \in Int /\ N \in Int
        OBVIOUS
      <4> QED BY <4>1, FS_Interval
    <3> HIDE DEF B
    <3>3. IsFiniteSet(B)
      BY <3>1, <3>2, FS_Subset
    <3> QED BY <3>1, <3>3
  <2>2. PICK n \in B : \A j \in B : n <= j
    <3> HIDE DEF B
    <3> QED BY <1>1, <2>1, HasLeast
  <2>3. n \in 0..N /\ ~\E f : MetTo(n, f)
    BY <2>2
  <2>4. CASE n = 0
    <3> DEFINE g == [i \in 0..0 |-> {terminal}]
    <3>1. \A i \in 0..0 : i = 0
      OBVIOUS
    <3>2. MetTo(0, g)
      BY <3>1 DEF MetTo
    <3> QED BY <2>3, <2>4, <3>2
  <2>5. CASE n # 0
    <3>1. n - 1 \in 0..N /\ n \in Nat /\ ~(n <= n - 1)
      BY <2>3, <2>5
    <3>2. PICK g : MetTo(n - 1, g)
      BY <2>2, <3>1
    <3> DEFINE h == [i \in 0..n |-> IF i < n THEN g[i] ELSE WithDrivers(g[n - 1])]
    <3>3. \A i \in 0..(n - 1) : g[i] = IF i = 0 THEN {terminal} ELSE WithDrivers(g[i - 1])
      BY <3>2 DEF MetTo
    <3>4. ASSUME NEW i \in 0..n
          PROVE  h[i] = IF i = 0 THEN {terminal} ELSE WithDrivers(h[i - 1])
      <4>1. CASE i < n
        <5>1. i \in 0..(n - 1) /\ (i # 0 => i - 1 \in 0..n /\ i - 1 < n)
          BY <3>1, <4>1
        <5>2. h[i] = g[i] /\ (i # 0 => h[i - 1] = g[i - 1])
          BY <4>1, <5>1
        <5> HIDE DEF h
        <5> QED BY <3>3, <5>1, <5>2
      <4>2. CASE ~(i < n)
        <5>1. i = n /\ i # 0 /\ n - 1 \in 0..n /\ n - 1 < n
          BY <3>1, <2>5, <4>2
        <5>2. h[i] = WithDrivers(g[n - 1]) /\ h[n - 1] = g[n - 1]
          BY <5>1
        <5> HIDE DEF h
        <5> QED BY <5>1, <5>2
      <4> QED BY <4>1, <4>2
    <3>5. h = [i \in 0..n |-> h[i]]
      OBVIOUS
    <3> HIDE DEF h
    <3>6. h = [i \in 0..n |-> IF i = 0 THEN {terminal} ELSE WithDrivers(h[i - 1])]
      BY <3>4, <3>5
    <3>7. MetTo(n, h)
      BY <3>6 DEF MetTo
    <3> QED BY <2>3, <3>7
  <2> QED BY <2>4, <2>5
<1>2. N \in 0..N
  OBVIOUS
<1> QED BY <1>1, <1>2

\* The path stays among activities that the terminal one is of and that hold their
\* drivers too.
LEMMA PathStaysAmong ==
  ASSUME IsGraph, NEW S, terminal \in S,
         \A a \in S : driving[a] # None => driving[a] \in S
  PROVE  LongestPath \subseteq S
<1>1. PICK N \in Nat : N = Cardinality(Node)
  <2>1. nodes \in Seq(Node) /\ Elements(nodes) = Node /\ Injective(nodes)
    BY DEF IsGraph, Injective
  <2>2. IsFiniteSet(Node)
    BY <2>1, InjectiveLength
  <2> QED BY <2>2, FS_CardinalityType
<1>2. PICK f : f = CHOOSE g : MetTo(N, g)
  OBVIOUS
<1>3. MetTo(N, f)
  BY <1>2, WalkExists
<1>4. \A i \in 0..N : f[i] = IF i = 0 THEN {terminal} ELSE WithDrivers(f[i - 1])
  BY <1>3 DEF MetTo
<1> DEFINE B == {n \in 0..N : ~(f[n] \subseteq S)}
<1>5. ASSUME B # {} PROVE FALSE
  <2>1. B \in SUBSET Int /\ IsFiniteSet(B)
    <3>1. B \in SUBSET (0..N) /\ B \in SUBSET Int
      OBVIOUS
    <3>2. IsFiniteSet(0..N)
      <4>1. 0 \in Int /\ N \in Int
        OBVIOUS
      <4> QED BY <4>1, FS_Interval
    <3> HIDE DEF B
    <3>3. IsFiniteSet(B)
      BY <3>1, <3>2, FS_Subset
    <3> QED BY <3>1, <3>3
  <2> HIDE DEF B
  <2>2. PICK n \in B : \A j \in B : n <= j
    BY <1>5, <2>1, HasLeast
  <2>3. n \in 0..N /\ ~(f[n] \subseteq S)
    BY <2>2 DEF B
  <2>4. CASE n = 0
    <3>1. f[n] = {terminal}
      BY <1>4, <2>3, <2>4
    <3> QED BY <2>3, <3>1
  <2>5. CASE n # 0
    <3>1. n - 1 \in 0..N /\ ~(n <= n - 1)
      BY <2>3, <2>5
    <3>2. f[n - 1] \subseteq S
      BY <2>2, <3>1 DEF B
    <3>3. f[n] = WithDrivers(f[n - 1])
      BY <1>4, <2>3, <2>5
    <3>4. f[n] \subseteq S
      BY <3>2, <3>3 DEF WithDrivers
    <3> QED BY <2>3, <3>4
  <2> QED BY <2>4, <2>5
<1>6. N \in 0..N
  OBVIOUS
<1>7. f[N] \subseteq S
  BY <1>5, <1>6
<1>8. LongestPath = f[N]
  BY <1>1, <1>2, PathIs
<1> QED BY <1>7, <1>8

-----------------------------------------------------------------------------
\* What holds when the calculation is done.

\* The early dates solve the equations of the second formulation.
LEMMA EarlySolves ==
  ASSUME Structure, DatedUnlessAlap, phase = "done", Plain
  PROVE  /\ Solves(edges, NoDelay, EarlyDates)
         /\ \A p \in Node : /\ es[p] \in Int /\ ef[p] \in Int
                            /\ EarlyDates[p].s = es[p] /\ EarlyDates[p].f = ef[p]
<1>1. phase \in Passes /\ NoAlap /\ \A p \in Node : ~IsComplete(Task(p))
  BY PlainFacts DEF Passes
<1>2. \A p \in Node : /\ es[p] \in Int /\ ef[p] \in Int /\ ef[p] # None
                      /\ EarlyDates[p].s = es[p] /\ EarlyDates[p].f = ef[p]
                      /\ EarlyDates[p] = [s |-> es[p], f |-> ef[p]]
  BY <1>1 DEF Structure, PhaseOrder, DatesTyped, Passes, MaybeInt, EarlyDates
<1>3. ASSUME NEW p \in Node PROVE BoundsInto(edges, p, EarlyDates) = LinkBounds(p)
  <2>1. \A k \in DOMAIN edges : edges[k][1] \in Node
    BY EdgeFacts DEF Structure
  <2>2. \A k \in DOMAIN edges :
          LinkBound(k) = ForwardBound(Link(k), EarlyDates[edges[k][1]].s, EarlyDates[edges[k][1]].f)
    BY <1>2, <2>1 DEF LinkBound
  <2> QED BY <2>2 DEF BoundsInto, LinkBounds
<1>4. \A p \in Node : [s |-> es[p], f |-> ef[p]] = Granted(p, LinkBounds(p), NoDelay[p])
  BY <1>1, <1>2 DEF DatedUnlessAlap, NoDelay
<1>5. Solves(edges, NoDelay, EarlyDates)
  BY <1>2, <1>3, <1>4 DEF Solves
<1> QED BY <1>2, <1>5

\* The window of the calculation, of a run in which an activity slips by its total
\* float and of one in which it slips by a day more.
FloatsInWindow ==
  phase = "done" /\ Plain =>
    /\ RunInWindow(edges, EarlyDates) /\ FinishesSnap(EarlyDates)
    /\ BackInWindow /\ \A a \in Node : LateInWindow(a)
    /\ LagsStayOnOneCalendar =>
         /\ LateLinksLand
         /\ \A a \in Node : RunInWindow(edges, Rerun(Delayed(a, totalFloat[a])))
    /\ OneCalendar =>
         \A a \in Node :
           /\ Lands(Days(a), es[a], totalFloat[a] + 1)
           /\ RunInWindow(edges, Rerun(Delayed(a, totalFloat[a] + 1)))
           /\ FinishesSnap(Rerun(Delayed(a, totalFloat[a] + 1)))

\* The calculation of a network judged, within its window.
Judged ==
  /\ Structure /\ phase = "done" /\ Plain
  /\ AllSpans(EarlyDates) /\ LinksKept(EarlyDates)
  /\ \A a \in Node :
       /\ DrawnLate(a)
       /\ es[a] \in Int /\ ef[a] \in Int /\ ls[a] \in Int /\ lf[a] \in Int
       /\ net.dataDate <= es[a] /\ es[a] <= ls[a]
       /\ totalFloat[a] = CountWorkingDays(Days(a), es[a], ls[a])
       /\ driving[a] \in Node \cup {None} /\ Driven(a)
  /\ BackInWindow /\ FinishSet /\ deadline = projectFinish

\* Within the window nothing is late before it starts.
LEMMA JudgedInWindow ==
  ASSUME Structure, DatedUnlessAlap, FloatsMeasured, LateDatesAsked, FinishUnlessAlap,
         DrivenUnlessAlap, phase = "done", Plain, FloatsInWindow
  PROVE  Judged
<1>1. /\ phase \in Passes /\ NoAlap /\ net.mustFinishBy = None
      /\ \A a \in Node : Open(a) /\ ~IsComplete(Task(a)) /\ Duration(Task(a)) > 0
  BY PlainFacts DEF Passes
<1>2. IsNetwork /\ net.dataDate \in Int
  BY DEF Structure, NetworkFixed, IsNetwork
<1>3. PICK D : D = EarlyDates
  OBVIOUS
<1>4. /\ Solves(edges, NoDelay, D)
      /\ \A a \in Node : es[a] \in Int /\ ef[a] \in Int /\ D[a].s = es[a] /\ D[a].f = ef[a]
  BY <1>3, EarlySolves
<1>5. /\ RunInWindow(edges, D) /\ FinishesSnap(D)
      /\ BackInWindow /\ \A a \in Node : LateInWindow(a)
  BY <1>3 DEF FloatsInWindow
<1>6. \A a \in Node : DrawnLate(a)
  <2>1. \A a \in Node : LateAsAsked(a)
    BY DEF LateDatesAsked
  <2> QED BY <1>1, <1>5, <2>1, PlainFacts, LateSpan
<1>7. \A a \in Node : NoDelay[a] = net.dataDate
  BY DEF NoDelay
<1>8. AllSpans(D) /\ LinksKept(D) /\ \A a \in Node : net.dataDate <= D[a].s
  BY <1>1, <1>2, <1>4, <1>5, <1>7, SolutionSpans
<1>9. FinishSet /\ deadline = projectFinish
  BY <1>1 DEF FinishUnlessAlap, FinishSet
<1>10. \A a \in Node : D[a].f <= deadline
  BY <1>4, <1>9 DEF FinishSet
<1>11. \A k \in DOMAIN edges : BoundLands(Link(k), D[edges[k][1]].s, D[edges[k][1]].f)
  BY <1>5 DEF RunInWindow
<1>12. \A a \in Node : D[a].s <= ls[a]
  BY <1>1, <1>5, <1>6, <1>8, <1>10, <1>11, NoLaterThanLate
<1>13. \A a \in Node : ls[a] \in Int /\ lf[a] \in Int
  BY <1>1, <1>2, <1>6, SpanFacts DEF DrawnLate
<1>14. \A a \in Node : totalFloat[a] = CountWorkingDays(Days(a), es[a], ls[a])
  <2>1. \A a \in Node : \E i \in DOMAIN nodes : nodes[i] = a
    BY DEF Structure, KahnInv, IsGraph, Elements
  <2> QED BY <1>1, <2>1 DEF FloatsMeasured
<1>15. \A a \in Node : driving[a] \in Node \cup {None} /\ Driven(a)
  <2>1. \A a \in Node : driving[a] \in Node \cup {None}
    BY DEF Structure, DatesTyped
  <2>2. \A a \in Node : es[a] # None
    BY <1>1 DEF Structure, PhaseOrder, DatesTyped, Passes
  <2> QED BY <1>1, <2>1, <2>2 DEF DrivenUnlessAlap
<1>16. \A a \in Node : /\ es[a] \in Int /\ ef[a] \in Int /\ ls[a] \in Int /\ lf[a] \in Int
                       /\ net.dataDate <= es[a] /\ es[a] <= ls[a]
  BY <1>4, <1>8, <1>12, <1>13
<1> QED BY <1>3, <1>5, <1>6, <1>8, <1>9, <1>14, <1>15, <1>16 DEF Judged

\* What is judged of one activity.
LEMMA JudgedActivity ==
  ASSUME Judged, NEW a \in Node
  PROVE  /\ IsNetwork /\ IsLattice(Days(a)) /\ Duration(Task(a)) > 0
         /\ IsSpan(a, es[a], ef[a]) /\ IsSpan(a, ls[a], lf[a])
         /\ es[a] \in Days(a) /\ ls[a] \in Days(a) /\ lf[a] <= deadline
         /\ es[a] \in Int /\ ls[a] \in Int /\ es[a] <= ls[a]
         /\ totalFloat[a] = BisectLeft(Days(a), ls[a]) - BisectLeft(Days(a), es[a])
         /\ BisectLeft(Days(a), ls[a]) \in Nat /\ BisectLeft(Days(a), es[a]) \in Nat
<1>1. IsNetwork
  BY DEF Judged, Structure, NetworkFixed
<1>2. IsLattice(Days(a)) /\ Duration(Task(a)) > 0
  BY <1>1, PlainFacts, ActivityFacts DEF Judged
<1>3. EarlyDates[a].s = es[a] /\ EarlyDates[a].f = ef[a]
  BY DEF EarlyDates
<1>4. IsSpan(a, es[a], ef[a])
  BY <1>3 DEF Judged, AllSpans
<1>5. IsSpan(a, ls[a], lf[a])
  BY DEF Judged, DrawnLate
<1>6. es[a] \in Days(a) /\ ls[a] \in Days(a)
  BY <1>4, <1>5 DEF IsSpan
<1>7. lf[a] <= deadline
  <2>1. PICK latest \in Int : IsLatest(a, latest) /\ lf[a] <= latest
    BY DEF Judged, DrawnLate
  <2>2. latest <= deadline /\ lf[a] \in Int /\ deadline \in Int
    BY <2>1 DEF IsLatest, Judged, FinishSet
  <2> QED BY <2>1, <2>2
<1>8. /\ es[a] \in Int /\ ls[a] \in Int /\ es[a] <= ls[a]
      /\ totalFloat[a] = CountWorkingDays(Days(a), es[a], ls[a])
  BY DEF Judged
<1>9. BisectLeft(Days(a), ls[a]) \in Nat /\ BisectLeft(Days(a), es[a]) \in Nat
  BY <1>2, PositionsCount
<1> QED BY <1>1, <1>2, <1>4, <1>5, <1>6, <1>7, <1>8, <1>9 DEF CountWorkingDays

\* The dates of a run in which one activity slips, and where it slips to.
LEMMA SlippedRun ==
  ASSUME Judged, NEW a \in Node, NEW n \in Int, Lands(Days(a), es[a], n),
         NEW F, F = Rerun(Delayed(a, n))
  PROVE  \E delay :
           /\ Solves(edges, delay, F)
           /\ \A b \in Node : delay[b] \in Int /\ (b # a => delay[b] = net.dataDate)
           /\ delay[a] \in Days(a)
           /\ BisectLeft(Days(a), delay[a]) = BisectLeft(Days(a), es[a]) + n
<1>1. PICK delay : delay = Delayed(a, n)
  OBVIOUS
<1>2. /\ delay[a] = AddWorkingDays(Days(a), es[a], n)
      /\ \A b \in Node : b # a => delay[b] = net.dataDate
  BY <1>1 DEF Delayed, NoDelay
<1>3. IsNetwork /\ IsLattice(Days(a)) /\ Days(a) \subseteq Int
  BY JudgedActivity DEF IsLattice
<1>4. /\ delay[a] \in Days(a)
      /\ BisectLeft(Days(a), delay[a]) = BisectLeft(Days(a), es[a]) + n
  BY <1>2, <1>3, AddLands
<1>5. \A b \in Node : delay[b] \in Int
  <2>1. net.dataDate \in Int
    BY <1>3 DEF IsNetwork
  <2> QED BY <1>2, <1>3, <1>4, <2>1
<1>6. Structure /\ phase \in Passes /\ PartOfTheLinks(edges)
  BY DEF Judged, Passes, PartOfTheLinks
<1>7. F = RerunOver(edges, delay)
  BY <1>1 DEF Rerun
<1>8. Solves(edges, delay, F)
  BY <1>6, <1>7, RerunSolves DEF Solves
<1> QED BY <1>2, <1>4, <1>5, <1>8

\* Nothing judged has negative float.
LEMMA NothingIsLate ==
  ASSUME Judged
  PROVE  NoUnexplainedNegativeFloat
<1> SUFFICES ASSUME NEW a \in Node PROVE totalFloat[a] >= 0
  BY DEF NoUnexplainedNegativeFloat
<1>1. BisectLeft(Days(a), es[a]) <= BisectLeft(Days(a), ls[a])
  BY JudgedActivity, PositionsGrow
<1> QED BY <1>1, JudgedActivity

\* A run in which an activity slips by its total float finishes by the deadline.
LEMMA FloatIsSpent ==
  ASSUME Judged, FloatsInWindow
  PROVE  TotalFloatCanBeSpent
<1> SUFFICES ASSUME LagsStayOnOneCalendar, NEW a \in Node
             PROVE  FinishOf(Rerun(Delayed(a, totalFloat[a]))) <= projectFinish
  BY DEF TotalFloatCanBeSpent
<1>1. PICK n, F : n = totalFloat[a] /\ F = Rerun(Delayed(a, n))
  OBVIOUS
<1>2. /\ Structure /\ phase = "done" /\ phase \in Passes /\ Plain /\ IsGraph
      /\ (\A b \in Node : DrawnLate(b)) /\ BackInWindow
      /\ LateLinksLand /\ RunInWindow(edges, F)
  BY <1>1 DEF Judged, FloatsInWindow, Passes, Structure, KahnInv
<1>3. LateLinksKept
  BY <1>2, LateKeepsLinks
<1>4. PICK lat : /\ lat = Days(a) /\ IsLattice(lat) /\ ls[a] \in lat /\ n \in Int
                 /\ BisectLeft(lat, ls[a]) = BisectLeft(lat, es[a]) + n
  BY <1>1, JudgedActivity
<1>5. Lands(lat, es[a], n)
  BY <1>4 DEF Lands, IsDaysFrom
<1>6. PICK delay : /\ Solves(edges, delay, F)
                   /\ \A b \in Node : delay[b] \in Int /\ (b # a => delay[b] = net.dataDate)
                   /\ delay[a] \in lat
                   /\ BisectLeft(lat, delay[a]) = BisectLeft(lat, es[a]) + n
  BY <1>1, <1>4, <1>5, SlippedRun
<1>7. delay[a] = ls[a]
  BY <1>4, <1>6, PositionsAreUnique
<1>8. \A b \in Node : net.dataDate \in Int /\ net.dataDate <= ls[b] /\ ls[b] \in Int
  <2>1. \A b \in Node : /\ net.dataDate <= es[b] /\ es[b] <= ls[b]
                        /\ es[b] \in Int /\ ls[b] \in Int
    BY DEF Judged
  <2>2. net.dataDate \in Int
    BY <1>2 DEF Structure, NetworkFixed, IsNetwork
  <2> QED BY <2>1, <2>2
<1>9. \A b \in Node : delay[b] \in Int /\ delay[b] <= ls[b] /\ net.dataDate <= ls[b]
  BY <1>6, <1>7, <1>8
<1>10. \A b \in Node : F[b].s <= ls[b] /\ F[b].f <= lf[b]
  BY <1>2, <1>3, <1>6, <1>9, RunWithinLate
<1>11. \A b \in Node : F[b].f \in Int
  BY <1>2, <1>6, SolutionIsDated
<1>12. PICK c \in Node : FinishOf(F) = F[c].f
  BY <1>2, <1>11, FinishIs
<1>13. F[c].f <= projectFinish /\ projectFinish \in Int
  <2>1. lf[c] <= deadline /\ lf[c] \in Int
    BY JudgedActivity DEF Judged
  <2>2. deadline = projectFinish /\ projectFinish \in Int
    BY DEF Judged, FinishSet
  <2> QED BY <1>10, <1>11, <2>1, <2>2
<1> QED BY <1>1, <1>12, <1>13

\* A run in which it slips by a day more does not.
LEMMA FloatIsSpentUp ==
  ASSUME Judged, FloatsInWindow
  PROVE  TotalFloatIsAll
<1> SUFFICES ASSUME OneCalendar, NEW a \in Node
             PROVE  FinishOf(Rerun(Delayed(a, totalFloat[a] + 1))) > projectFinish
  BY DEF TotalFloatIsAll
<1>1. PICK n, F : n = totalFloat[a] + 1 /\ F = Rerun(Delayed(a, n))
  OBVIOUS
<1>2. /\ Structure /\ phase = "done" /\ phase \in Passes /\ Plain /\ IsGraph
      /\ (\A b \in Node : DrawnLate(b)) /\ BackInWindow
      /\ RunInWindow(edges, F) /\ FinishesSnap(F) /\ Lands(Days(a), es[a], n)
  BY <1>1 DEF Judged, FloatsInWindow, Passes, Structure, KahnInv
<1>3. PICK lat : /\ lat = Days(a) /\ IsLattice(lat) /\ ls[a] \in lat /\ ls[a] \in Int
                 /\ n \in Int /\ BisectLeft(lat, ls[a]) + 1 = BisectLeft(lat, es[a]) + n
                 /\ BisectLeft(lat, ls[a]) \in Nat /\ BisectLeft(lat, es[a]) \in Nat
  BY <1>1, JudgedActivity
<1>4. PICK delay : /\ Solves(edges, delay, F)
                   /\ \A b \in Node : delay[b] \in Int
                   /\ BisectLeft(lat, delay[a]) = BisectLeft(lat, es[a]) + n
  BY <1>1, <1>2, <1>3, SlippedRun
<1>5. ls[a] < delay[a]
  <2>1. delay[a] <= ls[a] => BisectLeft(lat, delay[a]) <= BisectLeft(lat, ls[a])
    BY <1>3, <1>4, PositionsGrow
  <2> QED BY <1>3, <1>4, <2>1
<1>6. AllSpans(F) /\ LinksKept(F) /\ delay[a] <= F[a].s
  BY <1>2, <1>4, SolutionSpans
<1>7. \A b \in Node : F[b].s \in Int /\ F[b].f \in Int
  BY <1>2, <1>4, SolutionIsDated
<1>8. ~(F[a].s <= ls[a])
  BY <1>3, <1>4, <1>5, <1>6, <1>7
<1>9. \A k \in DOMAIN edges : BoundLands(Link(k), F[edges[k][1]].s, F[edges[k][1]].f)
  BY <1>2 DEF RunInWindow
<1>10. ~\A b \in Node : F[b].f <= deadline
  BY <1>2, <1>6, <1>8, <1>9, NoLaterThanLate
<1>11. PICK b \in Node : ~(F[b].f <= deadline)
  BY <1>10
<1>12. deadline = projectFinish /\ projectFinish \in Int
  BY DEF Judged, FinishSet
<1>13. PICK c \in Node : FinishOf(F) = F[c].f /\ F[b].f <= F[c].f
  BY <1>2, <1>7, FinishIs
<1>14. FinishOf(F) > projectFinish
  BY <1>7, <1>11, <1>12, <1>13
<1> QED BY <1>1, <1>14

\* An activity is critical when its late start is no later than its early one.
NoRoom(a) == BisectLeft(Days(a), ls[a]) <= BisectLeft(Days(a), es[a])

\* What drives work without room has none itself, on one calendar.
LEMMA DriverHasNoRoom ==
  ASSUME Judged, OneCalendar, LateLinksLand, RunInWindow(edges, EarlyDates),
         NEW a \in Node, NoRoom(a), driving[a] # None
  PROVE  driving[a] \in Node /\ NoRoom(driving[a])
<1>1. Structure /\ Plain /\ LagsStayOnOneCalendar /\ BackInWindow /\ \A b \in Node : DrawnLate(b)
  BY DEF Judged, OneCalendar
<1>2. LateLinksKept
  BY <1>1, LateKeepsLinks
<1>3. PICK p \in Node : p = driving[a]
  BY DEF Judged
<1>4. PICK k \in DOMAIN edges :
        edges[k] = <<p, a>> /\ es[a] = SnapStartForward(Days(a), LinkBound(k))
  BY <1>3 DEF Judged, Driven
<1>5. edges[k][1] = p /\ edges[k][2] = a
  BY <1>4
<1>6. PICK l \in ALink : l = Link(k) /\ l.pred = p /\ l.succ = a
  BY <1>1, <1>5, EdgeFacts DEF Structure
<1>7. PICK lat : lat = Days(p) /\ lat = Days(a) /\ IsLattice(lat)
  <2>1. Task(p).cal = Task(a).cal
    BY DEF OneCalendar
  <2> QED BY <2>1, JudgedActivity DEF Days
<1>8. /\ IsNetwork /\ l.type # "SF" /\ Duration(Task(l.pred)) > 0 /\ Duration(Task(l.succ)) > 0
      /\ lat = Days(l.pred) /\ lat = Days(l.succ)
      /\ l.lag = 0 \/ net.lagCalendar \in {"predecessor", "successor"}
  <2>1. l.type # "SF"
    BY <1>1, <1>6, PlainFacts DEF LagsAgree
  <2>2. l.lag = 0 \/ net.lagCalendar \in {"predecessor", "successor"}
    BY <1>1, <1>6 DEF LagsStayOnOneCalendar
  <2> QED BY <1>6, <1>7, <2>1, <2>2, JudgedActivity
<1>9. PICK s, f : s = es[p] /\ f = ef[p] /\ IsSpan(p, s, f)
  BY JudgedActivity
<1>10. PICK t, g : t = ls[p] /\ g = lf[p] /\ IsSpan(p, t, g)
  BY JudgedActivity
<1>11. BoundLands(l, s, f) /\ BoundLands(l, t, g) /\ ForwardBound(l, t, g) <= ls[a]
       /\ LinkBound(k) = ForwardBound(l, s, f)
  <2>1. EarlyDates[p].s = s /\ EarlyDates[p].f = f
    BY <1>9 DEF EarlyDates
  <2>2. BoundLands(l, s, f)
    BY <1>5, <1>6, <2>1 DEF RunInWindow
  <2> QED BY <1>2, <1>5, <1>6, <1>9, <1>10, <2>2 DEF LateLinksLand, LateLinksKept, LinkBound
<1>12. s \in Int /\ f \in Int /\ t \in Int /\ g \in Int
  BY <1>6, <1>8, <1>9, <1>10, SpanFacts
<1>13. /\ s \in lat /\ SpanLands(lat, s, Duration(Task(l.pred)))
       /\ f = FinishFromStart(lat, s, Duration(Task(l.pred)))
  BY <1>6, <1>7, <1>9 DEF IsSpan
<1>14. /\ t \in lat /\ SpanLands(lat, t, Duration(Task(l.pred)))
       /\ g = FinishFromStart(lat, t, Duration(Task(l.pred)))
  BY <1>6, <1>7, <1>10 DEF IsSpan
<1>15. BisectLeft(lat, ForwardBound(l, s, f)) = BisectLeft(lat, s) + Shift(l)
  BY <1>8, <1>11, <1>13, BoundPosition
<1>16. BisectLeft(lat, ForwardBound(l, t, g)) = BisectLeft(lat, t) + Shift(l)
  BY <1>8, <1>11, <1>14, BoundPosition
<1>17. ForwardBound(l, s, f) \in Int /\ ForwardBound(l, t, g) \in Int
  BY <1>8, <1>12, ForwardBoundIsInteger
<1>18. BisectLeft(lat, es[a]) = BisectLeft(lat, ForwardBound(l, s, f))
  BY <1>4, <1>7, <1>11, <1>17, SnapSkipsNothing
<1>19. BisectLeft(lat, ForwardBound(l, t, g)) <= BisectLeft(lat, ls[a])
  BY <1>7, <1>11, <1>17, JudgedActivity, PositionsGrow
<1>20. BisectLeft(lat, ls[a]) <= BisectLeft(lat, es[a])
  BY <1>7 DEF NoRoom
<1>21. Shift(l) \in Int
  <2>1. l.lag \in Int /\ Duration(Task(l.pred)) \in Int /\ Duration(Task(l.succ)) \in Int
    BY <1>6, <1>8, ActivityFacts DEF ALink
  <2> QED BY <2>1 DEF Shift
<1>22. /\ BisectLeft(lat, s) \in Nat /\ BisectLeft(lat, t) \in Nat
       /\ BisectLeft(lat, es[a]) \in Nat /\ BisectLeft(lat, ls[a]) \in Nat
  BY <1>7, PositionsCount
<1>23. BisectLeft(lat, t) <= BisectLeft(lat, s)
  BY <1>15, <1>16, <1>18, <1>19, <1>20, <1>21, <1>22
<1> QED BY <1>3, <1>7, <1>9, <1>10, <1>23 DEF NoRoom

\* The chain that sets the finish has no float.
LEMMA ChainIsCritical ==
  ASSUME Judged, FloatsInWindow
  PROVE  LongestPathIsCritical
<1> SUFFICES ASSUME OneCalendar PROVE \A a \in LongestPath : IsCritical(a)
  BY DEF LongestPathIsCritical
<1>1. PICK S : S = {a \in Node : NoRoom(a)}
  OBVIOUS
<1>2. /\ LagsStayOnOneCalendar /\ phase = "done" /\ Plain
      /\ LateLinksLand /\ RunInWindow(edges, EarlyDates) /\ IsGraph
  BY DEF OneCalendar, Judged, FloatsInWindow, Structure, KahnInv
<1>3. terminal \in S
  <2>1. PICK t \in Node : t = terminal /\ ef[t] = deadline
    BY DEF Judged, FinishSet
  <2>2. PICK s, f, u, g : /\ s = es[t] /\ f = ef[t] /\ u = ls[t] /\ g = lf[t]
                          /\ IsSpan(t, s, f) /\ IsSpan(t, u, g) /\ g <= f
    BY <2>1, JudgedActivity
  <2>3. IsNetwork /\ Duration(Task(t)) > 0
    BY JudgedActivity
  <2>4. u <= s
    BY <2>2, <2>3, SpansAreOrdered
  <2>5. NoRoom(t)
    BY <2>2, <2>4, JudgedActivity, PositionsGrow DEF NoRoom
  <2> QED BY <1>1, <2>1, <2>5
<1>4. \A a \in S : driving[a] # None => driving[a] \in S
  BY <1>1, <1>2, DriverHasNoRoom
<1>5. LongestPath \subseteq S
  BY <1>2, <1>3, <1>4, PathStaysAmong
<1> SUFFICES ASSUME NEW a \in S PROVE IsCritical(a)
  BY <1>5
<1>6. a \in Node /\ NoRoom(a)
  BY <1>1
<1>7. totalFloat[a] \in Int /\ totalFloat[a] <= 0
  BY <1>6, JudgedActivity DEF NoRoom
<1>8. totalFloat[a] # None
  BY <1>7, NoneAssumption
<1> QED BY <1>7, <1>8 DEF IsCritical

-----------------------------------------------------------------------------
\* The reported total float is exactly what an activity can slip before the project
\* does: within the window nothing has less than none, spending it moves no finish,
\* one day more does, and the chain that sets the finish has none (cpm.py:489-606).
THEOREM TotalFloatsAreExact ==
  CPMSpec => [](FloatsInWindow => TotalFloatIsExact)
<1>1. /\ Structure /\ DatedUnlessAlap /\ (CapsKept /\ LateDated /\ FloatsMeasured)
      /\ (SuccessorsConsidered /\ LateDatesAsked) /\ FinishUnlessAlap /\ DrivenUnlessAlap
      => (FloatsInWindow => TotalFloatIsExact)
  <2> SUFFICES ASSUME Structure, DatedUnlessAlap, FloatsMeasured, LateDatesAsked,
                      FinishUnlessAlap, DrivenUnlessAlap, FloatsInWindow
               PROVE  TotalFloatIsExact
    OBVIOUS
  <2>1. CASE phase = "done" /\ Plain
    <3>1. Judged
      BY <2>1, JudgedInWindow
    <3> QED BY <3>1, NothingIsLate, FloatIsSpent, FloatIsSpentUp, ChainIsCritical
            DEF TotalFloatIsExact
  <2>2. CASE ~(phase = "done" /\ Plain)
    BY <2>2 DEF TotalFloatIsExact, NoUnexplainedNegativeFloat, TotalFloatCanBeSpent,
       TotalFloatIsAll, LongestPathIsCritical
  <2> QED BY <2>1, <2>2
<1> QED BY <1>1, StructureHolds, DatedUnlessAlapHolds, CapsAndFloats, LateDatesAskedHolds,
           FinishHolds, DrivenHolds, PTL

=============================================================================
