------------------------------ MODULE KahnSort ------------------------------
(***************************************************************************)
(* The topological sort of the scheduling network and the naming of one    *)
(* concrete loop when there is none (massingplan/core/graph.py).           *)
(*                                                                         *)
(* nodes is the list of activity ids in declaration order; edges maps a    *)
(* declaration position to a <<predecessor, successor>> pair.  The         *)
(* positions need not be contiguous: links that a progress mode suppresses *)
(* are not part of the graph, and the same pair may be declared twice.     *)
(* The adjacency lists of the code are the edges of one predecessor taken  *)
(* in declaration order.                                                   *)
(***************************************************************************)
EXTENDS Integers, Sequences, FiniteSets

CONSTANT Node         \* the activity ids

VARIABLES
  nodes,              \* declaration order of the ids (never changes)
  edges,              \* declared links (never change)
  inDegree,           \* unplaced predecessors of each node, with multiplicity
  seeded,             \* how many nodes the seeding scan has visited
  ready,              \* the FIFO queue of nodes whose predecessors are placed
  order,              \* the topological order so far
  cursor,             \* next edge position of the node just placed
  sort,               \* where the algorithm is
  path                \* the walk of find_cycle, then the loop it names

kahnVars == <<nodes, edges, inDegree, seeded, ready, order, cursor, sort, path>>

Elements(s) == {s[i] : i \in DOMAIN s}

EdgesInto(n) == {k \in DOMAIN edges : edges[k][2] = n}

Placed == Elements(order)

Unplaced == Elements(nodes) \ Placed

\* The node whose successors the inner loop is releasing.
Current == order[Len(order)]

\* k is the next of n's edges, in declaration order, at or after position c.
IsNextEdge(n, c, k) ==
  /\ k \in DOMAIN edges /\ k >= c /\ edges[k][1] = n
  /\ \A j \in DOMAIN edges : j >= c /\ edges[j][1] = n => k <= j

InnerLoopDone ==
  order # <<>> => \A k \in DOMAIN edges : k >= cursor => edges[k][1] # Current

-----------------------------------------------------------------------------
KahnInit ==
  /\ inDegree = [n \in Node |-> Cardinality(EdgesInto(n))]
  /\ seeded = 0
  /\ ready = <<>>
  /\ order = <<>>
  /\ cursor = 1
  /\ sort = "seed"
  /\ path = <<>>

\* Faults, each a slip this code could have had: the runs check that every
\* property notices one of them.
QueueAsStack(n)    == <<n>> \o ready
SeedsAlmostFree(n) == inDegree[n] <= 1
FreedTooSoon(n)    == inDegree[n] <= 2

Enqueue(n) == Append(ready, n)

IsFree(n) == inDegree[n] = 0

\* The decrement under way takes n's degree to zero.
BecomesFree(n) == inDegree[n] = 1

\* One step of the scan that seeds the queue in declaration order.
Seed ==
  /\ sort = "seed"
  /\ seeded < Len(nodes)
  /\ seeded' = seeded + 1
  /\ LET n == nodes[seeded + 1]
     IN  ready' = IF IsFree(n) THEN Enqueue(n) ELSE ready
  /\ UNCHANGED <<nodes, edges, inDegree, order, cursor, sort, path>>

StartLoop ==
  /\ sort = "seed"
  /\ seeded = Len(nodes)
  /\ sort' = "loop"
  /\ UNCHANGED <<nodes, edges, inDegree, seeded, ready, order, cursor, path>>

Dequeue ==
  /\ sort = "loop"
  /\ InnerLoopDone
  /\ ready # <<>>
  /\ order' = Append(order, Head(ready))
  /\ ready' = Tail(ready)
  /\ cursor' = 1
  /\ UNCHANGED <<nodes, edges, inDegree, seeded, sort, path>>

\* The next successor of the node just placed has one predecessor fewer to wait for.
Release ==
  /\ sort = "loop"
  /\ order # <<>>
  /\ \E k \in DOMAIN edges :
       /\ IsNextEdge(Current, cursor, k)
       /\ cursor' = k + 1
       /\ LET succ == edges[k][2]
          IN  /\ inDegree' = [inDegree EXCEPT ![succ] = @ - 1]
              /\ ready' = IF BecomesFree(succ) THEN Enqueue(succ) ELSE ready
  /\ UNCHANGED <<nodes, edges, seeded, order, sort, path>>

\* The first unplaced node in declaration order.
IsFirstUnplaced(i) ==
  /\ nodes[i] \notin Placed
  /\ \A j \in 1..(i - 1) : nodes[j] \in Placed

\* The queue is empty: either every node is placed, or a loop has to be named.
Finish ==
  /\ sort = "loop"
  /\ InnerLoopDone
  /\ ready = <<>>
  /\ IF Len(order) = Len(nodes)
     THEN sort' = "ordered" /\ path' = path
     ELSE /\ sort' = "cycle"
          /\ \E i \in DOMAIN nodes :
               /\ IsFirstUnplaced(i)
               /\ path' = <<nodes[i]>>
  /\ UNCHANGED <<nodes, edges, inDegree, seeded, ready, order, cursor>>

\* k is the first edge from n into the unplaced pool.
IsFirstOnward(n, k) ==
  /\ k \in DOMAIN edges /\ edges[k][1] = n /\ edges[k][2] \in Unplaced
  /\ \A j \in DOMAIN edges :
       edges[j][1] = n /\ edges[j][2] \in Unplaced => k <= j

\* A walk that does not stop at a node it has met.
WalkForgets ==
  /\ sort = "cycle"
  /\ \E k \in DOMAIN edges :
       /\ IsFirstOnward(path[Len(path)], k)
       /\ path' = IF edges[k][2] \in Elements(path) THEN path ELSE Append(path, edges[k][2])
  /\ UNCHANGED <<nodes, edges, inDegree, seeded, ready, order, cursor, sort>>

\* One step of find_cycle's walk; a node met again closes the loop, and the
\* tail that led into it is trimmed.
Walk ==
  /\ sort = "cycle"
  /\ \E k \in DOMAIN edges :
       /\ IsFirstOnward(path[Len(path)], k)
       /\ LET node == edges[k][2]
          IN  IF node \in Elements(path)
              THEN /\ sort' = "named"
                   /\ \E i \in DOMAIN path :
                        /\ path[i] = node
                        /\ path' = Append(SubSeq(path, i, Len(path)), node)
              ELSE sort' = sort /\ path' = Append(path, node)
  /\ UNCHANGED <<nodes, edges, inDegree, seeded, ready, order, cursor>>

\* The walk runs out of unplaced successors and reports the path it walked.
WalkEnds ==
  /\ sort = "cycle"
  /\ \A k \in DOMAIN edges : ~IsFirstOnward(path[Len(path)], k)
  /\ sort' = "named"
  /\ UNCHANGED <<nodes, edges, inDegree, seeded, ready, order, cursor, path>>

KahnNext == Seed \/ StartLoop \/ Dequeue \/ Release \/ Finish \/ Walk \/ WalkEnds

\* What validate_network guarantees of its input: distinct ids, and links
\* between activities of the list.
IsGraph ==
  /\ nodes \in Seq(Node)
  /\ Elements(nodes) = Node
  /\ \A i, j \in DOMAIN nodes : nodes[i] = nodes[j] => i = j
  /\ DOMAIN edges \subseteq Nat \ {0}
  /\ IsFiniteSet(DOMAIN edges)
  /\ edges \in [DOMAIN edges -> Node \X Node]

KahnSpec == IsGraph /\ KahnInit /\ [][KahnNext]_kahnVars

-----------------------------------------------------------------------------
\* Properties.

\* Types of the working state; the degree of a node never goes below zero.
KahnTypeOK ==
  /\ inDegree \in [Node -> Nat]
  /\ seeded \in 0..Len(nodes)
  /\ ready \in Seq(Node)
  /\ order \in Seq(Node)
  /\ cursor \in Nat
  /\ sort \in {"seed", "loop", "ordered", "cycle", "named"}
  /\ path \in Seq(Node)

\* Every node placed has all its predecessors placed before it, at every
\* moment of the sort -- the fact both passes of the scheduler rely on when
\* they read a predecessor's dates.
OrderRespectsEdges ==
  \A k \in DOMAIN edges : \A j \in DOMAIN order :
    order[j] = edges[k][2] =>
      \E i \in DOMAIN order : i < j /\ order[i] = edges[k][1]

\* No activity enters the order or the queue twice, whatever links are
\* declared more than once.
Injective(s) == \A i, j \in DOMAIN s : s[i] = s[j] => i = j

PlacedOnce ==
  /\ Injective(order)
  /\ Injective(ready)
  /\ Placed \cap Elements(ready) = {}

\* The refusal is never spurious: when a cycle is reported, every node left
\* over waits on another that is left over too, so some loop exists among them.
CycleIsReal ==
  sort \in {"cycle", "named"} =>
    /\ Unplaced # {}
    /\ \A n \in Unplaced :
         \E k \in DOMAIN edges : edges[k][2] = n /\ edges[k][1] \in Unplaced

\* Nothing is dropped: a sort that succeeds has placed every node.
OrderIsComplete == sort = "ordered" => Placed = Elements(nodes)

\* Activities without predecessors keep their declaration order, so a schedule
\* with no logic comes back in the order the caller supplied it.
RootsKeepDeclarationOrder ==
  \A i, j \in DOMAIN nodes :
    (/\ i < j /\ EdgesInto(nodes[i]) = {} /\ EdgesInto(nodes[j]) = {}
     /\ nodes[j] \in Placed)
    => \E p, q \in DOMAIN order :
         p < q /\ order[p] = nodes[i] /\ order[q] = nodes[j]

\* Kahn's algorithm implements the one-line definition of a topological order:
\* a step places an activity none of whose predecessors is unplaced, and the
\* network is refused exactly when no such activity is left.
Topo == INSTANCE TopologicalOrder WITH
          answer <- IF sort = "ordered" THEN "ordered"
                    ELSE IF sort \in {"cycle", "named"} THEN "cycle" ELSE "none"

ImplementsTopologicalOrder == Topo!TopoSpec

-----------------------------------------------------------------------------
\* The inductive invariant.

\* The inner loop has counted edge k off its successor.
Released(k) ==
  /\ edges[k][1] \in Placed
  /\ edges[k][1] = Current => k < cursor

Waiting(n) == {k \in EdgesInto(n) : ~Released(k)}

\* The degrees are exactly the edges still to be released.
DegreesCount == \A n \in Node : inDegree[n] = Cardinality(Waiting(n))

\* Everything in the order or the queue waits for nothing.
LineIsFree == \A n \in Placed \cup Elements(ready) : Waiting(n) = {}

\* The seeding scan has queued the free nodes it has visited, and no other.
SeedScan ==
  sort = "seed" =>
    /\ order = <<>>
    /\ Elements(ready) =
         {nodes[i] : i \in {i \in 1..seeded : inDegree[nodes[i]] = 0}}

\* From then on every free node is in the order or the queue.
FreeIsInLine ==
  sort # "seed" => \A n \in Node : inDegree[n] = 0 => n \in Placed \cup Elements(ready)

\* The loop was left with nothing queued and nothing to release.
LoopWasDone ==
  sort \in {"ordered", "cycle", "named"} =>
    /\ ready = <<>>
    /\ InnerLoopDone
    /\ Len(order) = Len(nodes) <=> sort = "ordered"

KahnInv ==
  /\ KahnTypeOK /\ IsGraph
  /\ DegreesCount /\ LineIsFree /\ PlacedOnce
  /\ SeedScan /\ FreeIsInLine /\ LoopWasDone
  /\ OrderRespectsEdges
=============================================================================
