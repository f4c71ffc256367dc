-------------------------- MODULE TopologicalOrder --------------------------
(***************************************************************************)
(* What massingplan/core/graph.py promises, without Kahn's algorithm: the  *)
(* activities are placed one at a time, each after all its predecessors,   *)
(* and a network is refused exactly when work is left and none of it can   *)
(* be placed.  KahnSort implements this.                                   *)
(***************************************************************************)
EXTENDS Integers, Sequences, FiniteSets

CONSTANT Node

VARIABLES
  nodes, edges,       \* the network, as in KahnSort
  order,              \* the activities placed so far
  answer              \* "none" until the sort has ended

topoVars == <<nodes, edges, order, answer>>

Members(s) == {s[i] : i \in DOMAIN s}

IsPlaced(n) == n \in Members(order)

MayPlace(n) ==
  /\ n \in Members(nodes)
  /\ ~IsPlaced(n)
  /\ \A k \in DOMAIN edges : edges[k][2] = n => IsPlaced(edges[k][1])

TopoInit ==
  /\ order = <<>>
  /\ answer = "none"

Place ==
  /\ answer = "none"
  /\ \E n \in Node : MayPlace(n) /\ order' = Append(order, n)
  /\ UNCHANGED <<nodes, edges, answer>>

Accept ==
  /\ answer = "none"
  /\ \A n \in Members(nodes) : IsPlaced(n)
  /\ answer' = "ordered"
  /\ UNCHANGED <<nodes, edges, order>>

Refuse ==
  /\ answer = "none"
  /\ \E n \in Members(nodes) : ~IsPlaced(n)
  /\ \A n \in Node : ~MayPlace(n)
  /\ answer' = "cycle"
  /\ UNCHANGED <<nodes, edges, order>>

TopoNext == Place \/ Accept \/ Refuse

TopoSpec == TopoInit /\ [][TopoNext]_topoVars
=============================================================================
