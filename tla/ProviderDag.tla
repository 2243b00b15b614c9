----------------------------- MODULE ProviderDag -----------------------------
(***************************************************************************)
(* The order in which one run of hams visits its providers: ResolveDAG     *)
(* (internal/provider/dag.go), Kahn's topological sort over the depend-on  *)
(* declarations of the selected providers.                                 *)
(*                                                                         *)
(* A provider is named by its rank in alphabetical order.  The queue of    *)
(* the algorithm is first in, first out: a node is queued with its place,  *)
(* the round that freed it and, within a round, the order of the input.    *)
(* Two declarations of the same dependency free the dependent at the       *)
(* second, as one declaration does; they are one edge here.                *)
(***************************************************************************)
EXTENDS Naturals, Sequences, FiniteSets

CONSTANTS
  Names,      \* the providers that are registered
  Width       \* larger than every name and every place in an input

ASSUME NamesAssumption == IsFiniteSet(Names) /\ Names \subseteq Nat
ASSUME WidthAssumption == Width \in Nat /\ \A n \in Names : n < Width

VARIABLES
  input,      \* the selected providers, in priority order
  depends,    \* <<p, d>>: p declares that it depends on d on this platform
  inDegree,   \* the declarations of a node that no visited node satisfies
  queue,      \* the nodes that are free and not visited
  place,      \* their places in the queue
  sorted      \* the nodes visited so far

dag == <<input, depends, inDegree, queue, place, sorted>>

Selected == {input[i] : i \in DOMAIN input}
Visited  == {sorted[i] : i \in DOMAIN sorted}

(* Only a selected provider's declarations count; what it depends on is a  *)
(* node, selected or not.                                                  *)
Needs(n) == IF n \in Selected THEN {d \in Names : <<n, d>> \in depends} ELSE {}
Nodes    == Selected \cup UNION {Needs(p) : p \in Selected}

DagInit(inputs, graphs) ==
  /\ input \in inputs
  /\ depends \in graphs
  /\ inDegree = [n \in Nodes |-> Cardinality(Needs(n))]
  /\ queue = {n \in Nodes : Needs(n) = {}}
  /\ place = [n \in Nodes |-> n]
  /\ sorted = <<>>

First(n) == n \in queue /\ \A m \in queue : place[n] <= place[m]

(* A provider that the priority list names twice is freed at its last      *)
(* declaration.                                                            *)
Position(p) == CHOOSE i \in DOMAIN input :
                 input[i] = p /\ \A j \in DOMAIN input : input[j] = p => j <= i

(* Two wrong releases: with a dependency left, and never.                  *)
FreedEarly(n) == {p \in Nodes : n \in Needs(p) /\ inDegree[p] <= 2}
FreedNever(n) == {p \in Nodes : n \in Needs(p) /\ inDegree[p] = 0}

Freed(n) == {p \in Nodes : n \in Needs(p) /\ inDegree[p] = 1}

(* Take the first node of the queue; its dependents have one unsatisfied   *)
(* declaration less, and those that have none left are queued in the order *)
(* of the input.                                                           *)
Visit(n) ==
  /\ First(n)
  /\ sorted' = Append(sorted, n)
  /\ inDegree' = [p \in Nodes |-> IF n \in Needs(p) THEN inDegree[p] - 1 ELSE inDegree[p]]
  /\ queue' = (queue \ {n}) \cup Freed(n)
  /\ place' = [p \in Nodes |->
       IF p \in Freed(n) THEN Width * Len(sorted') + Position(p) ELSE place[p]]
  /\ UNCHANGED <<input, depends>>

Resolved == queue = {}
Cyclic   == Len(sorted) # Cardinality(Nodes)

(* What ResolveDAG returns when there is no cycle: the selected providers, *)
(* in this order.                                                          *)
Before(p, q) ==
  \E i, j \in DOMAIN sorted : i < j /\ sorted[i] = p /\ sorted[j] = q

-----------------------------------------------------------------------------
(* A provider is visited after all that it depends on, and only once.      *)
DependenciesFirst ==
  \A i \in DOMAIN sorted :
    /\ \A d \in Needs(sorted[i]) : \E j \in 1..(i - 1) : sorted[j] = d
    /\ \A j \in DOMAIN sorted : sorted[i] = sorted[j] => i = j

(* A set of nodes each of which depends on one of the set: a cycle.        *)
IsCycle(S) == S # {} /\ \A n \in S : Needs(n) \cap S # {}

(* ResolveDAG reports a cycle when there is one and only then.             *)
CyclesAreFound == Resolved => (Cyclic <=> \E S \in SUBSET Nodes : IsCycle(S))
=============================================================================
