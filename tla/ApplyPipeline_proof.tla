------------------------- MODULE ApplyPipeline_proof -------------------------
(***************************************************************************)
(* The order of the providers and the safety of one apply, for any number  *)
(* of providers, any priority lists and any graph of dependencies.         *)
(***************************************************************************)
EXTENDS ApplyPipeline, TLAPS, FiniteSetTheorems

(* What ResolveDAG has established after each visit: the in-degree counts  *)
(* the unvisited dependencies, what has none is visited or queued, and no  *)
(* part of a cycle is either.                                              *)
DagInv ==
  /\ input \in Seq(Names)
  /\ sorted \in Seq(Nodes)
  /\ queue \subseteq Nodes \ Visited
  /\ inDegree = [n \in Nodes |-> Cardinality(Needs(n) \ Visited)]
  /\ \A n \in Nodes : n \in queue \cup Visited <=> Needs(n) \subseteq Visited
  /\ Len(sorted) = Cardinality(Visited)
  /\ \A S \in SUBSET Nodes : IsCycle(S) => S \cap (queue \cup Visited) = {}
  /\ DependenciesFirst

LEMMA NodesFinite ==
  ASSUME input \in Seq(Names)
  PROVE  /\ IsFiniteSet(Nodes) /\ Nodes \subseteq Names
         /\ \A n : IsFiniteSet(Needs(n)) /\ Needs(n) \subseteq Nodes
<1>1. Selected \subseteq Names
  BY DEF Selected
<1>2. \A n : Needs(n) \subseteq Nodes /\ Needs(n) \subseteq Names
  BY DEF Needs, Nodes
<1>3. Nodes \subseteq Names
  BY <1>1, <1>2 DEF Nodes
<1> QED
  BY <1>2, <1>3, NamesAssumption, FS_Subset

LEMMA DagStarts == Init => DagInv
<1> SUFFICES ASSUME Init PROVE DagInv
  OBVIOUS
<1>1. input \in Seq(Names)
  BY SelectionsAssumption DEF Init, DagInit
<1>2. sorted = <<>> /\ Visited = {} /\ queue = {n \in Nodes : Needs(n) = {}}
  BY DEF Init, DagInit, Visited
<1>3. inDegree = [n \in Nodes |-> Cardinality(Needs(n) \ Visited)]
  BY <1>2 DEF Init, DagInit
<1>4. Len(sorted) = Cardinality(Visited)
  BY <1>2, FS_EmptySet
<1>5. \A S \in SUBSET Nodes : IsCycle(S) => S \cap (queue \cup Visited) = {}
  BY <1>2 DEF IsCycle
<1>6. DependenciesFirst
  BY <1>2 DEF DependenciesFirst
<1> QED
  BY <1>1, <1>2, <1>3, <1>4, <1>5, <1>6 DEF DagInv

LEMMA DagVisits ==
  ASSUME DagInv, NEW n \in queue, Visit(n)
  PROVE  DagInv'
<1> USE DEF DagInv
<1>1. /\ Selected' = Selected /\ Nodes' = Nodes
      /\ \A p : Needs(p)' = Needs(p)
  BY DEF Visit, Selected, Nodes, Needs
<1>2. n \in Nodes \ Visited /\ Needs(n) \subseteq Visited
  OBVIOUS
<1>3. sorted' = Append(sorted, n) /\ sorted' \in Seq(Nodes) /\ Len(sorted') = Len(sorted) + 1
  BY <1>2 DEF Visit
<1>4. Visited' = Visited \cup {n}
  BY <1>2, <1>3 DEF Visited
<1>5. \A p \in Nodes : n \in Needs(p) =>
        Cardinality(Needs(p) \ Visited') = Cardinality(Needs(p) \ Visited) - 1
  <2> SUFFICES ASSUME NEW p \in Nodes, n \in Needs(p)
               PROVE  Cardinality(Needs(p) \ Visited') = Cardinality(Needs(p) \ Visited) - 1
    OBVIOUS
  <2>1. IsFiniteSet(Needs(p) \ Visited)
    BY NodesFinite, FS_Subset, Needs(p) \ Visited \subseteq Needs(p)
  <2>2. Needs(p) \ Visited' = (Needs(p) \ Visited) \ {n}
    BY <1>4
  <2>3. n \in Needs(p) \ Visited
    BY <1>2
  <2>4. Cardinality((Needs(p) \ Visited) \ {n}) = Cardinality(Needs(p) \ Visited) - 1
    BY <2>1, <2>3, FS_RemoveElement
  <2> QED
    BY <2>2, <2>4
<1>6. \A p \in Nodes : n \notin Needs(p) => Needs(p) \ Visited' = Needs(p) \ Visited
  BY <1>4
<1>7. inDegree' = [p \in Nodes |-> Cardinality(Needs(p) \ Visited')]
  BY <1>5, <1>6 DEF Visit
<1>8. \A p \in Nodes : p \in Freed(n) <=> Needs(p) \ Visited = {n}
  <2> SUFFICES ASSUME NEW p \in Nodes
               PROVE  p \in Freed(n) <=> Needs(p) \ Visited = {n}
    OBVIOUS
  <2>1. IsFiniteSet(Needs(p) \ Visited)
    BY NodesFinite, FS_Subset, Needs(p) \ Visited \subseteq Needs(p)
  <2>2. Cardinality(Needs(p) \ Visited) = 1 <=> \E x : Needs(p) \ Visited = {x}
    BY <2>1, FS_Singleton
  <2> QED
    BY <2>2, <1>2 DEF Freed
<1>9. queue' \subseteq Nodes \ Visited'
  <2>1. \A p \in Freed(n) : p \in Nodes /\ p \notin Visited /\ p # n
    BY <1>2, <1>8 DEF Freed
  <2> QED
    BY <2>1, <1>4 DEF Visit
<1>10. \A p \in Nodes : p \in queue' \cup Visited' <=> Needs(p) \subseteq Visited'
  <2> SUFFICES ASSUME NEW p \in Nodes
               PROVE  p \in queue' \cup Visited' <=> Needs(p) \subseteq Visited'
    OBVIOUS
  <2>1. p \in queue' \cup Visited' <=> p \in queue \cup Visited \/ p \in Freed(n)
    BY <1>4 DEF Visit
  <2>2. Needs(p) \subseteq Visited' <=> Needs(p) \subseteq Visited \/ Needs(p) \ Visited = {n}
    BY <1>4
  <2> QED
    BY <2>1, <2>2, <1>8
<1>11. Len(sorted') = Cardinality(Visited')
  <2>1. IsFiniteSet(Visited)
    BY NodesFinite, FS_Subset DEF Visited
  <2> QED
    BY <2>1, <1>2, <1>3, <1>4, FS_AddElement
<1>12. \A S \in SUBSET Nodes : IsCycle(S) => S \cap (queue' \cup Visited') = {}
  <2> SUFFICES ASSUME NEW S \in SUBSET Nodes, IsCycle(S), NEW p \in S
               PROVE  p \notin queue' \cup Visited'
    OBVIOUS
  <2>1. S \cap (queue \cup Visited) = {}
    OBVIOUS
  <2>2. PICK d \in Needs(p) : d \in S
    BY DEF IsCycle
  <2>3. d \notin Visited'
    BY <1>4, <2>1, <2>2
  <2> QED
    BY <1>10, <2>2, <2>3
<1>13. DependenciesFirst'
  <2> SUFFICES ASSUME NEW i \in 1..(Len(sorted) + 1)
               PROVE  /\ \A d \in Needs(sorted'[i]) : \E j \in 1..(i - 1) : sorted'[j] = d
                      /\ \A j \in 1..(Len(sorted) + 1) : sorted'[i] = sorted'[j] => i = j
    <3> HIDE DEF DagInv
    <3>1. DOMAIN sorted' = 1..(Len(sorted) + 1)
      BY <1>3
    <3>2. \A p : Needs(p)' = Needs(p)
      BY <1>1
    <3>3. DependenciesFirst' <=>
            \A i \in DOMAIN sorted' :
              /\ \A d \in Needs(sorted'[i]) : \E j \in 1..(i - 1) : sorted'[j] = d
              /\ \A j \in DOMAIN sorted' : sorted'[i] = sorted'[j] => i = j
      BY ONLY <3>2 DEF DependenciesFirst
    <3> QED
      BY <3>1, <3>3
  <2>1. \A j \in 1..Len(sorted) : sorted'[j] = sorted[j] /\ sorted[j] \in Visited
    BY <1>3 DEF Visited
  <2>2. sorted'[Len(sorted) + 1] = n
    BY <1>3
  <2>3. CASE i = Len(sorted) + 1
    <3>1. DOMAIN sorted = 1..Len(sorted) /\ Len(sorted) \in Nat
      BY <1>3
    <3>2. \A d \in Visited : \E j \in DOMAIN sorted : sorted[j] = d
      BY DEF Visited
    <3>3. \A d \in Needs(n) : \E j \in 1..Len(sorted) : sorted[j] = d
      BY <1>2, <3>1, <3>2
    <3> QED
      BY <2>1, <2>2, <2>3, <3>1, <3>3, <1>2
  <2>4. CASE i \in 1..Len(sorted)
    <3>1. /\ \A d \in Needs(sorted[i]) : \E j \in 1..(i - 1) : sorted[j] = d
          /\ \A j \in 1..Len(sorted) : sorted[i] = sorted[j] => i = j
      BY <2>4 DEF DependenciesFirst
    <3> QED
      BY <2>1, <2>2, <2>4, <3>1, <1>2
  <2> QED
    BY <2>3, <2>4
<1>14. input' \in Seq(Names)
  BY DEF Visit
<1> QED
  <2>1. \A S : IsCycle(S)' <=> IsCycle(S)
    BY <1>1 DEF IsCycle
  <2>2. (inDegree = [p \in Nodes |-> Cardinality(Needs(p) \ Visited)])'
    BY <1>1, <1>7
  <2>3. (\A p \in Nodes : p \in queue \cup Visited <=> Needs(p) \subseteq Visited)'
    BY <1>1, <1>10
  <2>4. (\A S \in SUBSET Nodes : IsCycle(S) => S \cap (queue \cup Visited) = {})'
    BY <1>1, <1>12, <2>1
  <2>5. (sorted \in Seq(Nodes) /\ queue \subseteq Nodes \ Visited)'
    BY <1>1, <1>3, <1>9
  <2> QED
    BY <1>11, <1>13, <1>14, <2>2, <2>3, <2>4, <2>5

(* Every step visits a node or leaves the order alone.                     *)
LEMMA DagStep ==
  ASSUME DagInv, [Next]_vars
  PROVE  DagInv'
<1>1. CASE NextInOrder
  BY <1>1, DagVisits DEF NextInOrder
<1>2. CASE UNCHANGED dag
  <2>1. /\ input' = input /\ depends' = depends /\ inDegree' = inDegree
        /\ queue' = queue /\ sorted' = sorted
    BY <1>2 DEF dag
  <2>2. Selected' = Selected /\ Visited' = Visited
    BY <2>1 DEF Selected, Visited
  <2>3. \A p : Needs(p)' = Needs(p)
    BY <2>1, <2>2 DEF Needs
  <2>4. Nodes' = Nodes
    BY <2>2, <2>3 DEF Nodes
  <2>5. \A S : IsCycle(S)' <=> IsCycle(S)
    BY <2>3 DEF IsCycle
  <2>6. DependenciesFirst' <=> DependenciesFirst
    BY <2>1, <2>2 DEF DependenciesFirst, Needs
  <2>7. (inDegree = [n \in Nodes |-> Cardinality(Needs(n) \ Visited)])'
    BY <2>1, <2>2, <2>3, <2>4 DEF DagInv
  <2> QED
    BY <2>1, <2>2, <2>3, <2>4, <2>5, <2>6, <2>7 DEF DagInv
<1>3. NextInOrder \/ UNCHANGED dag
  BY DEF vars, dag, Next, Step, Locate, Identify, Lock, CycleFound, Enter, BootstrapStep, BootstrapPasses,
     BootstrapFails, Declines, ScriptRuns, Cascade, Bootstrapped, Probe, Sudo, ReconcileStep,
     SkipsProvider, PrintsPlan, Executes, Panics, Summary, StopSudo, ReleaseLock,
     HeartbeatEnds, Cancel
<1> QED
  BY <1>1, <1>2, <1>3

LEMMA DagAlways == Spec => []DagInv
<1>1. Init => DagInv
  BY DagStarts
<1>2. DagInv /\ [Next]_vars => DagInv'
  BY DagStep
<1> QED
  BY <1>1, <1>2, PTL DEF Spec

(* ResolveDAG visits a provider after all that it depends on, and once.    *)
THEOREM OrderIsTopological == Spec => []DependenciesFirst
<1>1. DagInv => DependenciesFirst
  BY DEF DagInv
<1> QED
  BY <1>1, DagAlways, PTL

(* When its queue is empty, ResolveDAG has missed a node if and only if    *)
(* some nodes depend on each other in a cycle.                             *)
THEOREM CyclesExactly == Spec => []CyclesAreFound
<1>1. DagInv => CyclesAreFound
  <2> SUFFICES ASSUME DagInv, Resolved
               PROVE  Cyclic <=> \E S \in SUBSET Nodes : IsCycle(S)
    BY DEF CyclesAreFound
  <2>1. IsFiniteSet(Nodes) /\ \A n : Needs(n) \subseteq Nodes
    BY NodesFinite DEF DagInv
  <2>2. Visited \subseteq Nodes
    BY DEF DagInv, Visited
  <2>3. Cyclic <=> Visited # Nodes
    BY <2>1, <2>2, FS_Subset DEF Cyclic, DagInv
  <2>4. ASSUME Visited # Nodes PROVE IsCycle(Nodes \ Visited)
    BY <2>1, <2>2, <2>4 DEF IsCycle, DagInv, Resolved
  <2>5. ASSUME NEW S \in SUBSET Nodes, IsCycle(S) PROVE Visited # Nodes
    BY <2>5 DEF IsCycle, DagInv
  <2> QED
    BY <2>3, <2>4, <2>5
<1> QED
  BY <1>1, DagAlways, PTL
-----------------------------------------------------------------------------
(* What the deferred calls, the loops' order and the checks of dryRun keep: *)
(* which phases hold the lock, which may have a heartbeat, and which come  *)
(* before the first write or after a failed bootstrap.                     *)
RunInv ==
  /\ phase = "end" => ~locked
  /\ phase \in {"order", "bootstrap", "probe", "sudo", "reconcile"} /\ ~dryRun => locked
  /\ heartbeat = "beating" => locked /\ phase \in {"reconcile", "stop"}
  /\ DryRunIsDry
  /\ phase \in {"start", "identify", "lock", "order", "bootstrap"} =>
       executed = <<>> /\ touched # "state" /\ heartbeat = "off" /\ exit = "none"
  /\ failed # {} =>
       /\ phase \in {"bootstrap", "stop", "release", "end"}
       /\ executed = <<>> /\ touched # "state" /\ heartbeat = "off" /\ exit # "ok"

LEMMA RunStarts == Init => RunInv
BY DEF Init, RunInv, DryRunIsDry

LEMMA RunStep ==
  ASSUME RunInv, [Next]_vars
  PROVE  RunInv'
<1> USE DEF RunInv, DryRunIsDry, setup, skips, work, own
<1>1. CASE Locate \/ Identify \/ Lock
  BY <1>1 DEF Locate, Identify, Lock, Return
<1>2. CASE NextInOrder
  BY <1>2 DEF NextInOrder, pipeVars
<1>3. CASE CycleFound
  BY <1>3 DEF CycleFound, Return
<1>4. CASE Enter
  BY <1>4 DEF Enter, Return
<1>5. CASE BootstrapStep
  <2>1. ASSUME NEW p \in Names, BootstrapPasses(p) \/ BootstrapFails(p) \/ Declines(p)
        PROVE  RunInv'
    BY <2>1 DEF BootstrapPasses, BootstrapFails, Declines, AtBootstrap
  <2>2. ASSUME NEW p \in Names, NEW passes \in BOOLEAN, ScriptRuns(p, passes)
        PROVE  RunInv'
    <3>1. touched' = touched \/ (~dryRun /\ touched' = "tools")
      BY <2>2 DEF ScriptRuns
    <3> QED
      BY <2>2, <3>1 DEF ScriptRuns, AtBootstrap
  <2> QED
    BY <1>5, <2>1, <2>2 DEF BootstrapStep
<1>6. CASE Cascade
  BY <1>6 DEF Cascade
<1>7. CASE Bootstrapped
  BY <1>7 DEF Bootstrapped, Return
<1>8. CASE Probe
  BY <1>8 DEF Probe
<1>9. CASE Sudo
  BY <1>9 DEF Sudo, Return
<1>10. CASE ReconcileStep
  <2>1. ASSUME NEW p \in Names, SkipsProvider(p) \/ PrintsPlan(p)
        PROVE  RunInv'
    BY <2>1 DEF SkipsProvider, PrintsPlan, AtReconcile
  <2>2. ASSUME NEW p \in Names, Executes(p) \/ Panics(p)
        PROVE  RunInv'
    BY <2>2 DEF Executes, Panics, AtReconcile, Return
  <2>3. ASSUME Summary
        PROVE  RunInv'
    BY <2>3 DEF Summary, Return
  <2> QED
    BY <1>10, <2>1, <2>2, <2>3 DEF ReconcileStep
<1>11. CASE StopSudo
  BY <1>11 DEF StopSudo
<1>12. CASE ReleaseLock
  BY <1>12 DEF ReleaseLock
<1>13. CASE HeartbeatEnds
  BY <1>13 DEF HeartbeatEnds
<1>14. CASE Cancel
  BY <1>14 DEF Cancel
<1>15. CASE UNCHANGED vars
  BY <1>15 DEF vars, pipeVars
<1> QED
  BY <1>1, <1>2, <1>3, <1>4, <1>5, <1>6, <1>7, <1>8, <1>9, <1>10, <1>11, <1>12, <1>13,
     <1>14, <1>15 DEF Next, Step

LEMMA RunAlways == Spec => []RunInv
BY RunStarts, RunStep, PTL DEF Spec

(* On whatever path runApply returns, the lock is given back, and the      *)
(* heartbeat has ended before that.                                        *)
THEOREM RunLeavesNothing == Spec => []NothingOutlivesRun
<1>1. RunInv => NothingOutlivesRun
  BY DEF RunInv, NothingOutlivesRun
<1> QED
  BY <1>1, RunAlways, PTL

(* No branch of runApply that a dry run reaches changes anything, but for  *)
(* the identity that ensureProfileConfigured writes when it is missing.    *)
THEOREM DryRunWritesOnlyIdentity == Spec => []DryRunIsDry
<1>1. RunInv => DryRunIsDry
  BY DEF RunInv
<1> QED
  BY <1>1, RunAlways, PTL

(* After a failed bootstrap, runApply neither probes nor executes.         *)
THEOREM FailureEndsRun == Spec => []FailedBootstrapStops
<1>1. RunInv => FailedBootstrapStops
  BY DEF RunInv, FailedBootstrapStops
<1> QED
  BY <1>1, RunAlways, PTL
-----------------------------------------------------------------------------
(* The loops.  All nodes are in order before the first of them; until the  *)
(* end of the bootstrap loop the line is everything that was not dropped,  *)
(* after it what a provider of the line depends on is in the line as well, *)
(* or dropped; and whatever has left the last loop was handled.            *)
Loops == {"bootstrap", "probe", "sudo", "reconcile"}

Executed == {executed[i] : i \in DOMAIN executed}

LineInv ==
  /\ phase \in Loops => Visited = Nodes
  /\ left \subseteq line /\ line \subseteq Selected
  /\ phase = "bootstrap" => line = Selected \ dropped
  /\ phase \in Loops => Selected \ line \subseteq skipped \cup dropped
  /\ phase \in {"probe", "sudo", "reconcile"} =>
       \A p \in line : Needs(p) \cap Selected \subseteq line \cup dropped

WorkInv ==
  /\ executed \in Seq(Names)
  /\ phase \in {"start", "identify", "lock", "order"} \cup Loops => exit = "none"
  /\ phase \in {"start", "identify", "lock", "order"} => executed = <<>> /\ bad = {} /\ ~unsaved
  /\ phase = "reconcile" /\ ~dryRun =>
       line \ left \subseteq Executed \cup bad /\ (cancelled \/ line \ left \subseteq finished \cup bad)
  /\ DependenciesHandled
  /\ OkMeansAllFinished

LEMMA SelectionStays ==
  ASSUME [Next]_vars
  PROVE  /\ Selected' = Selected /\ Nodes' = Nodes
         /\ \A p : Needs(p)' = Needs(p)
         /\ ~NextInOrder => sorted' = sorted /\ Visited' = Visited
<1>1. input' = input /\ depends' = depends /\ (NextInOrder \/ UNCHANGED dag)
  BY DEF vars, dag, Next, Step, Locate, Identify, Lock, NextInOrder, Visit, CycleFound, Enter, BootstrapStep,
     BootstrapPasses, BootstrapFails, Declines, ScriptRuns, Cascade, Bootstrapped, Probe, Sudo,
     ReconcileStep, SkipsProvider, PrintsPlan, Executes, Panics, Summary, StopSudo,
     ReleaseLock, HeartbeatEnds, Cancel
<1>2. Selected' = Selected
  BY <1>1 DEF Selected
<1>3. \A p : Needs(p)' = Needs(p)
  BY <1>1, <1>2 DEF Needs
<1>4. Nodes' = Nodes
  BY <1>2, <1>3 DEF Nodes
<1>5. ~NextInOrder => sorted' = sorted /\ Visited' = Visited
  BY <1>1 DEF dag, Visited
<1> QED
  BY <1>2, <1>3, <1>4, <1>5

(* When ResolveDAG reports no cycle, it has visited every node.            *)
LEMMA AllVisited ==
  ASSUME DagInv, ~Cyclic
  PROVE  Visited = Nodes
<1>1. IsFiniteSet(Nodes) /\ Visited \subseteq Nodes
  BY NodesFinite DEF DagInv, Visited
<1> QED
  BY <1>1, FS_Subset DEF DagInv, Cyclic

(* The first provider that is left depends on none that is left.           *)
LEMMA NextIsFree ==
  ASSUME DagInv, Visited = Nodes, left \subseteq Selected, NEW p, IsNext(p)
  PROVE  Needs(p) \cap left = {}
<1> SUFFICES ASSUME NEW d \in Needs(p), d \in left PROVE FALSE
  OBVIOUS
<1>1. p \in Visited
  BY DEF IsNext, Nodes
<1>2. PICK i \in DOMAIN sorted : sorted[i] = p
  BY <1>1 DEF Visited
<1>3. PICK j \in 1..(i - 1) : sorted[j] = d
  BY <1>2 DEF DagInv, DependenciesFirst
<1>4. DOMAIN sorted = 1..Len(sorted) /\ Len(sorted) \in Nat
  BY DEF DagInv
<1>5. j \in DOMAIN sorted /\ j < i
  BY <1>2, <1>3, <1>4
<1>6. CASE d = p
  BY <1>2, <1>3, <1>5, <1>6 DEF DagInv, DependenciesFirst
<1>7. CASE d # p
  <2>1. PICK k, l \in DOMAIN sorted : k < l /\ sorted[k] = p /\ sorted[l] = d
    BY <1>7 DEF IsNext, Before
  <2>2. k = i /\ l = j
    BY <1>2, <1>3, <1>5, <2>1 DEF DagInv, DependenciesFirst
  <2> QED
    BY <1>2, <1>4, <1>5, <2>1, <2>2
<1> QED
  BY <1>6, <1>7

LEMMA LineStep ==
  ASSUME DagInv, LineInv, [Next]_vars
  PROVE  LineInv'
<1> USE SelectionStays DEF LineInv, Loops, setup, skips, work, own
<1>1. CASE Locate \/ Identify \/ Lock
  BY <1>1 DEF Locate, Identify, Lock, Return, NextInOrder
<1>2. CASE NextInOrder
  BY <1>2 DEF NextInOrder, pipeVars
<1>3. CASE CycleFound
  BY <1>3 DEF CycleFound, Return
<1>4. CASE Enter
  <2>1. Visited' = Nodes'
    BY <1>4, AllVisited DEF Enter, dag, Visited
  <2> QED
    BY <1>4, <2>1 DEF Enter, Return
<1>5. CASE BootstrapStep
  <2>1. PICK p \in Names : \/ BootstrapPasses(p) \/ BootstrapFails(p) \/ Declines(p)
                           \/ \E passes \in BOOLEAN : ScriptRuns(p, passes)
    BY <1>5 DEF BootstrapStep
  <2>2. /\ phase = "bootstrap" /\ phase' = phase /\ UNCHANGED <<dag, line, dropped>>
        /\ left' \subseteq left /\ skipped \subseteq skipped'
    BY <2>1 DEF BootstrapPasses, BootstrapFails, Declines, ScriptRuns, AtBootstrap
  <2>3. Visited' = Visited
    BY <2>2 DEF dag, Visited
  <2> QED
    BY <2>2, <2>3
<1>6. CASE Cascade
  BY <1>6 DEF Cascade, dag, Visited
<1>7. CASE Bootstrapped
  <2>1. Visited' = Visited
    BY <1>7 DEF Bootstrapped, dag, Visited
  <2>2. \A p \in line \ skipped : Needs(p) \cap Selected \subseteq (line \ skipped) \cup dropped
    <3> SUFFICES ASSUME NEW p \in line, p \notin skipped, NEW d \in Needs(p) \cap Selected,
                        d \notin dropped
                 PROVE  d \in line /\ d \notin skipped
      OBVIOUS
    <3>1. d \in line
      BY <1>7 DEF Bootstrapped
    <3>2. p \in Names /\ <<p, d>> \in depends
      BY DEF DagInv, Selected, Needs
    <3>3. ~Cascades(p)
      BY <1>7, <3>2 DEF Bootstrapped
    <3> QED
      BY <3>1, <3>2, <3>3 DEF Cascades
  <2> QED
    BY <1>7, <2>1, <2>2 DEF Bootstrapped, Return
<1>8. CASE Probe
  BY <1>8 DEF Probe, dag, Visited
<1>9. CASE Sudo
  BY <1>9 DEF Sudo, Return, dag, Visited
<1>10. CASE ReconcileStep
  <2>1. /\ phase = "reconcile" /\ phase' \in {"reconcile", "stop"}
        /\ UNCHANGED <<dag, line, dropped, skipped>> /\ left' \subseteq left
    BY <1>10 DEF ReconcileStep, SkipsProvider, PrintsPlan, Executes, Panics, Summary, AtReconcile,
       Return
  <2>2. Visited' = Visited
    BY <2>1 DEF dag, Visited
  <2> QED
    BY <2>1, <2>2
<1>11. CASE StopSudo \/ ReleaseLock
  BY <1>11 DEF StopSudo, ReleaseLock
<1>12. CASE HeartbeatEnds \/ Cancel
  BY <1>12 DEF HeartbeatEnds, Cancel, dag, Visited
<1>13. CASE UNCHANGED vars
  BY <1>13 DEF vars, pipeVars, dag, Visited
<1> QED
  BY <1>1, <1>2, <1>3, <1>4, <1>5, <1>6, <1>7, <1>8, <1>9, <1>10, <1>11, <1>12, <1>13
  DEF Next, Step
LEMMA LineStarts == Init => LineInv
BY DEF Init, LineInv, Loops

LEMMA WorkStarts == Init => WorkInv
BY DEF Init, WorkInv, Loops, DependenciesHandled, OkMeansAllFinished

(* A provider that is executed comes after all it depends on.              *)
LEMMA ExecutedInOrder ==
  ASSUME DagInv, LineInv, WorkInv, [Next]_vars, NEW p, Executes(p)
  PROVE  executed' \in Seq(Names) /\ Executed' = Executed \cup {p} /\ DependenciesHandled'
<1>1. /\ phase = "reconcile" /\ ~dryRun /\ p \in line /\ IsNext(p)
      /\ executed' = Append(executed, p) /\ bad \subseteq bad' /\ dropped' = dropped
  BY DEF Executes, AtReconcile, IsNext, LineInv, setup
<1>2. p \in Names /\ executed \in Seq(Names)
  BY <1>1 DEF DagInv, LineInv, WorkInv, Selected
<1>3. /\ executed' \in Seq(Names) /\ Len(executed') = Len(executed) + 1
      /\ Len(executed) \in Nat /\ DOMAIN executed = 1..Len(executed)
      /\ DOMAIN executed' = 1..(Len(executed) + 1)
      /\ executed'[Len(executed) + 1] = p
      /\ \A j \in 1..Len(executed) : executed'[j] = executed[j]
  BY <1>1, <1>2
<1>4. Executed' = Executed \cup {p}
  BY <1>3 DEF Executed
<1>5. ASSUME NEW d \in Needs(p) \cap Selected
      PROVE  d \in Executed \/ d \in bad \/ d \in dropped
  <2>1. d \notin left
    BY <1>1, NextIsFree DEF LineInv, Loops
  <2>2. d \in line \/ d \in dropped
    BY <1>1 DEF LineInv
  <2> QED
    BY <1>1, <2>1, <2>2 DEF WorkInv
<1>6. ASSUME NEW i \in DOMAIN executed', NEW d \in Needs(executed'[i]) \cap Selected
      PROVE  (\E j \in 1..(i - 1) : executed'[j] = d) \/ d \in bad' \/ d \in dropped'
  <2>1. CASE i \in DOMAIN executed
    <3>1. (\E j \in 1..(i - 1) : executed[j] = d) \/ d \in bad \/ d \in dropped
      BY <1>3, <2>1 DEF WorkInv, DependenciesHandled
    <3> QED
      BY <1>1, <1>3, <2>1, <3>1
  <2>2. CASE i = Len(executed) + 1
    <3>1. d \in Executed \/ d \in bad \/ d \in dropped
      BY <1>3, <1>5, <2>2
    <3>2. d \in Executed => \E j \in 1..Len(executed) : executed[j] = d
      BY <1>3 DEF Executed
    <3> QED
      BY <1>1, <1>3, <2>2, <3>1, <3>2
  <2> QED
    BY <1>3, <2>1, <2>2
<1>7. DependenciesHandled'
  BY <1>6, SelectionStays DEF DependenciesHandled
<1> QED
  BY <1>3, <1>4, <1>7

(* What was executed stays so, and nobody is unmarked.                     *)
LEMMA HandledStays ==
  ASSUME WorkInv, [Next]_vars, executed' = executed, bad \subseteq bad', dropped \subseteq dropped'
  PROVE  executed' \in Seq(Names) /\ Executed' = Executed /\ DependenciesHandled'
BY SelectionStays DEF WorkInv, Executed, DependenciesHandled

LEMMA WorkStep ==
  ASSUME DagInv, LineInv, WorkInv, RunInv, [Next]_vars
  PROVE  WorkInv'
<1> USE SelectionStays DEF Loops, setup, skips, work, own
<1>1. CASE Locate \/ Identify \/ Lock \/ CycleFound
  <2>1. DependenciesHandled' /\ executed' \in Seq(Names)
    BY <1>1, HandledStays DEF Locate, Identify, Lock, CycleFound
  <2> QED
    BY <1>1, <2>1 DEF Locate, Identify, Lock, CycleFound, Return, WorkInv, OkMeansAllFinished
<1>2. CASE NextInOrder
  <2>1. DependenciesHandled' /\ executed' \in Seq(Names)
    BY <1>2, HandledStays DEF NextInOrder, pipeVars
  <2> QED
    BY <1>2, <2>1 DEF NextInOrder, pipeVars, WorkInv, OkMeansAllFinished
<1>3. CASE Enter
  <2>1. executed' = <<>> /\ DependenciesHandled'
    BY <1>3, SelectionStays DEF Enter, WorkInv, DependenciesHandled
  <2> QED
    BY <1>3, <2>1 DEF Enter, Return, WorkInv, OkMeansAllFinished
<1>4. CASE BootstrapStep
  <2>1. PICK p \in Names : \/ BootstrapPasses(p) \/ BootstrapFails(p) \/ Declines(p)
                           \/ \E passes \in BOOLEAN : ScriptRuns(p, passes)
    BY <1>4 DEF BootstrapStep
  <2>2. /\ phase = "bootstrap" /\ phase' = phase
        /\ UNCHANGED <<executed, bad, dropped, exit, dryRun>>
    BY <2>1 DEF BootstrapPasses, BootstrapFails, Declines, ScriptRuns, AtBootstrap
  <2>3. DependenciesHandled' /\ executed' \in Seq(Names)
    BY <2>2, HandledStays
  <2> QED
    BY <2>2, <2>3 DEF WorkInv, OkMeansAllFinished
<1>5. CASE Cascade \/ Bootstrapped \/ Probe \/ Sudo
  <2>1. /\ phase \in {"bootstrap", "probe", "sudo"} /\ UNCHANGED <<executed, bad, dropped, dryRun>>
        /\ phase' \in {"bootstrap", "probe", "sudo", "reconcile", "stop"}
        /\ phase' = "reconcile" => left' = line'
        /\ exit' = exit \/ (phase' = "stop" /\ exit' # "ok")
    BY <1>5 DEF Cascade, Bootstrapped, Probe, Sudo, Return
  <2>2. DependenciesHandled' /\ executed' \in Seq(Names)
    BY <2>1, HandledStays
  <2>3. exit' # "ok"
    BY <2>1 DEF WorkInv
  <2> QED
    BY <2>1, <2>2, <2>3 DEF WorkInv, OkMeansAllFinished
<1>6. CASE \E p \in Names : SkipsProvider(p) \/ PrintsPlan(p)
  <2>1. PICK p \in Names : SkipsProvider(p) \/ PrintsPlan(p)
    BY <1>6
  <2>2. /\ phase = "reconcile" /\ left' = left \ {p} /\ bad \subseteq bad'
        /\ dryRun \/ p \in bad'
        /\ UNCHANGED <<phase, line, executed, finished, dropped, dryRun, cancelled, exit>>
    BY <2>1 DEF SkipsProvider, PrintsPlan, AtReconcile
  <2>3. DependenciesHandled' /\ executed' \in Seq(Names) /\ Executed' = Executed
    BY <2>2, HandledStays
  <2> QED
    BY <2>2, <2>3 DEF WorkInv, OkMeansAllFinished
<1>7. CASE \E p \in Names : Executes(p)
  <2>1. PICK p \in Names : Executes(p)
    BY <1>7
  <2>2. /\ phase = "reconcile" /\ left' = left \ {p} /\ bad \subseteq bad' /\ finished \subseteq finished'
        /\ cancelled \/ p \in finished' \cup bad'
        /\ UNCHANGED <<phase, line, dropped, dryRun, cancelled, exit>>
    BY <2>1 DEF Executes, AtReconcile
  <2>3. DependenciesHandled' /\ executed' \in Seq(Names) /\ Executed' = Executed \cup {p}
    BY <2>1, ExecutedInOrder
  <2> QED
    BY <2>2, <2>3 DEF WorkInv, OkMeansAllFinished
<1>8. CASE (\E p \in Names : Panics(p)) \/ Summary
  <2>0. exit' = "ok" => left = {} /\ bad = {} /\ ~unsaved /\ (cancelled => dryRun)
    BY <1>8 DEF Panics, Summary, Return
  <2>1. /\ phase = "reconcile" /\ phase' = "stop"
        /\ UNCHANGED <<line, left, skipped, dropped, executed, finished, bad, unsaved, dryRun, cancelled>>
    BY <1>8 DEF Panics, Summary, Return, AtReconcile
  <2>2. DependenciesHandled' /\ executed' \in Seq(Names) /\ Executed' = Executed
    BY <2>1, HandledStays
  <2>3. OkMeansAllFinished'
    <3> SUFFICES ASSUME exit' = "ok", ~dryRun
                 PROVE  /\ bad = {} /\ ~unsaved
                        /\ \A p \in Selected \ finished : p \in skipped \/ p \in dropped
      BY <2>1 DEF OkMeansAllFinished
    <3>1. left = {} /\ bad = {} /\ ~unsaved /\ ~cancelled
      BY <2>0
    <3>2. line \subseteq finished
      BY <2>1, <3>1 DEF WorkInv
    <3> QED
      BY <2>1, <3>1, <3>2 DEF LineInv
  <2> QED
    BY <2>1, <2>2, <2>3 DEF WorkInv
<1>9. CASE StopSudo \/ ReleaseLock
  <2>1. /\ phase' \in {"release", "end"}
        /\ UNCHANGED <<executed, finished, bad, unsaved, skipped, dropped, dryRun, exit>>
    BY <1>9 DEF StopSudo, ReleaseLock
  <2>2. DependenciesHandled' /\ executed' \in Seq(Names) /\ Executed' = Executed
    BY <2>1, HandledStays
  <2> QED
    BY <2>1, <2>2 DEF WorkInv, OkMeansAllFinished
<1>10. CASE HeartbeatEnds \/ Cancel \/ UNCHANGED vars
  <2>1. /\ UNCHANGED <<phase, line, left, skipped, dropped, executed, finished, bad, unsaved, dryRun, exit>>
        /\ cancelled => cancelled'
    BY <1>10 DEF HeartbeatEnds, Cancel, vars, pipeVars
  <2>2. DependenciesHandled' /\ executed' \in Seq(Names) /\ Executed' = Executed
    BY <2>1, HandledStays
  <2> QED
    BY <2>1, <2>2 DEF WorkInv, OkMeansAllFinished
<1> QED
  BY <1>1, <1>2, <1>3, <1>4, <1>5, <1>6, <1>7, <1>8, <1>9, <1>10 DEF Next, Step, ReconcileStep

LEMMA WorkAlways == Spec => [](DagInv /\ LineInv /\ WorkInv)
<1>1. Init => DagInv /\ LineInv /\ WorkInv
  BY DagStarts, LineStarts, WorkStarts
<1>2. DagInv /\ LineInv /\ WorkInv /\ RunInv /\ [Next]_vars => (DagInv /\ LineInv /\ WorkInv)'
  BY DagStep, LineStep, WorkStep
<1> QED
  BY <1>1, <1>2, RunAlways, PTL DEF Spec

(* runApply executes a provider only when every selected one it depends on *)
(* was executed before, is counted as bad or was dropped: the cascade of   *)
(* the skips reaches every dependent, in any graph without a cycle.        *)
THEOREM DependenciesComeFirst == Spec => []DependenciesHandled
<1>1. WorkInv => DependenciesHandled
  BY DEF WorkInv
<1> QED
  BY <1>1, WorkAlways, PTL

(* runApply exits 0 only when every selected provider did all its work,    *)
(* except those the user chose to skip and the orphans it drops.           *)
THEOREM OkIsComplete == Spec => []OkMeansAllFinished
<1>1. WorkInv => OkMeansAllFinished
  BY DEF WorkInv
<1> QED
  BY <1>1, WorkAlways, PTL
=============================================================================
