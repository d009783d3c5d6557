------------------------ MODULE SourceAnalysis_proofs ------------------------
(***************************************************************************)
(* Proofs about SourceAnalysis, for every application whose files read as  *)
(* JavaScript:                                                             *)
(*                                                                         *)
(*   PathsShortest  the path of every function is a shortest one;          *)
(*   PathsCalled    a path is made of calls, each in the body of the       *)
(*                  function before, by a name that means the next;        *)
(*   CallsOwned     a resolved call of a package is made through the       *)
(*                  variable that holds the import.                        *)
(*                                                                         *)
(* The first is the argument of a breadth-first search: the depths of the  *)
(* queue do not decrease and span at most two calls (InOrder, Near), a     *)
(* function that left the queue has its calls followed (Left), and no      *)
(* function is followed before all entry points are in the queue           *)
(* (Entering).  What the extraction and the resolution of calls compute    *)
(* plays no part.                                                          *)
(*                                                                         *)
(* The other two are about what those compute.  Their invariant is that of *)
(* the stages (Extracted); the rest compares, in any tree, the ranges of   *)
(* lines and lists of names the analysis uses with the scopes of the       *)
(* language: the owner of a call runs it (OwnersRun), an unshadowed name   *)
(* is a function the graph knows or one of the top level (NameKnown), and  *)
(* the nearest lexical binding is the variable (NearestIs).                *)
(***************************************************************************)
EXTENDS SourceAnalysis, TLAPS, FiniteSetTheorems, WellFoundedInduction

InQueue(f) == \E i \in 1 .. Len(queue) : queue[i] = f

Shape ==
    /\ \A f \in DOMAIN edges : edges[f] \subseteq DOMAIN edges
    /\ DOMAIN paths \subseteq DOMAIN edges
    /\ DOMAIN depth = DOMAIN paths
    /\ \A f \in DOMAIN paths : depth[f] \in Nat
    /\ queue \in Seq(DOMAIN edges)
    /\ \A i \in 1 .. Len(queue) : queue[i] \in DOMAIN paths

Parented ==
    \A f \in DOMAIN paths :
        \/ f \in Starts /\ depth[f] = 0 /\ paths[f].entry = f
        \/ \E p \in DOMAIN paths : /\ p = paths[f].parent /\ f \in edges[p]
                                   /\ depth[f] = depth[p] + 1
                                   /\ paths[f].entry = paths[p].entry

InOrder == \A i, j \in 1 .. Len(queue) : i <= j => depth[queue[i]] <= depth[queue[j]]
Near == \A i \in 1 .. Len(queue), f \in DOMAIN paths : depth[f] <= depth[queue[i]] + 1
Left == \A f \in DOMAIN paths :
            InQueue(f) \/ \A g \in edges[f] : g \in DOMAIN paths /\ depth[g] <= depth[f] + 1
Entering == Starts \subseteq DOMAIN paths \/ \A f \in DOMAIN paths : InQueue(f) /\ depth[f] = 0

Stages ==
    /\ stage \in {"extract", "graph"} => queue = <<>> /\ paths = Empty /\ depth = Empty
    /\ stage = "extract" => edges = Empty
    /\ stage = "graph" => edges = Empty
    /\ Done => queue = <<>> /\ Starts \subseteq DOMAIN paths

Inv == Shape /\ Parented /\ InOrder /\ Near /\ Left /\ Entering /\ Stages

\* Before the search there are no paths: the invariant holds of nothing.
LEMMA NothingFound ==
    ASSUME queue = <<>>, paths = Empty, depth = Empty,
           \A f \in DOMAIN edges : edges[f] \subseteq DOMAIN edges
    PROVE  Shape /\ Parented /\ InOrder /\ Near /\ Left /\ Entering
<1>1. DOMAIN Empty = {}
  BY DEF Empty
<1>2. Len(queue) = 0 /\ queue \in Seq(DOMAIN edges)
  OBVIOUS
<1> QED BY <1>1, <1>2 DEF Shape, Parented, InOrder, Near, Left, Entering, InQueue

\* The invariant holds before anything is read.
LEMMA InvInit == Init => Inv
<1> SUFFICES ASSUME Init PROVE Inv
  OBVIOUS
<1>1. \A f \in DOMAIN edges : edges[f] \subseteq DOMAIN edges
  BY DEF Init, Empty
<1>2. Stages
  BY DEF Init, Stages, Done
<1> QED BY <1>1, <1>2, NothingFound DEF Init, Inv

\* The call graph leads from functions to functions.
LEMMA EdgesClosed ==
    ASSUME NEW nodes, NEW pairs
    PROVE  LET e == BuildCallGraph(nodes, pairs)
           IN  \A f \in DOMAIN e : e[f] \subseteq DOMAIN e
BY DEF BuildCallGraph

\* A function found by Enter or Follow joins the maps and the end of the queue.
LEMMA Found ==
    ASSUME NEW f, NEW value, NEW d \in Nat, Shape, f \in DOMAIN edges \ DOMAIN paths,
           UNCHANGED edges,
           paths' = Record(paths, f, value), depth' = Record(depth, f, d),
           queue' = Enqueued(queue, f)
    PROVE  /\ DOMAIN paths' = DOMAIN paths \cup {f} /\ DOMAIN depth' = DOMAIN paths'
           /\ paths'[f] = value /\ depth'[f] = d
           /\ \A g \in DOMAIN paths : paths'[g] = paths[g] /\ depth'[g] = depth[g]
           /\ Len(queue') = Len(queue) + 1 /\ queue'[Len(queue) + 1] = f
           /\ \A i \in 1 .. Len(queue) : queue'[i] = queue[i]
           /\ Len(queue) \in Nat
           /\ Shape'
           /\ \A g \in DOMAIN paths : InQueue(g) => InQueue(g)'
           /\ InQueue(f)'
<1>1. /\ DOMAIN paths' = DOMAIN paths \cup {f} /\ DOMAIN depth' = DOMAIN paths'
      /\ paths'[f] = value /\ depth'[f] = d
      /\ \A g \in DOMAIN paths : paths'[g] = paths[g] /\ depth'[g] = depth[g]
  BY DEF Record, Shape
<1>2. /\ Len(queue') = Len(queue) + 1 /\ queue'[Len(queue) + 1] = f
      /\ \A i \in 1 .. Len(queue) : queue'[i] = queue[i]
      /\ Len(queue) \in Nat
      /\ queue' \in Seq(DOMAIN edges)
  BY DEF Enqueued, Shape
<1>3. Shape'
  <2>1. \A i \in 1 .. Len(queue') : queue'[i] \in DOMAIN paths'
    BY <1>1, <1>2 DEF Shape
  <2>2. \A g \in DOMAIN paths' : depth'[g] \in Nat
    BY <1>1 DEF Shape
  <2> QED BY <1>1, <1>2, <2>1, <2>2 DEF Shape
<1>4. \A g \in DOMAIN paths : InQueue(g) => InQueue(g)'
  BY <1>2 DEF InQueue
<1>5. InQueue(f)'
  BY <1>2 DEF InQueue
<1> QED BY <1>1, <1>2, <1>3, <1>4, <1>5

\* While entry points are entered, everything found is one.
LEMMA EnterKeeps ==
    ASSUME NEW f, Inv, Enter(f) PROVE Inv'
<1>1. /\ UNCHANGED <<app, results, edges, stage>> /\ stage = "search"
      /\ f \in DOMAIN edges \ DOMAIN paths /\ f \in Starts /\ Starts' = Starts
  BY DEF Enter, Starts
<1>2. \A g \in DOMAIN paths : InQueue(g) /\ depth[g] = 0
  BY <1>1 DEF Enter, Inv, Entering
<1> DEFINE value == [entry |-> f, parent |-> NoParent]
<1>3. paths' = Record(paths, f, value) /\ depth' = Record(depth, f, 0) /\ queue' = Enqueued(queue, f)
  BY DEF Enter
<1>4. value.entry = f
  OBVIOUS
<1> HIDE DEF value
<1>5. /\ DOMAIN paths' = DOMAIN paths \cup {f}
      /\ paths'[f] = value /\ depth'[f] = 0
      /\ \A g \in DOMAIN paths : paths'[g] = paths[g] /\ depth'[g] = depth[g]
      /\ Shape'
      /\ \A g \in DOMAIN paths : InQueue(g) => InQueue(g)'
      /\ InQueue(f)'
  BY <1>1, <1>3, Found DEF Inv
<1>6. \A g \in DOMAIN paths' : depth'[g] = 0 /\ InQueue(g)'
  BY <1>2, <1>5
<1>7. Parented'
  BY <1>1, <1>4, <1>5 DEF Parented, Inv
<1>8. InOrder' /\ Near' /\ Left' /\ Entering'
  BY <1>5, <1>6 DEF Shape, InOrder, Near, Left, Entering
<1>9. Stages'
  BY <1>1 DEF Stages, Done
<1> QED BY <1>5, <1>7, <1>8, <1>9 DEF Inv

\* A function called by the head is one call farther than the head.
LEMMA FollowKeeps ==
    ASSUME NEW f, Inv, Follow(f) PROVE Inv'
<1> DEFINE h == queue[1]
<1>1. /\ UNCHANGED <<app, results, edges, stage>> /\ stage = "search"
      /\ Starts' = Starts /\ Starts \subseteq DOMAIN paths
  BY DEF Follow, Starts
<1>2. /\ Len(queue) \in Nat \ {0} /\ h = Head(queue) /\ h \in DOMAIN paths
      /\ f \in edges[h] \ DOMAIN paths /\ f \in DOMAIN edges
      /\ depth[h] \in Nat
  BY DEF Follow, Inv, Shape
<1> DEFINE value == [entry |-> paths[h].entry, parent |-> h]
<1>3. /\ paths' = Record(paths, f, value) /\ depth' = Record(depth, f, depth[h] + 1)
      /\ queue' = Enqueued(queue, f)
  BY <1>2 DEF Follow
<1>4. value.entry = paths[h].entry /\ value.parent = h
  OBVIOUS
<1> HIDE DEF value, h
<1>5. /\ DOMAIN paths' = DOMAIN paths \cup {f}
      /\ paths'[f] = value /\ depth'[f] = depth[h] + 1
      /\ \A g \in DOMAIN paths : paths'[g] = paths[g] /\ depth'[g] = depth[g]
      /\ Len(queue') = Len(queue) + 1 /\ queue'[Len(queue) + 1] = f
      /\ \A i \in 1 .. Len(queue) : queue'[i] = queue[i]
      /\ Shape'
      /\ \A g \in DOMAIN paths : InQueue(g) => InQueue(g)'
      /\ InQueue(f)'
  BY <1>1, <1>2, <1>3, depth[h] + 1 \in Nat, Found DEF Inv
<1>6. Parented'
  BY <1>1, <1>2, <1>4, <1>5 DEF Parented, Inv
<1>7. /\ \A g \in DOMAIN paths : depth[g] \in Nat /\ depth[g] <= depth[h] + 1
      /\ \A i \in 1 .. Len(queue) : queue[i] \in DOMAIN paths /\ depth[h] <= depth[queue[i]]
  BY <1>2 DEF Inv, Near, InOrder, Shape, h
<1>8. InOrder'
  <2> SUFFICES ASSUME NEW i \in 1 .. Len(queue) + 1, NEW j \in 1 .. Len(queue) + 1, i <= j
               PROVE  depth'[queue'[i]] <= depth'[queue'[j]]
    BY <1>5 DEF InOrder
  <2>1. CASE j <= Len(queue)
    <3>1. depth[queue[i]] <= depth[queue[j]]
      BY <2>1, <1>2 DEF Inv, InOrder
    <3> QED BY <2>1, <3>1, <1>2, <1>5, <1>7
  <2>2. CASE j = Len(queue) + 1 /\ i <= Len(queue)
    BY <2>2, <1>2, <1>5, <1>7
  <2>3. CASE i = Len(queue) + 1 /\ j = Len(queue) + 1
    BY <2>3, <1>2, <1>5
  <2> QED BY <2>1, <2>2, <2>3, <1>2
<1>9. Near'
  <2> SUFFICES ASSUME NEW i \in 1 .. Len(queue) + 1, NEW g \in DOMAIN paths \cup {f}
               PROVE  depth'[g] <= depth'[queue'[i]] + 1
    BY <1>5 DEF Near
  <2>1. depth'[g] \in Nat /\ depth'[g] <= depth[h] + 1
    BY <1>2, <1>5, <1>7
  <2>2. depth'[queue'[i]] \in Nat /\ depth[h] <= depth'[queue'[i]]
    <3>1. CASE i <= Len(queue)
      BY <3>1, <1>2, <1>5, <1>7
    <3>2. CASE i = Len(queue) + 1
      BY <3>2, <1>2, <1>5
    <3> QED BY <3>1, <3>2, <1>2
  <2> QED BY <2>1, <2>2, <1>2
<1>10. Left'
  BY <1>1, <1>5 DEF Left, Inv, Shape
<1>11. Entering'
  BY <1>1, <1>5 DEF Entering
<1>12. Stages'
  BY <1>1 DEF Stages, Done
<1> QED BY <1>5, <1>6, <1>8, <1>9, <1>10, <1>11, <1>12 DEF Inv

\* The head leaves the queue when all it calls is found.
LEMMA DequeueKeeps == Inv /\ Dequeue => Inv'
<1> SUFFICES ASSUME Inv, Dequeue PROVE Inv'
  OBVIOUS
<1> DEFINE h == queue[1]
<1>1. /\ UNCHANGED <<app, results, edges, paths, depth, stage>> /\ stage = "search"
      /\ Starts' = Starts /\ Starts \subseteq DOMAIN paths
  BY DEF Dequeue, Starts
<1>2. /\ Len(queue) \in Nat \ {0} /\ h = Head(queue) /\ edges[h] \subseteq DOMAIN paths
      /\ queue' \in Seq(DOMAIN edges) /\ Len(queue') = Len(queue) - 1
      /\ \A i \in 1 .. Len(queue') : queue'[i] = queue[i + 1] /\ i + 1 \in 1 .. Len(queue)
  BY DEF Dequeue, Inv, Shape
<1>3. Shape'
  BY <1>1, <1>2 DEF Inv, Shape
<1>4. Parented' /\ Entering' /\ Stages'
  BY <1>1 DEF Inv, Parented, Entering, Stages, Done
<1>5. Near'
  BY <1>1, <1>2 DEF Inv, Near
<1>6. InOrder'
  <2> SUFFICES ASSUME NEW i \in 1 .. Len(queue'), NEW j \in 1 .. Len(queue'), i <= j
               PROVE  depth[queue[i + 1]] <= depth[queue[j + 1]]
    BY <1>1, <1>2 DEF InOrder
  <2> QED BY <1>2, i + 1 <= j + 1 DEF Inv, InOrder
<1>7. Left'
  <2> SUFFICES ASSUME NEW f \in DOMAIN paths, ~InQueue(f)'
               PROVE  \A g \in edges[f] : g \in DOMAIN paths /\ depth[g] <= depth[f] + 1
    BY <1>1 DEF Left
  <2>1. CASE f = h
    BY <2>1, <1>2 DEF Inv, Near
  <2>2. CASE f # h
    <3>1. ~InQueue(f)
      <4> SUFFICES ASSUME NEW i \in 1 .. Len(queue), queue[i] = f PROVE FALSE
        BY DEF InQueue
      <4>1. i # 1
        BY <2>2
      <4>2. i - 1 \in 1 .. Len(queue') /\ queue'[i - 1] = f
        BY <4>1, <1>2
      <4> QED BY <4>2 DEF InQueue
    <3> QED BY <3>1 DEF Inv, Left
  <2> QED BY <2>1, <2>2
<1> QED BY <1>3, <1>4, <1>5, <1>6, <1>7 DEF Inv

\* Every step keeps the invariant.
LEMMA InvNext == Inv /\ [Next]_vars => Inv'
<1> SUFFICES ASSUME Inv, [Next]_vars PROVE Inv'
  OBVIOUS
<1>1. CASE ExtractFiles
  <2>1. queue' = <<>> /\ paths' = Empty /\ depth' = Empty /\ edges' = Empty /\ stage' = "graph"
    BY <1>1 DEF ExtractFiles, Inv, Stages
  <2>2. \A f \in DOMAIN edges' : edges'[f] \subseteq DOMAIN edges'
    BY <2>1 DEF Empty
  <2>3. Stages'
    BY <2>1 DEF Stages, Done
  <2>4. (Shape /\ Parented /\ InOrder /\ Near /\ Left /\ Entering)'
    BY <2>1, <2>2 DEF Shape, Parented, InOrder, Near, Left, Entering, InQueue, Empty
  <2> QED BY <2>3, <2>4 DEF Inv
<1>2. CASE BuildGraph
  <2>1. queue' = <<>> /\ paths' = Empty /\ depth' = Empty /\ stage' = "search"
    BY <1>2 DEF BuildGraph, Inv, Stages
  <2>2. \A f \in DOMAIN edges' : edges'[f] \subseteq DOMAIN edges'
    BY <1>2, EdgesClosed DEF BuildGraph, CallEdges
  <2>3. Stages'
    BY <2>1 DEF Stages, Done
  <2>4. (Shape /\ Parented /\ InOrder /\ Near /\ Left /\ Entering)'
    BY <2>1, <2>2 DEF Shape, Parented, InOrder, Near, Left, Entering, InQueue, Empty
  <2> QED BY <2>3, <2>4 DEF Inv
<1>3. ASSUME NEW f \in DOMAIN edges, Enter(f) PROVE Inv'
  BY <1>3, EnterKeeps
<1>4. ASSUME NEW f \in DOMAIN edges, Follow(f) PROVE Inv'
  BY <1>4, FollowKeeps
<1>5. CASE Dequeue
  BY <1>5, DequeueKeeps
<1>6. CASE Observe
  <2>1. UNCHANGED <<app, results, edges, queue, paths, depth>> /\ Starts' = Starts
    BY <1>6 DEF Observe, Starts
  <2>2. (Shape /\ Parented /\ InOrder /\ Near /\ Left /\ Entering)'
    BY <2>1 DEF Inv, Shape, Parented, InOrder, Near, Left, Entering, InQueue
  <2>3. Stages'
    BY <1>6, <2>1 DEF Observe, Stages, Done
  <2> QED BY <2>2, <2>3 DEF Inv
<1>7. CASE UNCHANGED vars
  <2>1. UNCHANGED <<app, results, edges, queue, paths, depth, stage>> /\ Starts' = Starts
    BY <1>7 DEF vars, Starts
  <2> QED BY <2>1 DEF Inv, Shape, Parented, InOrder, Near, Left, Entering, InQueue, Stages, Done
<1> QED BY <1>1, <1>2, <1>3, <1>4, <1>5, <1>6, <1>7 DEF Next

\* Once the search is over the queue is empty, so that every function found
\* has left it.
LEMMA ShortestFromInv == Inv => PathsAreShortest
<1> SUFFICES ASSUME Inv, Done PROVE PathsAreShortest
  BY DEF PathsAreShortest
<1>1. \A f : ~InQueue(f)
  BY DEF Inv, Stages, InQueue
<1> QED BY <1>1 DEF Inv, Stages, Parented, Left, PathsAreShortest

\* Whatever the files of an application and its entry points are, the search
\* of pathsFrom ends with every function they reach, each with a parent one
\* call nearer and no call that leads to it from nearer than that.
THEOREM PathsShortest == Spec => []PathsAreShortest
<1> QED BY InvInit, InvNext, ShortestFromInv, PTL DEF Spec

-----------------------------------------------------------------------------
(* The path of a function is a chain of calls.                              *)

\* A set of natural numbers has a least one: every induction below is on it.
LEMMA LeastNatural ==
    ASSUME NEW S \in SUBSET Nat, S # {}
    PROVE  \E x \in S : \A y \in S : x <= y
<1>1. IsWellFoundedOn(OpToRel(<, Nat), Nat)
  BY NatLessThanWellFounded
<1>2. \E x \in S : \A y \in S : ~(<<y, x>> \in OpToRel(<, Nat))
  BY <1>1, WFMin
<1>3. \A x, y \in Nat : ~(<<y, x>> \in OpToRel(<, Nat)) => x <= y
  BY DEF OpToRel
<1> QED BY <1>2, <1>3

\* The way back from a function along the parents.
WayBack(B, map, target, length) ==
    B = [k \in 0 .. length |-> IF k = 0 THEN target ELSE map[B[k - 1]].parent]

\* There is a way back of every length.
LEMMA WayBackExists ==
    ASSUME NEW map, NEW target, NEW length \in Nat
    PROVE  \E B : WayBack(B, map, target, length)
<1> DEFINE Missing == {n \in Nat : ~\E B : WayBack(B, map, target, n)}
<1> SUFFICES Missing = {}
  OBVIOUS
<1> SUFFICES ASSUME Missing # {} PROVE FALSE
  OBVIOUS
<1>1. PICK n \in Missing : \A m \in Missing : n <= m
  BY LeastNatural
<1>2. n # 0
  <2> DEFINE B == [k \in 0 .. 0 |-> target]
  <2>1. B = [k \in 0 .. 0 |-> IF k = 0 THEN target ELSE map[B[k - 1]].parent]
    OBVIOUS
  <2> HIDE DEF B
  <2>2. WayBack(B, map, target, 0)
    BY <2>1 DEF WayBack
  <2> QED BY <2>2
<1>3. n - 1 \in Nat /\ n - 1 \notin Missing
  BY <1>1, <1>2
<1>4. PICK C : WayBack(C, map, target, n - 1)
  BY <1>3
<1> DEFINE B == [k \in 0 .. n |-> IF k = 0 THEN target ELSE map[C[k - 1]].parent]
<1>5. \A k \in 0 .. n - 1 : C[k] = IF k = 0 THEN target ELSE map[C[k - 1]].parent
  BY <1>3, <1>4 DEF WayBack
<1>6. \A k \in 0 .. n - 1 : B[k] = C[k]
  BY <1>1, <1>5
<1>7. B = [k \in 0 .. n |-> IF k = 0 THEN target ELSE map[B[k - 1]].parent]
  <2>1. \A k \in 0 .. n : (IF k = 0 THEN target ELSE map[C[k - 1]].parent)
                          = (IF k = 0 THEN target ELSE map[B[k - 1]].parent)
    <3> SUFFICES ASSUME NEW k \in 0 .. n, k # 0 PROVE B[k - 1] = C[k - 1]
      OBVIOUS
    <3>1. n \in Nat /\ k - 1 \in 0 .. n - 1
      BY <1>1
    <3> HIDE DEF B
    <3> QED BY <3>1, <1>6
  <2> QED BY <2>1
<1> HIDE DEF B
<1>8. WayBack(B, map, target, n)
  BY <1>7 DEF WayBack
<1> QED BY <1>1, <1>8

\* And PathOf is the way back, reversed.
LEMMA PathOfIsWayBack ==
    ASSUME NEW map, NEW target, NEW length \in Nat
    PROVE  \E B : /\ WayBack(B, map, target, length)
                  /\ PathOf(map, target, length) = [k \in 1 .. length + 1 |-> B[length + 1 - k]]
<1> DEFINE B == CHOOSE C : WayBack(C, map, target, length)
<1>1. WayBack(B, map, target, length)
  BY WayBackExists
<1>2. PathOf(map, target, length) = [k \in 1 .. length + 1 |-> B[length + 1 - k]]
  BY DEF PathOf, WayBack
<1> QED BY <1>1, <1>2

\* Each step of a way back is one call nearer to the entry point.
LEMMA WayBackIsChain ==
    ASSUME Inv, NEW f \in DOMAIN paths, NEW B, WayBack(B, paths, f, depth[f])
    PROVE  \A k \in 0 .. depth[f] : /\ B[k] \in DOMAIN paths /\ depth[B[k]] = depth[f] - k
                                    /\ paths[B[k]].entry = paths[f].entry
                                    /\ k > 0 => B[k - 1] \in edges[B[k]]
<1>0. depth[f] \in Nat
  BY DEF Inv, Shape
<1> DEFINE Fine(k) == /\ B[k] \in DOMAIN paths /\ depth[B[k]] = depth[f] - k
                      /\ paths[B[k]].entry = paths[f].entry
                      /\ k > 0 => B[k - 1] \in edges[B[k]]
           Bad == {k \in 0 .. depth[f] : ~Fine(k)}
<1> SUFFICES ASSUME Bad # {} PROVE FALSE
  OBVIOUS
<1>1. PICK k \in Bad : \A m \in Bad : k <= m
  <2>1. Bad \in SUBSET Nat
    BY <1>0
  <2> HIDE DEF Bad
  <2> QED BY <2>1, LeastNatural
<1>2. B[0] = f
  BY <1>0 DEF WayBack
<1>3. k # 0
  BY <1>0, <1>1, <1>2
<1>4. k - 1 \in 0 .. depth[f] /\ Fine(k - 1)
  BY <1>0, <1>1, <1>3
<1>5. B[k] = paths[B[k - 1]].parent
  BY <1>0, <1>1, <1>3 DEF WayBack
<1> DEFINE g == B[k - 1]
<1>6. g \in DOMAIN paths /\ depth[g] = depth[f] - (k - 1) /\ depth[g] # 0 /\ paths[g].entry = paths[f].entry
  BY <1>0, <1>1, <1>4
<1>7. \E p \in DOMAIN paths : /\ p = paths[g].parent /\ g \in edges[p]
                              /\ depth[g] = depth[p] + 1 /\ paths[g].entry = paths[p].entry
  BY <1>6 DEF Inv, Parented
<1>8. \A p \in DOMAIN paths : depth[p] \in Nat
  BY DEF Inv, Shape
<1>9. Fine(k)
  BY <1>0, <1>1, <1>5, <1>6, <1>7, <1>8
<1> QED BY <1>1, <1>9

\* The path of a function found.
IsChain(path, f) ==
    /\ Len(path) = depth[f] + 1 /\ Len(path) \in Nat
    /\ path[1] = paths[f].entry /\ path[1] \in Starts /\ path[Len(path)] = f
    /\ \A k \in 1 .. Len(path) - 1 : path[k] \in DOMAIN paths /\ path[k + 1] \in edges[path[k]]

\* The path of a function is a chain of calls from its entry point.
LEMMA PathIsChain ==
    ASSUME Inv, NEW f \in DOMAIN paths
    PROVE  IsChain(PathOf(paths, f, depth[f]), f)
<1>0. depth[f] \in Nat
  BY DEF Inv, Shape
<1> DEFINE L == depth[f]
           path == PathOf(paths, f, L)
<1>1. PICK B : WayBack(B, paths, f, L) /\ path = [k \in 1 .. L + 1 |-> B[L + 1 - k]]
  <2>1. L \in Nat
    BY <1>0
  <2> HIDE DEF L
  <2>2. \A map, target : \E B : /\ WayBack(B, map, target, L)
                               /\ PathOf(map, target, L) = [k \in 1 .. L + 1 |-> B[L + 1 - k]]
    BY <2>1, PathOfIsWayBack
  <2> QED BY <2>2
<1>2. \A k \in 0 .. L : /\ B[k] \in DOMAIN paths /\ depth[B[k]] = L - k
                        /\ paths[B[k]].entry = paths[f].entry
                        /\ k > 0 => B[k - 1] \in edges[B[k]]
  BY <1>1, WayBackIsChain
<1> HIDE DEF path
<1>3. Len(path) = L + 1 /\ path[1] = B[L] /\ path[L + 1] = B[0]
  BY <1>0, <1>1
<1>4. B[0] = f
  BY <1>0, <1>1 DEF WayBack
<1>5. B[L] \in DOMAIN paths /\ depth[B[L]] = 0 /\ paths[B[L]].entry = paths[f].entry
  BY <1>0, <1>2
<1>6. \A p \in DOMAIN paths : depth[p] \in Nat
  BY DEF Inv, Shape
<1>7. B[L] \in Starts /\ paths[B[L]].entry = B[L]
  BY <1>5, <1>6 DEF Inv, Parented
<1>8. ASSUME NEW k \in 1 .. L
      PROVE  path[k] \in DOMAIN paths /\ path[k + 1] \in edges[path[k]]
  <2>1. path[k] = B[L + 1 - k] /\ path[k + 1] = B[L - k]
    BY <1>0, <1>1
  <2>2. L + 1 - k \in 0 .. L /\ L + 1 - k > 0 /\ (L + 1 - k) - 1 = L - k
    BY <1>0
  <2> QED BY <1>2, <2>1, <2>2
<1> QED BY <1>0, <1>3, <1>4, <1>5, <1>7, <1>8 DEF IsChain, path

-----------------------------------------------------------------------------
(* Trees.                                                                   *)

\* A bounded set has a greatest member, and Greatest is it.
LEMMA GreatestOf ==
    ASSUME NEW n \in Nat, NEW S \in SUBSET (1 .. n), S # {}
    PROVE  Greatest(S) \in S /\ \A y \in S : y <= Greatest(S)
<1> DEFINE T == {n - y : y \in S}
<1>1. T \in SUBSET Nat /\ T # {}
  <2>1. \A y \in S : n - y \in Nat
    OBVIOUS
  <2> QED BY <2>1
<1>2. \E x \in T : \A y \in T : x <= y
  <2> HIDE DEF T
  <2> QED BY <1>1, LeastNatural
<1>3. PICK z \in S : \A y \in T : n - z <= y
  BY <1>2
<1>4. \A y \in S : n - z <= n - y
  BY <1>3
<1>5. \A y \in S : y <= z
  BY <1>4
<1> QED BY <1>5 DEF Greatest

\* A node of a tree, its parent and its end.
LEMMA TreeNode ==
    ASSUME NEW t, IsTree(t), NEW i \in DOMAIN t
    PROVE  /\ i \in Nat /\ 1 <= i /\ 1 \in DOMAIN t /\ i <= t[1].last /\ t[1].last \in Nat
           /\ t[i].last \in DOMAIN t /\ t[i].last \in Nat /\ i <= t[i].last
           /\ t[i].up \in Nat /\ t[i].up < i
           /\ t[i].up # 0 => t[i].up \in DOMAIN t /\ i <= t[t[i].up].last
BY DEF IsTree

\* A node that ends in another is under it.
LEMMA TreeUnder ==
    ASSUME NEW t, IsTree(t), NEW i \in DOMAIN t, NEW j \in DOMAIN t, i < j, j <= t[i].last
    PROVE  i <= t[j].up /\ t[j].last <= t[i].last
BY DEF IsTree

\* The innermost node of some kinds around another.
LEMMA InnermostIs ==
    ASSUME NEW t, IsTree(t), NEW i \in DOMAIN t, NEW kinds, NEW k \in Around(t, i, kinds)
    PROVE  LET m == InnermostAround(t, i, kinds)
           IN  /\ m \in DOMAIN t /\ t[m].kind \in kinds /\ m < i /\ i <= t[m].last
               /\ \A j \in DOMAIN t : t[j].kind \in kinds /\ j < i /\ i <= t[j].last => j <= m
<1> DEFINE A == Around(t, i, kinds)
<1>1. t[1].last \in Nat /\ DOMAIN t = 1 .. t[1].last
  BY DEF IsTree
<1>2. A \in SUBSET (1 .. t[1].last) /\ A # {}
  BY <1>1 DEF Around, OfKind
<1>3. Greatest(A) \in A /\ \A y \in A : y <= Greatest(A)
  <2> HIDE DEF A
  <2> QED BY <1>1, <1>2, GreatestOf
<1> QED BY <1>3 DEF InnermostAround, Around, OfKind

\* The function that runs a node.
Runners == JsFunctions \cup {"program"}
\* There is one, and the top level is that of no function.
LEMMA RunByIs ==
    ASSUME NEW t, IsJavaScript(t), NEW i \in DOMAIN t, i # 1
    PROVE  LET m == RunBy(t, i)
           IN  /\ m \in DOMAIN t /\ t[m].kind \in Runners /\ m < i /\ i <= t[m].last
               /\ (t[m].kind = "program" <=> m = 1)
               /\ \A j \in DOMAIN t : t[j].kind \in Runners /\ j < i /\ i <= t[j].last => j <= m
<1>1. IsTree(t) /\ t[1].kind = "program" /\ 1 \in DOMAIN t /\ \A j \in DOMAIN t : t[j].kind = "program" => j = 1
  BY DEF IsJavaScript, OfKind
<1>2. 1 \in Around(t, i, Runners)
  BY <1>1, TreeNode DEF Around, OfKind, Runners
<1>3. LET m == InnermostAround(t, i, Runners)
      IN  /\ m \in DOMAIN t /\ t[m].kind \in Runners /\ m < i /\ i <= t[m].last
          /\ \A j \in DOMAIN t : t[j].kind \in Runners /\ j < i /\ i <= t[j].last => j <= m
  BY <1>1, <1>2, InnermostIs
<1> QED BY <1>1, <1>3 DEF RunBy, Runners

\* The function of the graph around a node.
Owners == Told \cup {"program"}
\* There is one too.
LEMMA OwnerIs ==
    ASSUME NEW t, IsJavaScript(t), NEW i \in DOMAIN t, i # 1
    PROVE  LET m == OwnerOf(t, i)
           IN  /\ m \in DOMAIN t /\ t[m].kind \in Owners /\ m < i /\ i <= t[m].last
               /\ (t[m].kind = "program" <=> m = 1)
               /\ \A j \in DOMAIN t : t[j].kind \in Owners /\ j < i /\ i <= t[j].last => j <= m
<1>1. IsTree(t) /\ t[1].kind = "program" /\ 1 \in DOMAIN t /\ \A j \in DOMAIN t : t[j].kind = "program" => j = 1
  BY DEF IsJavaScript, OfKind
<1>2. 1 \in Around(t, i, Owners)
  BY <1>1, TreeNode DEF Around, OfKind, Owners
<1>3. LET m == InnermostAround(t, i, Owners)
      IN  /\ m \in DOMAIN t /\ t[m].kind \in Owners /\ m < i /\ i <= t[m].last
          /\ \A j \in DOMAIN t : t[j].kind \in Owners /\ j < i /\ i <= t[j].last => j <= m
  BY <1>1, <1>2, InnermostIs
<1> QED BY <1>1, <1>3 DEF OwnerOf, Owners

\* A declared function ends with its brace, after every function in it.
LEMMA BraceEnds ==
    ASSUME NEW t, IsJavaScript(t), NEW f \in DOMAIN t, t[f].kind = "function_declaration",
           NEW j \in DOMAIN t, t[j].kind \in JsFunctions, f < j, j <= t[f].last
    PROVE  t[j].last < t[f].last
<1>1. IsTree(t)
  BY DEF IsJavaScript
<1>2. PICK b \in DOMAIN t : t[b].up = f /\ t[b].last = t[f].last /\ t[b].kind = "statement_block"
  <2>1. f \in OfKind(t, JsFunctions)
    BY DEF OfKind, JsFunctions
  <2>2. \E b \in DOMAIN t : /\ Field(t, f, "body") = {b} /\ t[b].last = t[f].last
                            /\ t[f].kind = "function_declaration" => t[b].kind = "statement_block"
    BY <2>1 DEF IsJavaScript
  <2> QED BY <2>2 DEF Field, Children
<1> DEFINE k == t[f].last
<1>3. k \in DOMAIN t /\ t[k].kind = "token" /\ t[k].up = b
  BY <1>1, <1>2, TreeNode DEF IsJavaScript, OfKind
<1>4. t[j].last <= k
  BY <1>1, TreeUnder
<1> SUFFICES ASSUME t[j].last = k PROVE FALSE
  BY <1>1, <1>4, TreeNode
<1>5. j # k
  BY <1>3 DEF JsFunctions
<1>6. j <= b
  <2>1. j < k /\ k <= t[j].last
    BY <1>1, <1>5, TreeNode
  <2> QED BY <1>1, <1>3, <2>1, TreeUnder
<1>7. j # b
  BY <1>2 DEF JsFunctions
<1>8. b <= t[j].last
  BY <1>1, <1>2, TreeNode
<1>9. j <= t[b].up
  <2>1. j < b
    BY <1>1, <1>6, <1>7, TreeNode
  <2> QED BY <1>1, <1>8, <2>1, TreeUnder
<1> QED BY <1>2, <1>9, <1>1, TreeNode

-----------------------------------------------------------------------------
(* The functions of a file.                                                 *)

\* The kinds of the functions of the graph, and what a function of it is.
Analysed == {"function_declaration", "arrow_function", "function_expression"}
ByName(t, g) ==
    /\ g.pos = g.node /\ g.name = t[g.node].name
    /\ t[g.node].kind \in {"function_declaration", "function_expression"}
ByDeclarator(t, g) ==
    /\ g.pos = t[g.node].up /\ g.node = g.pos + 1 /\ t[g.node].kind = "arrow_function"
    /\ t[g.pos].kind = "variable_declarator" /\ t[g.node].role = "value"
    /\ IsName(t[g.pos].binds) /\ g.name = TheName(t[g.pos].binds)
AsHandler(t, g) ==
    /\ g.pos = g.node /\ g.name = Synthetic
    /\ t[g.node].kind \in {"arrow_function", "function_expression"}
Tracked(t, g) ==
    /\ g.node \in DOMAIN t /\ g.pos \in DOMAIN t /\ g.last = t[g.node].last
    /\ g.node \in Nat /\ g.pos \in Nat /\ g.name # ModuleName
    /\ t[g.node].kind \in Analysed

\* The name of a pattern that is a name.
LEMMA NameIsLocal ==
    ASSUME NEW t, IsTree(t), NEW i \in DOMAIN t, IsName(t[i].binds)
    PROVE  TheName(t[i].binds) \in Locals(t[i].binds)
BY DEF IsTree, IsName, TheName, Locals

\* An arrow function with a name is the value of its declarator.
LEMMA BoundArrowIs ==
    ASSUME NEW t, IsJavaScript(t), NEW i \in DOMAIN t, BoundArrow(t, i)
    PROVE  /\ t[i].up \in DOMAIN t /\ i = t[i].up + 1 /\ t[t[i].up].kind = "variable_declarator"
           /\ t[i].role = "value" /\ IsName(t[t[i].up].binds)
<1>1. IsTree(t) /\ (FieldOf(t, i, "variable_declarator", "value") => i = t[i].up + 1)
  BY DEF IsJavaScript
<1> QED BY <1>1, TreeNode DEF BoundArrow, FieldOf

\* A function of a file, by what names it.
LEMMA FunctionIs ==
    ASSUME NEW t, ReadsAsJavaScript(t), NEW g \in FunctionsOf(t)
    PROVE  /\ Tracked(t, g) /\ (ByName(t, g) \/ ByDeclarator(t, g))
           /\ g.parameters = ParametersOf(t, g.node) /\ g.locals = LocalBindings(t, g.node)
<1>1. IsJavaScript(t) /\ IsTree(t) /\ \A i \in DOMAIN t : t[i].name # ModuleName /\ ModuleName \notin Locals(t[i].binds)
  BY DEF ReadsAsJavaScript, IsJavaScript
<1>2. CASE \E i \in DOMAIN t : /\ t[i].kind \in {"function_declaration", "function_expression"}
                               /\ g = Function(t, i, t[i].name, i)
  <2>1. PICK i \in DOMAIN t : /\ t[i].kind \in {"function_declaration", "function_expression"}
                              /\ g = Function(t, i, t[i].name, i)
    BY <1>2
  <2>2. i \in Nat
    BY <1>1, TreeNode
  <2> QED BY <1>1, <2>1, <2>2 DEF Function, Tracked, Analysed, ByName
<1>3. CASE \E i \in DOMAIN t : /\ t[i].kind = "arrow_function" /\ BoundArrow(t, i)
                               /\ g = Function(t, i, TheName(t[t[i].up].binds), t[i].up)
  <2>1. PICK i \in DOMAIN t : /\ t[i].kind = "arrow_function" /\ BoundArrow(t, i)
                              /\ g = Function(t, i, TheName(t[t[i].up].binds), t[i].up)
    BY <1>3
  <2>2. /\ t[i].up \in DOMAIN t /\ i = t[i].up + 1 /\ t[t[i].up].kind = "variable_declarator"
        /\ t[i].role = "value" /\ IsName(t[t[i].up].binds)
    BY <1>1, <2>1, BoundArrowIs
  <2>3. TheName(t[t[i].up].binds) # ModuleName /\ i \in Nat /\ t[i].up \in Nat
    BY <1>1, <2>2, NameIsLocal, TreeNode
  <2>4. /\ g.node = i /\ g.pos = t[i].up /\ g.last = t[i].last /\ g.name = TheName(t[t[i].up].binds)
        /\ g.parameters = ParametersOf(t, i) /\ g.locals = LocalBindings(t, i)
    BY <2>1 DEF Function
  <2> QED BY <2>1, <2>2, <2>3, <2>4 DEF Tracked, Analysed, ByDeclarator
<1> QED BY <1>2, <1>3 DEF FunctionsOf, OfKind

\* The inline handler of a route.
LEMMA HandlerIs ==
    ASSUME NEW t, ReadsAsJavaScript(t), NEW x \in RoutesOf(t), x.name = Synthetic,
           Synthetic # ModuleName
    PROVE  Tracked(t, Anonymous(x)) /\ AsHandler(t, Anonymous(x))
<1>1. IsTree(t) /\ \A i \in DOMAIN t : t[i].kind = "identifier" => t[i].name # NoName /\ t[i].name # Synthetic
  BY DEF ReadsAsJavaScript, IsJavaScript, OfKind
<1>2. PICK h \in DOMAIN t :
         /\ t[h].kind \in {"identifier", "arrow_function", "function_expression"}
         /\ x = [name |-> IF t[h].kind = "arrow_function" \/ t[h].name = NoName
                          THEN Synthetic ELSE t[h].name,
                 pos |-> h, last |-> t[h].last]
  <2> DEFINE handlers(i) == UNION {{h \in Children(t, a) :
                               t[h].kind \in {"identifier", "arrow_function", "function_expression"}} :
                           a \in Field(t, i, "arguments")}
             handler(h) == [name |-> IF t[h].kind = "arrow_function" \/ t[h].name = NoName
                                     THEN Synthetic ELSE t[h].name,
                            pos |-> h, last |-> t[h].last]
  <2>1. PICK i : x = handler(CHOOSE h \in handlers(i) : TRUE) /\ Cardinality(handlers(i)) = 1
    BY DEF RoutesOf
  <2>2. handlers(i) # {}
    <3> HIDE DEF handlers
    <3>1. Cardinality({}) = 0
      BY FS_EmptySet
    <3> QED BY <2>1, <3>1
  <2>3. PICK h \in handlers(i) : x = handler(h)
    BY <2>1, <2>2
  <2>4. h \in DOMAIN t /\ t[h].kind \in {"identifier", "arrow_function", "function_expression"}
    BY <2>3 DEF Children
  <2> QED BY <2>3, <2>4
<1>3. t[h].kind # "identifier"
  BY <1>1, <1>2
<1>4. h \in Nat
  BY <1>1, TreeNode
<1> QED BY <1>2, <1>3, <1>4 DEF Anonymous, Tracked, AsHandler, Analysed

\* An anonymous function starts at its node.
LEMMA AnonymousIs ==
    ASSUME NEW t, IsTree(t), NEW a \in AnonymousOf(t)
    PROVE  /\ a.node \in DOMAIN t /\ a.pos = a.node /\ a.last = t[a.node].last /\ a.node \in Nat
           /\ t[a.node].kind \in {"arrow_function", "function_expression"}
           /\ a.parameters = ParametersOf(t, a.node) /\ a.locals = LocalBindings(t, a.node)
BY TreeNode DEF AnonymousOf, OfKind, Function

-----------------------------------------------------------------------------
(* The owner of a call.                                                     *)

\* What was read from a file without a syntax error.
ReadFrom(t, r) ==
    /\ r.imports = ImportsOf(t) /\ r.calls = CallsOf(t) /\ r.functions = FunctionsOf(t)
    /\ r.anonymous = AnonymousOf(t) /\ r.routes = RoutesOf(t) /\ r.lexical = LexicalBindings(t)
\* A function of the graph, by what names it.
Positioned(t, g) == ByName(t, g) \/ ByDeclarator(t, g) \/ AsHandler(t, g)

\* What a function of the graph is in the syntax.
LEMMA GraphFunctionIs ==
    ASSUME NEW t, ReadsAsJavaScript(t), NEW r, ReadFrom(t, r), NEW g \in GraphFunctions(r)
    PROVE  Tracked(t, g) /\ Positioned(t, g)
<1>1. CASE g \in r.functions
  BY <1>1, FunctionIs DEF ReadFrom, Positioned
<1>2. CASE \E x \in r.routes : x.name = Synthetic /\ g = Anonymous(x)
  <2>1. Synthetic # ModuleName
    BY SourceAssumption
  <2> QED BY <1>2, <2>1, HandlerIs DEF ReadFrom, Positioned
<1> QED BY <1>1, <1>2 DEF GraphFunctions

\* The innermost of some functions starts last.
LEMMA InnermostOf ==
    ASSUME NEW t, IsTree(t), NEW S, S # {}, \A g \in S : g.pos \in DOMAIN t
    PROVE  Innermost(S) \in S /\ \A g \in S : g.pos <= Innermost(S).pos
<1> DEFINE P == {g.pos : g \in S}
<1>1. t[1].last \in Nat /\ DOMAIN t = 1 .. t[1].last
  BY DEF IsTree
<1>2. P \in SUBSET (1 .. t[1].last) /\ P # {}
  BY <1>1
<1>3. Greatest(P) \in P /\ \A y \in P : y <= Greatest(P)
  <2> HIDE DEF P
  <2> QED BY <1>1, <1>2, GreatestOf
<1>4. PICK g \in S : g.pos = Greatest(P)
  BY <1>3
<1>5. \A h \in S : h.pos <= g.pos
  BY <1>3, <1>4
<1> QED BY <1>5 DEF Innermost

\* A call in the range of a function is in its node.
LEMMA HoldsCall ==
    ASSUME NEW t, IsTree(t), NEW g, Tracked(t, g), Positioned(t, g),
           NEW pos \in DOMAIN t, t[pos].kind \in Calls, Holds(g, pos)
    PROVE  g.node < pos /\ pos <= t[g.node].last /\ g.pos <= g.node
<1>1. t[pos].kind # "variable_declarator" /\ t[pos].kind \notin Analysed
  BY DEF Calls, Analysed
<1>2. pos \in Nat
  BY TreeNode
<1>3. pos # g.node
  BY <1>1 DEF Tracked
<1> QED BY <1>1, <1>2, <1>3 DEF Holds, Tracked, Positioned, ByName, ByDeclarator, AsHandler

\* The function that owns a call is the innermost one around it.
OwnedBy(t, r, pos, o) ==
    \/ o.name = ModuleName /\ OwnerOf(t, pos) = 1
    \/ \E g \in GraphFunctions(r) : g.name = o.name /\ g.pos = o.pos /\ g.node = OwnerOf(t, pos)

\* graphCallOwner finds the function around a call, as the syntax has it.
LEMMA OwnerRuns ==
    ASSUME NEW t, ReadsAsJavaScript(t), NEW r, ReadFrom(t, r),
           NEW pos \in DOMAIN t, t[pos].kind \in Calls, NEW o \in CallOwner(r, pos)
    PROVE  OwnedBy(t, r, pos, o)
<1> DEFINE around == {f \in GraphFunctions(r) : Holds(f, pos)}
           spans == {a \in r.anonymous : Holds(a, pos)}
           owner == Innermost(around)
           m == OwnerOf(t, pos)
<1>1. IsJavaScript(t) /\ IsTree(t) /\ pos \in Nat /\ pos # 1
  BY TreeNode DEF ReadsAsJavaScript, IsJavaScript, OfKind, Calls
<1>2. /\ m \in DOMAIN t /\ m \in Nat /\ t[m].kind \in Owners /\ m < pos /\ pos <= t[m].last
      /\ (t[m].kind = "program" <=> m = 1)
      /\ \A j \in DOMAIN t : t[j].kind \in Owners /\ j < pos /\ pos <= t[j].last => j <= m
  BY <1>1, OwnerIs, TreeNode
<1>3. \A g \in around : /\ Tracked(t, g) /\ Positioned(t, g) /\ g.pos <= g.node /\ g.node <= m
                        /\ g.node < pos /\ pos <= t[g.node].last
  BY <1>1, <1>2, GraphFunctionIs, HoldsCall DEF Tracked, Analysed, Owners, Told, Untold, JsFunctions
<1>4. ASSUME t[m].kind = "function_declaration"
      PROVE  \E g \in around : g.pos = m /\ g.node = m
  <2> DEFINE g == Function(t, m, t[m].name, m)
  <2>1. g \in FunctionsOf(t) /\ g.pos = m /\ g.node = m /\ g.last = t[m].last
    BY <1>2, <1>4 DEF FunctionsOf, OfKind, Function
  <2>2. m <= pos
    BY <1>1, <1>2
  <2> HIDE DEF g
  <2>3. g \in GraphFunctions(r) /\ Holds(g, pos)
    BY <1>2, <2>1, <2>2 DEF GraphFunctions, ReadFrom, Holds
  <2> QED BY <2>1, <2>3
<1>5. ASSUME NEW k \in DOMAIN t, t[k].kind \in {"arrow_function", "function_expression"},
             k < pos, pos <= t[k].last
      PROVE  \E a \in spans : a.pos = k /\ a.last = t[k].last
  <2> DEFINE a == Function(t, k, NoName, k)
  <2>1. a \in AnonymousOf(t) /\ a.pos = k /\ a.last = t[k].last
    BY <1>5 DEF AnonymousOf, OfKind, Function
  <2>2. k \in Nat
    BY <1>1, TreeNode
  <2> QED BY <1>5, <1>1, <2>1, <2>2 DEF ReadFrom, Holds
<1>6. t[m].kind \in {"program", "function_declaration", "arrow_function", "function_expression"}
  BY <1>2 DEF Owners, Told, JsFunctions, Untold
<1>7. CASE around = {}
  <2>1. spans = {} /\ o = [name |-> ModuleName, pos |-> 1]
    BY <1>7 DEF CallOwner
  <2> QED BY <1>2, <1>4, <1>5, <1>6, <1>7, <2>1 DEF OwnedBy
<1>8. CASE around # {}
  <2>1. /\ o = [name |-> owner.name, pos |-> owner.pos]
        /\ \A a \in spans : ~(a.last < owner.last)
        /\ \A a, b \in spans : ~(a.pos # b.pos /\ a.last = owner.last /\ b.last = owner.last)
    BY <1>8 DEF CallOwner
  <2>2. owner \in around /\ \A g \in around : g.pos <= owner.pos
    <3>1. \A g \in around : g.pos \in DOMAIN t
      BY <1>3 DEF Tracked
    <3> HIDE DEF around
    <3> QED BY <1>1, <1>8, <3>1, InnermostOf
  <2> DEFINE n == owner.node
  <2>3. /\ n \in DOMAIN t /\ n \in Nat /\ owner.pos \in Nat /\ owner.pos <= n /\ n <= m
        /\ n < pos /\ pos <= t[n].last /\ owner.last = t[n].last /\ t[n].kind \in Analysed
    BY <1>3, <2>2 DEF Tracked
  <2> HIDE DEF owner, around, spans
  <2>4. CASE n = m
    BY <2>1, <2>2, <2>4 DEF OwnedBy, around
  <2>5. CASE n # m
    <3>1. n < m /\ m <= t[n].last /\ t[m].last <= t[n].last /\ t[m].last \in Nat /\ t[n].last \in Nat
      <4>0. t[n].last \in Nat
        BY <1>1, <2>3, TreeNode
      <4>1. n < m /\ m <= t[n].last
        BY <1>1, <1>2, <2>3, <2>5, <4>0
      <4> QED BY <1>1, <1>2, <2>3, <4>1, TreeUnder, TreeNode
    <3>2. t[m].kind # "function_declaration"
      BY <1>2, <1>4, <2>2, <2>3, <3>1
    <3>3. t[m].kind # "program"
      BY <1>1, <1>2, <2>3, <3>1, TreeNode
    <3>4. ASSUME t[m].kind \in {"arrow_function", "function_expression"} PROVE FALSE
      <4>1. PICK a \in spans : a.pos = m /\ a.last = t[m].last
        BY <1>2, <1>5, <3>4
      <4>2. t[m].last = t[n].last
        BY <2>1, <2>3, <3>1, <4>1
      <4>3. t[n].kind # "function_declaration"
        BY <1>1, <1>2, <2>3, <3>1, <3>4, <4>2, BraceEnds DEF JsFunctions
      <4>4. PICK b \in spans : b.pos = n /\ b.last = t[n].last
        BY <1>5, <2>3, <4>3 DEF Analysed
      <4> QED BY <2>1, <2>3, <2>5, <4>1, <4>2, <4>4
    <3> QED BY <1>6, <3>2, <3>3, <3>4 DEF OwnedBy
  <2> QED BY <2>4, <2>5
<1> QED BY <1>7, <1>8

\* The position of a function of the graph tells its node.
LEMMA OneNode ==
    ASSUME NEW t, ReadsAsJavaScript(t), NEW r, ReadFrom(t, r),
           NEW g \in GraphFunctions(r), NEW h \in GraphFunctions(r), g.pos = h.pos
    PROVE  g.node = h.node
<1>1. Tracked(t, g) /\ Positioned(t, g) /\ Tracked(t, h) /\ Positioned(t, h)
  BY GraphFunctionIs
<1> QED BY <1>1 DEF Tracked, Positioned, ByName, ByDeclarator, AsHandler, Analysed

\* So a call runs in the function that owns it.
LEMMA OwnersRun ==
    ASSUME NEW file, ReadsAsJavaScript(TreeOf(file)), ReadFrom(TreeOf(file), results[file]),
           NEW pos \in DOMAIN TreeOf(file), TreeOf(file)[pos].kind \in Calls,
           NEW o \in CallOwner(results[file], pos)
    PROVE  RunsIn(FunctionId(file, o), pos)
<1> DEFINE t == TreeOf(file)
           r == results[file]
           f == FunctionId(file, o)
<1>1. OwnedBy(t, r, pos, o)
  BY OwnerRuns
<1>2. f.file = file /\ f.name = o.name /\ f.pos = o.pos
  BY DEF FunctionId
<1>3. CASE o.name = ModuleName /\ OwnerOf(t, pos) = 1
  BY <1>2, <1>3 DEF RunsIn, NodeOf
<1>4. CASE \E g \in GraphFunctions(r) : g.name = o.name /\ g.pos = o.pos /\ g.node = OwnerOf(t, pos)
  <2>1. PICK g \in GraphFunctions(r) : g.name = o.name /\ g.pos = o.pos /\ g.node = OwnerOf(t, pos)
    BY <1>4
  <2>2. o.name # ModuleName
    BY <2>1, GraphFunctionIs DEF Tracked
  <2> DEFINE h == CHOOSE h \in GraphFunctions(r) : h.name = f.name /\ h.pos = f.pos
  <2>3. h \in GraphFunctions(r) /\ h.pos = g.pos
    BY <1>2, <2>1
  <2>4. NodeOf(f) = h.node
    BY <1>2, <2>2 DEF NodeOf
  <2> HIDE DEF h
  <2>5. h.node = g.node
    BY <2>1, <2>3, OneNode
  <2> QED BY <1>2, <2>1, <2>4, <2>5 DEF RunsIn
<1> QED BY <1>1, <1>3, <1>4 DEF OwnedBy

-----------------------------------------------------------------------------
\* The innermost scope around a declaration.
LEMMA ScopeIs ==
    ASSUME NEW t, IsJavaScript(t), NEW i \in DOMAIN t, i # 1
    PROVE  LET m == InnermostAround(t, i, JsScopes)
           IN  /\ m \in DOMAIN t /\ t[m].kind \in JsScopes /\ m < i /\ i <= t[m].last
               /\ \A j \in DOMAIN t : t[j].kind \in JsScopes /\ j < i /\ i <= t[j].last => j <= m
<1>1. IsTree(t) /\ t[1].kind = "program" /\ 1 \in DOMAIN t
  BY DEF IsJavaScript, OfKind
<1>2. 1 \in Around(t, i, JsScopes)
  BY <1>1, TreeNode DEF Around, OfKind, JsScopes
<1> QED BY <1>1, <1>2, InnermostIs

\* The body of a function.
LEMMA BodyIs ==
    ASSUME NEW t, IsJavaScript(t), NEW f \in DOMAIN t, t[f].kind \in JsFunctions
    PROVE  \E b \in DOMAIN t : /\ Field(t, f, "body") = {b} /\ t[b].up = f /\ t[b].role = "body"
                               /\ t[b].last = t[f].last /\ f < b
                               /\ t[f].kind = "function_declaration" => t[b].kind = "statement_block"
<1>1. PICK b \in DOMAIN t : /\ Field(t, f, "body") = {b} /\ t[b].last = t[f].last
                            /\ t[f].kind = "function_declaration" => t[b].kind = "statement_block"
  BY DEF IsJavaScript, OfKind
<1>2. t[b].up = f /\ t[b].role = "body"
  BY <1>1 DEF Field, Children
<1>3. f < b
  BY <1>2, TreeNode DEF IsJavaScript
<1> QED BY <1>1, <1>2, <1>3

\* A var of a function belongs to its body, around the declaration.
LEMMA VarHomeIs ==
    ASSUME NEW t, IsJavaScript(t), NEW d \in DOMAIN t, t[d].kind \in Statements
    PROVE  LET m == RunBy(t, d)
           IN  \/ m = 1 /\ VarHome(t, d) = 1
               \/ \E b \in DOMAIN t :
                     /\ t[m].kind \in JsFunctions /\ Field(t, m, "body") = {b} /\ VarHome(t, d) = b
                     /\ t[b].up = m /\ t[b].role = "body" /\ t[b].last = t[m].last /\ m < b
                     /\ Spans(t, b, d)
<1> DEFINE m == RunBy(t, d)
<1>1. m = InnermostAround(t, d, JsFunctions \cup {"program"})
  BY DEF RunBy
<1>2. d # 1
  BY DEF IsJavaScript, OfKind, Statements
<1>3. /\ m \in DOMAIN t /\ t[m].kind \in Runners /\ m < d /\ d <= t[m].last
      /\ (t[m].kind = "program" <=> m = 1)
  BY <1>2, RunByIs
<1>4. m = 1 \/ \E b \in Field(t, m, "body") : Spans(t, b, d)
  BY DEF IsJavaScript, OfKind
<1>5. VarHome(t, d) = IF Field(t, m, "body") = {} THEN m ELSE CHOOSE b \in Field(t, m, "body") : TRUE
  BY <1>1 DEF VarHome
<1> HIDE DEF m
<1>6. CASE m = 1
  BY <1>5, <1>6 DEF IsJavaScript, m
<1>7. CASE m # 1
  <2>1. t[m].kind \in JsFunctions
    BY <1>3, <1>7 DEF Runners
  <2>2. PICK b \in DOMAIN t : /\ Field(t, m, "body") = {b} /\ t[b].up = m /\ t[b].role = "body"
                              /\ t[b].last = t[m].last /\ m < b
    BY <1>3, <2>1, BodyIs
  <2>3. VarHome(t, d) = b /\ Spans(t, b, d)
    BY <1>4, <1>5, <1>7, <2>2
  <2> QED BY <2>1, <2>2, <2>3 DEF m
<1> QED BY <1>6, <1>7

\* Where a node declares its names.
HomeOf(t, d) ==
    \/ /\ t[d].kind = "parameter" /\ Home(t, d) = t[d].up
       /\ t[d].up \in DOMAIN t /\ t[t[d].up].kind \in JsFunctions /\ t[d].role = "parameter"
    \/ t[d].kind = "function_expression" /\ Home(t, d) = d
    \/ t[d].kind \in {"catch_clause", "for_in_statement"} /\ Home(t, d) = d
    \/ /\ t[d].kind \in {"variable_declarator", "for_in_statement"} /\ t[d].mode = "var"
       /\ Home(t, d) = VarHome(t, d)
    \/ /\ t[d].kind \in {"variable_declarator", "function_declaration",
                         "generator_function_declaration", "class_declaration"}
       /\ t[d].mode # "var" /\ Home(t, d) = InnermostAround(t, d, JsScopes)
    \/ t[d].kind \in {"import_statement", "import_require_clause"} /\ Home(t, d) = 1

\* The nodes that declare names.
Declaring == {"parameter", "function_expression", "catch_clause", "for_in_statement",
              "variable_declarator", "function_declaration", "generator_function_declaration",
              "class_declaration", "import_statement", "import_require_clause"}

\* Every declaring node has one of these scopes.
LEMMA HomeCases ==
    ASSUME NEW t, IsJavaScript(t), NEW d \in DOMAIN t, t[d].kind \in Declaring
    PROVE  HomeOf(t, d)
<1>1. t[d].mode = "var" => t[d].kind \in {"variable_declarator", "for_in_statement"}
  BY DEF IsJavaScript
<1>2. CASE t[d].kind = "parameter"
  <2>1. t[d].role = "parameter" /\ t[d].up # 0 /\ t[t[d].up].kind \in JsFunctions
    BY <1>2 DEF IsJavaScript, OfKind
  <2>2. t[d].up \in DOMAIN t
    BY <2>1, TreeNode DEF IsJavaScript
  <2>3. Home(t, d) = t[d].up
    BY <1>1, <1>2 DEF Home
  <2> QED BY <1>2, <2>1, <2>2, <2>3 DEF HomeOf
<1>3. CASE t[d].kind \in {"function_expression", "catch_clause"}
  <2>1. Home(t, d) = d
    BY <1>1, <1>3 DEF Home
  <2> QED BY <1>3, <2>1 DEF HomeOf
<1>4. CASE t[d].kind = "for_in_statement"
  <2>1. Home(t, d) = IF t[d].mode = "var" THEN VarHome(t, d) ELSE d
    BY <1>4 DEF Home
  <2> QED BY <1>4, <2>1 DEF HomeOf
<1>5. CASE t[d].kind = "variable_declarator"
  <2>1. Home(t, d) = IF t[d].mode = "var" THEN VarHome(t, d) ELSE InnermostAround(t, d, JsScopes)
    BY <1>5 DEF Home
  <2> QED BY <1>5, <2>1 DEF HomeOf
<1>6. CASE t[d].kind \in {"function_declaration", "generator_function_declaration", "class_declaration"}
  <2>1. Home(t, d) = InnermostAround(t, d, JsScopes)
    BY <1>1, <1>6 DEF Home
  <2> QED BY <1>1, <1>6, <2>1 DEF HomeOf
<1>7. CASE t[d].kind \in {"import_statement", "import_require_clause"}
  <2>1. Home(t, d) = InnermostAround(t, d, JsScopes)
    BY <1>1, <1>7 DEF Home
  <2> QED BY <1>7, <2>1 DEF HomeOf, IsJavaScript, OfKind
<1> QED BY <1>2, <1>3, <1>4, <1>5, <1>6, <1>7 DEF Declaring

\* A scope is a node of the tree.
LEMMA HomeIn ==
    ASSUME NEW t, IsJavaScript(t), NEW d \in DOMAIN t, t[d].kind \in Declaring
    PROVE  Home(t, d) \in DOMAIN t
<1>1. HomeOf(t, d) /\ d # 1 /\ 1 \in DOMAIN t
  BY HomeCases DEF IsJavaScript, OfKind, Declaring
<1>2. InnermostAround(t, d, JsScopes) \in DOMAIN t
  BY <1>1, ScopeIs
<1>3. t[d].kind \in Statements => VarHome(t, d) \in DOMAIN t
  BY <1>1, VarHomeIs
<1> QED BY <1>1, <1>2, <1>3 DEF HomeOf, Statements

\* Only these nodes declare a name.
LEMMA DeclaringKinds ==
    ASSUME NEW t, NEW d \in DOMAIN t, NEW x \in DeclaredNames(t, d)
    PROVE  t[d].kind \in Declaring
BY DEF DeclaredNames, Declaring

\* The scope a name has at a place.
Homes(t, x) == {Home(t, i) : i \in {d \in DOMAIN t : x \in DeclaredNames(t, d)}}

\* The variable of a name is the innermost of its scopes.
LEMMA VariableIs ==
    ASSUME NEW t, IsJavaScript(t), NEW x, NEW pos \in DOMAIN t
    PROVE  LET v == VariableAt(t, x, pos)
           IN  /\ \/ v = 0 /\ \A s \in Homes(t, x) : ~Spans(t, s, pos)
                  \/ /\ v \in Homes(t, x) /\ v \in DOMAIN t /\ v \in Nat /\ v >= 1 /\ Spans(t, v, pos)
                     /\ \A s \in Homes(t, x) : Spans(t, s, pos) => s <= v
               /\ \A s \in Homes(t, x) : s \in DOMAIN t
<1> DEFINE seen == {s \in Homes(t, x) : Spans(t, s, pos)}
<1>1. VariableAt(t, x, pos) = IF seen = {} THEN 0 ELSE Greatest(seen)
  BY DEF VariableAt, Homes
<1>2. \A s \in Homes(t, x) : s \in DOMAIN t
  BY HomeIn, DeclaringKinds DEF Homes
<1>3. t[1].last \in Nat /\ DOMAIN t = 1 .. t[1].last
  BY DEF IsJavaScript, IsTree
<1>4. seen \in SUBSET (1 .. t[1].last)
  BY <1>2, <1>3
<1>5. ASSUME seen # {} PROVE Greatest(seen) \in seen /\ \A y \in seen : y <= Greatest(seen)
  <2> HIDE DEF seen
  <2> QED BY <1>3, <1>4, <1>5, GreatestOf
<1> QED BY <1>1, <1>2, <1>3, <1>4, <1>5

\* The function around a scope is the one that runs what declares a name in it.
LEMMA SameRunner ==
    ASSUME NEW t, IsJavaScript(t), NEW d \in DOMAIN t, NEW s \in DOMAIN t, s # 1, s < d, d <= t[s].last,
           \A j \in DOMAIN t : t[j].kind \in Runners /\ j < d /\ d <= t[j].last => j < s
    PROVE  RunBy(t, s) = RunBy(t, d)
<1>1. IsTree(t) /\ d # 1 /\ s \in Nat /\ d \in Nat /\ t[s].last \in Nat
  BY TreeNode DEF IsJavaScript
<1> DEFINE m == RunBy(t, d)
           n == RunBy(t, s)
<1>2. /\ m \in DOMAIN t /\ t[m].kind \in Runners /\ m < d /\ d <= t[m].last
      /\ \A j \in DOMAIN t : t[j].kind \in Runners /\ j < d /\ d <= t[j].last => j <= m
  BY <1>1, RunByIs
<1>3. /\ n \in DOMAIN t /\ t[n].kind \in Runners /\ n < s /\ s <= t[n].last
      /\ \A j \in DOMAIN t : t[j].kind \in Runners /\ j < s /\ s <= t[j].last => j <= n
  BY <1>1, RunByIs
<1> HIDE DEF m, n
<1>4. m \in Nat /\ n \in Nat /\ t[m].last \in Nat /\ t[n].last \in Nat
  BY <1>1, <1>2, <1>3, TreeNode
<1>5. m < s /\ s <= t[m].last
  BY <1>1, <1>2, <1>4
<1>6. m <= n
  BY <1>2, <1>3, <1>5
<1>7. t[s].last <= t[n].last
  BY <1>1, <1>3, TreeUnder
<1>8. n < d /\ d <= t[n].last
  BY <1>1, <1>3, <1>4, <1>7
<1>9. n <= m
  BY <1>2, <1>3, <1>8
<1> QED BY <1>4, <1>6, <1>9 DEF m, n

\* The holder of the scope of a statement is the function that runs it.
LEMMA HolderIs ==
    ASSUME NEW t, IsJavaScript(t), NEW d \in DOMAIN t, t[d].kind \in Statements \ {"statement_block"},
           Home(t, d) # 1
    PROVE  HolderOf(t, Home(t, d)) = RunBy(t, d)
<1> DEFINE s == Home(t, d)
           m == RunBy(t, d)
<1>2. IsTree(t) /\ d # 1 /\ HomeOf(t, d) /\ s \in DOMAIN t
  BY HomeCases, HomeIn DEF Statements, Declaring, IsJavaScript, OfKind
<1>3. /\ m \in DOMAIN t /\ t[m].kind \in Runners /\ m < d /\ d <= t[m].last
      /\ (t[m].kind = "program" <=> m = 1)
      /\ \A j \in DOMAIN t : t[j].kind \in Runners /\ j < d /\ d <= t[j].last => j <= m
  BY <1>2, RunByIs
<1>4. CASE t[d].kind \in {"catch_clause", "for_in_statement"} /\ s = d
  BY <1>4 DEF HolderOf, JsFunctions
<1>5. CASE t[d].kind \in {"variable_declarator", "for_in_statement"} /\ s = VarHome(t, d)
  <2>1. PICK b \in DOMAIN t :
                     /\ t[m].kind \in JsFunctions /\ s = b
                     /\ t[b].up = m /\ t[b].role = "body" /\ t[b].last = t[m].last /\ m < b
                     /\ Spans(t, b, d)
    BY <1>5, VarHomeIs DEF Statements
  <2>2. b \in Nat /\ d \in Nat /\ m \in Nat /\ b <= d /\ d <= t[b].last
    BY <1>2, <1>3, <2>1, TreeNode DEF Spans
  <2>3. CASE b = d
    BY <1>5, <2>1, <2>3 DEF HolderOf, JsFunctions
  <2>4. CASE b # d
    <3>1. t[b].kind \notin Runners
      BY <1>3, <2>1, <2>2, <2>4
    <3>2. \A j \in DOMAIN t : t[j].kind \in Runners /\ j < d /\ d <= t[j].last => j < b
      BY <1>2, <1>3, <2>1, <2>2, TreeNode
    <3>3. RunBy(t, b) = m
      BY <2>1, <2>2, <2>4, <3>2, SameRunner
    <3> QED BY <2>1, <3>1, <3>3 DEF HolderOf, Runners
  <2> QED BY <2>3, <2>4
<1>6. CASE s = InnermostAround(t, d, JsScopes)
  <2>1. /\ t[s].kind \in JsScopes /\ s < d /\ d <= t[s].last
        /\ \A j \in DOMAIN t : t[j].kind \in JsScopes /\ j < d /\ d <= t[j].last => j <= s
    BY <1>2, <1>6, ScopeIs
  <2>2. CASE t[s].kind \in JsFunctions
    <3>1. s <= m
      BY <1>2, <1>3, <2>1, <2>2 DEF Runners
    <3>2. m <= s
      BY <1>2, <1>3, <2>1 DEF Runners, JsScopes
    <3>3. s \in Nat /\ m \in Nat
      BY <1>2, <1>3, TreeNode
    <3> HIDE DEF s, m
    <3>4. s = m
      BY <3>1, <3>2, <3>3
    <3> QED BY <2>2, <3>4 DEF HolderOf, s, m
  <2>3. CASE t[s].kind \notin JsFunctions
    <3>0. t[s].kind # "program"
      BY <1>2 DEF IsJavaScript, OfKind
    <3>1. \A j \in DOMAIN t : t[j].kind \in Runners /\ j < d /\ d <= t[j].last => j < s
      <4> SUFFICES ASSUME NEW j \in DOMAIN t, t[j].kind \in Runners, j < d, d <= t[j].last PROVE j < s
        OBVIOUS
      <4>1. j <= s /\ j # s
        BY <2>1, <2>3, <3>0 DEF Runners, JsScopes
      <4>2. j \in Nat /\ s \in Nat
        BY <1>2, TreeNode
      <4> QED BY <4>1, <4>2
    <3>2. RunBy(t, s) = m
      <4> HIDE DEF s
      <4>0. s # 1
        BY DEF s
      <4> QED BY <1>2, <2>1, <3>1, <4>0, SameRunner
    <3> QED BY <2>3, <3>2 DEF HolderOf
  <2> QED BY <2>2, <2>3
<1> QED BY <1>2, <1>4, <1>5, <1>6 DEF HomeOf, Statements

-----------------------------------------------------------------------------
(* The functions around a place.                                            *)

\* The functions and anonymous functions of a file: nodes with the range from
\* their names to their ends.
Ranged(t, g) ==
    /\ g.node \in DOMAIN t /\ g.pos \in DOMAIN t /\ g.node \in Nat /\ g.pos \in Nat
    /\ g.last = t[g.node].last /\ g.last \in Nat /\ t[g.node].kind \in Analysed
    /\ g.pos = g.node \/ (g.node = g.pos + 1 /\ t[g.pos].kind = "variable_declarator")

\* Every function of a file has a range.
LEMMA RangedIs ==
    ASSUME NEW t, ReadsAsJavaScript(t), NEW r, ReadFrom(t, r), NEW g \in GraphFunctions(r) \cup r.anonymous
    PROVE  Ranged(t, g)
<1>1. IsTree(t)
  BY DEF ReadsAsJavaScript, IsJavaScript
<1>2. CASE g \in GraphFunctions(r)
  <2>1. Tracked(t, g) /\ Positioned(t, g)
    BY <1>2, GraphFunctionIs
  <2>2. t[g.node].last \in Nat
    BY <1>1, <2>1, TreeNode DEF Tracked
  <2> QED BY <2>1, <2>2 DEF Tracked, Positioned, ByName, ByDeclarator, AsHandler, Ranged
<1>3. CASE g \in r.anonymous
  <2>1. /\ g.node \in DOMAIN t /\ g.pos = g.node /\ g.last = t[g.node].last /\ g.node \in Nat
        /\ t[g.node].kind \in {"arrow_function", "function_expression"}
    BY <1>1, <1>3, AnonymousIs DEF ReadFrom
  <2>2. t[g.node].last \in Nat
    BY <1>1, <2>1, TreeNode
  <2> QED BY <2>1, <2>2 DEF Ranged, Analysed
<1> QED BY <1>2, <1>3

\* Every function but a method or a generator has a range of its own node, with
\* the names of its scope.
LEMMA RangeOf ==
    ASSUME NEW t, NEW r, ReadFrom(t, r), NEW f \in DOMAIN t, t[f].kind \in Analysed
    PROVE  \E g \in r.functions \cup r.anonymous :
              /\ g.node = f /\ g.pos = f /\ g.last = t[f].last
              /\ g.parameters = ParametersOf(t, f) /\ g.locals = LocalBindings(t, f)
<1>1. CASE t[f].kind = "function_declaration"
  <2>1. Function(t, f, t[f].name, f) \in r.functions
    BY <1>1 DEF ReadFrom, FunctionsOf, OfKind
  <2> QED BY <2>1 DEF Function
<1>2. CASE t[f].kind \in {"arrow_function", "function_expression"}
  <2>1. Function(t, f, NoName, f) \in r.anonymous
    BY <1>2 DEF ReadFrom, AnonymousOf, OfKind
  <2> QED BY <2>1 DEF Function
<1> QED BY <1>1, <1>2 DEF Analysed

\* What is around the place of a function and what sees it.
AroundPlace(r, f) == {g \in GraphFunctions(r) \cup r.anonymous :
                         Holds(g, f.pos) /\ ~(g.node = f.node /\ g.last = f.last)}

\* A function is visible in the innermost function around its name.
LEMMA Seen ==
    ASSUME NEW t, ReadsAsJavaScript(t), NEW r, ReadFrom(t, r), NEW f, NEW pos
    PROVE  LET I == Innermost(AroundPlace(r, f))
           IN  \/ AroundPlace(r, f) = {} /\ VisibleAt(r, f, pos)
               \/ /\ I \in AroundPlace(r, f) /\ Ranged(t, I) /\ (VisibleAt(r, f, pos) <=> Holds(I, pos))
                  /\ \A g \in AroundPlace(r, f) : g.pos <= I.pos
<1>1. IsTree(t)
  BY DEF ReadsAsJavaScript, IsJavaScript
<1>2. VisibleAt(r, f, pos) <=> (AroundPlace(r, f) = {} \/ Holds(Innermost(AroundPlace(r, f)), pos))
  BY DEF VisibleAt, AroundPlace
<1>3. \A g \in AroundPlace(r, f) : Ranged(t, g)
  BY RangedIs DEF AroundPlace
<1>4. \A g \in AroundPlace(r, f) : g.pos \in DOMAIN t
  BY <1>3 DEF Ranged
<1>5. ASSUME AroundPlace(r, f) # {}
      PROVE  /\ Innermost(AroundPlace(r, f)) \in AroundPlace(r, f)
             /\ \A g \in AroundPlace(r, f) : g.pos <= Innermost(AroundPlace(r, f)).pos
  BY <1>1, <1>4, <1>5, InnermostOf
<1> QED BY <1>2, <1>3, <1>5

\* What is around the place of a function of the file is a function around its
\* declaration.
LEMMA AroundIs ==
    ASSUME NEW t, ReadsAsJavaScript(t), NEW f, Ranged(t, f), NEW g, Ranged(t, g),
           Holds(g, f.pos), ~(g.node = f.node /\ g.last = f.last)
    PROVE  g.node < f.pos /\ f.pos <= t[g.node].last
<1>1. g.node # f.node
  BY DEF Ranged
<1>2. CASE g.pos = g.node
  <2>1. g.pos # f.pos
    BY <1>1, <1>2 DEF Ranged, Analysed
  <2> QED BY <1>2, <2>1 DEF Ranged, Holds
<1>3. CASE g.node = g.pos + 1 /\ t[g.pos].kind = "variable_declarator"
  <2>1. g.pos # f.pos
    BY <1>1, <1>3 DEF Ranged, Analysed
  <2>2. g.node # f.pos
    <3> SUFFICES ASSUME g.node = f.pos PROVE FALSE
      OBVIOUS
    <3>1. t[f.pos].kind # "variable_declarator"
      BY DEF Ranged, Analysed
    <3> QED BY <1>1, <3>1 DEF Ranged
  <2> QED BY <1>3, <2>1, <2>2 DEF Ranged, Holds
<1> QED BY <1>2, <1>3 DEF Ranged

-----------------------------------------------------------------------------
(* What a function is seen from.                                            *)

\* The statements that declare names.
Stating == Statements \ {"statement_block"}

\* A function of the graph is visible in all the body around its declaration.
LEMMA SeenAround ==
    ASSUME NEW t, ReadsAsJavaScript(t), NEW r, ReadFrom(t, r), NEW f \in GraphFunctions(r),
           NEW d \in DOMAIN t, d # 1,
           f.pos = d \/ (f.pos = d + 1 /\ t[d].kind = "variable_declarator"),
           NEW pos \in DOMAIN t, Spans(t, RunBy(t, d), pos)
    PROVE  VisibleAt(r, f, pos)
<1> DEFINE m == RunBy(t, d)
           I == Innermost(AroundPlace(r, f))
<1>1. IsJavaScript(t) /\ IsTree(t) /\ Ranged(t, f) /\ d \in Nat /\ pos \in Nat
  BY RangedIs, TreeNode DEF ReadsAsJavaScript, IsJavaScript
<1>2. /\ m \in DOMAIN t /\ t[m].kind \in Runners /\ m < d /\ d <= t[m].last
      /\ \A j \in DOMAIN t : t[j].kind \in Runners /\ j < d /\ d <= t[j].last => j <= m
  BY <1>1, RunByIs
<1>3. m \in Nat /\ t[m].last \in Nat /\ m <= pos /\ pos <= t[m].last
  BY <1>1, <1>2, TreeNode DEF Spans
<1> SUFFICES ASSUME I \in AroundPlace(r, f), Ranged(t, I) PROVE Holds(I, pos)
  BY Seen
<1> HIDE DEF m, I
<1>4. I.node < f.pos /\ f.pos <= t[I.node].last
  BY <1>1, AroundIs DEF AroundPlace
<1>5. I.node # d \/ f.pos = d
  BY DEF Ranged, Analysed
<1>6. I.node < d /\ d <= t[I.node].last
  BY <1>1, <1>4, <1>5 DEF Ranged
<1>7. I.node <= m
  BY <1>2, <1>6 DEF Ranged, Analysed, Runners, JsFunctions
<1>8. t[m].last <= t[I.node].last
  <2>1. CASE I.node = m
    BY <1>3, <2>1
  <2>2. CASE I.node # m
    <3>1. I.node < m /\ m <= t[I.node].last
      BY <1>1, <1>2, <1>3, <1>6, <1>7, <2>2 DEF Ranged
    <3> QED BY <1>1, <1>2, <3>1, TreeUnder DEF Ranged
  <2> QED BY <2>1, <2>2
<1> QED BY <1>1, <1>3, <1>7, <1>8 DEF Holds, Ranged

\* A function expression is visible in itself.
LEMMA SeenInside ==
    ASSUME NEW t, ReadsAsJavaScript(t), NEW r, ReadFrom(t, r), NEW f \in GraphFunctions(r),
           f.pos = f.node, NEW pos \in DOMAIN t, Spans(t, f.node, pos)
    PROVE  VisibleAt(r, f, pos)
<1> DEFINE I == Innermost(AroundPlace(r, f))
<1>1. IsTree(t) /\ Ranged(t, f) /\ pos \in Nat
  BY RangedIs, TreeNode DEF ReadsAsJavaScript, IsJavaScript
<1> SUFFICES ASSUME I \in AroundPlace(r, f), Ranged(t, I) PROVE Holds(I, pos)
  BY Seen
<1> HIDE DEF I
<1>4. I.node < f.node /\ f.node <= t[I.node].last
  BY <1>1, AroundIs DEF AroundPlace
<1>5. t[f.node].last <= t[I.node].last
  BY <1>1, <1>4, TreeUnder DEF Ranged
<1> QED BY <1>1, <1>4, <1>5 DEF Holds, Ranged, Spans

\* The scope of a statement is in the function that runs it.
LEMMA ScopeInRunner ==
    ASSUME NEW t, IsJavaScript(t), NEW d \in DOMAIN t, t[d].kind \in Stating,
           NEW pos \in DOMAIN t, Spans(t, Home(t, d), pos)
    PROVE  Spans(t, RunBy(t, d), pos)
<1> DEFINE s == Home(t, d)
           m == RunBy(t, d)
<1>1. IsTree(t) /\ d # 1 /\ HomeOf(t, d) /\ s \in DOMAIN t
  BY HomeCases, HomeIn DEF Stating, Statements, Declaring, IsJavaScript, OfKind
<1>2. /\ m \in DOMAIN t /\ t[m].kind \in Runners /\ m < d /\ d <= t[m].last
      /\ \A j \in DOMAIN t : t[j].kind \in Runners /\ j < d /\ d <= t[j].last => j <= m
  BY <1>1, RunByIs
<1>3. /\ m \in Nat /\ s \in Nat /\ t[m].last \in Nat /\ t[s].last \in Nat /\ d \in Nat /\ pos \in Nat
      /\ s <= pos /\ pos <= t[s].last
  BY <1>1, <1>2, TreeNode DEF Spans
<1>4. m <= s /\ t[s].last <= t[m].last
  <2>1. CASE s = d
    BY <1>1, <1>2, <1>3, <2>1, TreeUnder
  <2>2. CASE s = VarHome(t, d)
    <3>1. m = 1 \/ (m <= s /\ t[s].last = t[m].last)
      BY <1>3, <2>2, VarHomeIs DEF Stating
    <3>2. m = 1 => m <= s /\ t[s].last <= t[m].last
      BY <1>1, <1>3, <1>2 DEF IsTree
    <3> QED BY <1>3, <3>1, <3>2
  <2>3. CASE s = InnermostAround(t, d, JsScopes)
    <3>1. /\ t[s].kind \in JsScopes /\ s < d /\ d <= t[s].last
          /\ \A j \in DOMAIN t : t[j].kind \in JsScopes /\ j < d /\ d <= t[j].last => j <= s
      BY <1>1, <2>3, ScopeIs
    <3>2. m <= s
      BY <1>2, <3>1 DEF Runners, JsScopes
    <3> HIDE DEF m, s
    <3>3. m = s \/ (m < s /\ s <= t[m].last)
      BY <1>2, <1>3, <3>1, <3>2
    <3> QED BY <1>1, <1>2, <1>3, <3>2, <3>3, TreeUnder
  <2> QED BY <1>1, <2>1, <2>2, <2>3 DEF HomeOf, Stating, Statements
<1> HIDE DEF m, s
<1>5. m <= pos /\ pos <= t[m].last
  BY <1>3, <1>4
<1> QED BY <1>5 DEF Spans, m

\* A name declared in the body of a function is local to it but for the functions
\* the graph knows by it and the dynamic imports.
LEMMA LocalUnless ==
    ASSUME NEW t, NEW f \in DOMAIN t, NEW b \in DOMAIN t, Field(t, f, "body") = {b},
           NEW d \in DOMAIN t, t[d].kind \in Stating, Spans(t, b, d),
           NEW x \in DeclaredNames(t, d), x \notin LocalBindings(t, f)
    PROVE  \/ t[d].kind = "variable_declarator" /\ DeclaresDynamicImport(t, d)
           \/ t[d].kind = "variable_declarator" /\ t[d].up = b /\ DeclaresTrackedFunction(t, d)
           \/ t[d].kind = "function_declaration" /\ t[d].up = b
<1> DEFINE within(kinds) == {j \in OfKind(t, kinds) : Spans(t, b, j)}
           hiding == {e \in within({"variable_declarator"}) :
                         /\ ~DeclaresDynamicImport(t, e)
                         /\ ~(t[e].up = b /\ DeclaresTrackedFunction(t, e))}
           nested == {e \in within(Declarations) :
                         ~(t[e].kind = "function_declaration" /\ t[e].up = b)}
<1>1. LocalBindings(t, f) = (UNION {Locals(t[e].binds) : e \in hiding \cup within({"for_in_statement", "catch_clause"})})
                            \cup {t[e].name : e \in nested}
  BY Zenon DEF LocalBindings
<1>2. CASE t[d].kind = "variable_declarator"
  BY <1>1, <1>2 DEF DeclaredNames, OfKind
<1>3. CASE t[d].kind \in {"for_in_statement", "catch_clause"}
  BY <1>1, <1>3 DEF DeclaredNames, OfKind
<1>4. CASE t[d].kind \in {"function_declaration", "generator_function_declaration", "class_declaration"}
  <2>1. x = t[d].name
    BY <1>4 DEF DeclaredNames
  <2>2. d \in within(Declarations)
    BY <1>4 DEF OfKind, Declarations
  <2>3. d \notin nested
    BY <1>1, <2>1
  <2> QED BY <2>2, <2>3, <1>4
<1> QED BY <1>2, <1>3, <1>4 DEF Stating, Statements

\* No function around a place has a parameter or a local of a name.
Unshadowed(r, x, pos) == \A f \in r.functions \cup r.anonymous : Holds(f, pos) => x \notin f.parameters \cup f.locals
\* The graph has a visible function that a variable is the name of.
Known(t, r, x, v, pos) ==
    \E f \in GraphFunctions(r) : /\ f.name = x /\ VisibleAt(r, f, pos)
                                 /\ <<x, v>> \in CalledBy(t, f.node) /\ t[f.node].kind \in Analysed

\* A function that runs a statement is the one whose body the statement is in.
LEMMA StatementIn ==
    ASSUME NEW t, IsJavaScript(t), NEW d \in DOMAIN t, t[d].kind \in Stating
    PROVE  LET m == RunBy(t, d)
           IN  /\ d # 1 /\ m \in DOMAIN t /\ t[m].kind \in Runners /\ m < d /\ d <= t[m].last
               /\ m = 1 => t[m].kind = "program"
               /\ t[m].kind \in JsFunctions => \E b \in DOMAIN t :
                     /\ Field(t, m, "body") = {b} /\ t[b].up = m /\ t[b].role = "body"
                     /\ t[b].last = t[m].last /\ m < b /\ Spans(t, b, d)
<1> DEFINE m == RunBy(t, d)
<1>1. d # 1
  BY DEF IsJavaScript, OfKind, Stating, Statements
<1>2. /\ m \in DOMAIN t /\ t[m].kind \in Runners /\ m < d /\ d <= t[m].last
      /\ (t[m].kind = "program" <=> m = 1)
  BY <1>1, RunByIs
<1>3. m = 1 \/ \E b \in Field(t, m, "body") : Spans(t, b, d)
  BY DEF IsJavaScript, OfKind, Stating
<1>4. ASSUME t[m].kind \in JsFunctions
      PROVE  \E b \in DOMAIN t :
                     /\ Field(t, m, "body") = {b} /\ t[b].up = m /\ t[b].role = "body"
                     /\ t[b].last = t[m].last /\ m < b /\ Spans(t, b, d)
  <2>1. m # 1
    BY <1>2, <1>4 DEF JsFunctions
  <2>2. PICK b \in DOMAIN t : /\ Field(t, m, "body") = {b} /\ t[b].up = m /\ t[b].role = "body"
                              /\ t[b].last = t[m].last /\ m < b
    BY <1>2, <1>4, BodyIs
  <2> QED BY <1>3, <2>1, <2>2
<1> QED BY <1>1, <1>2, <1>4

\* A function the graph knows by the name of its declarator.
LEMMA TrackedIs ==
    ASSUME NEW t, ReadsAsJavaScript(t), NEW r, ReadFrom(t, r), NEW d \in DOMAIN t,
           t[d].kind = "variable_declarator", DeclaresTrackedFunction(t, d),
           NEW x \in Locals(t[d].binds), x # NoName
    PROVE  \E f \in GraphFunctions(r) :
              /\ f.name = x /\ (f.pos = d \/ f.pos = d + 1)
              /\ <<x, Home(t, d)>> \in CalledBy(t, f.node) /\ t[f.node].kind \in Analysed
<1>1. IsTree(t) /\ IsJavaScript(t)
  BY DEF ReadsAsJavaScript, IsJavaScript
<1>2. IsName(t[d].binds)
  BY DEF DeclaresTrackedFunction
<1>3. x = TheName(t[d].binds)
  BY <1>1, <1>2 DEF IsTree, IsName, TheName, Locals
<1>4. PICK v \in Field(t, d, "value") :
          \/ t[v].kind = "arrow_function"
          \/ t[v].kind = "function_expression" /\ t[v].name = TheName(t[d].binds)
  BY DEF DeclaresTrackedFunction
<1>5. v \in DOMAIN t /\ t[v].up = d /\ t[v].role = "value"
  BY <1>4 DEF Field, Children
<1>6. FieldOf(t, v, "variable_declarator", "value")
  <2>1. d # 0
    BY <1>1, TreeNode
  <2> QED BY <1>5, <2>1 DEF FieldOf
<1>7. v = d + 1
  BY <1>1, <1>5, <1>6 DEF IsJavaScript
<1>8. <<x, Home(t, d)>> \in CalledBy(t, v)
  BY <1>2, <1>3, <1>5, <1>6 DEF CalledBy
<1>9. CASE t[v].kind = "arrow_function"
  <2> DEFINE f == Function(t, v, TheName(t[t[v].up].binds), t[v].up)
  <2>1. f \in FunctionsOf(t)
    BY <1>2, <1>5, <1>6, <1>9 DEF FunctionsOf, OfKind, BoundArrow
  <2>2. f.name = x /\ f.pos = d /\ f.node = v
    BY <1>3, <1>5 DEF Function
  <2> HIDE DEF f
  <2> QED BY <1>8, <1>9, <2>1, <2>2 DEF ReadFrom, GraphFunctions, Analysed
<1>10. CASE t[v].kind = "function_expression" /\ t[v].name = TheName(t[d].binds)
  <2> DEFINE f == Function(t, v, t[v].name, v)
  <2>1. f \in FunctionsOf(t)
    BY <1>3, <1>5, <1>10 DEF FunctionsOf, OfKind
  <2>2. f.name = x /\ f.pos = v /\ f.node = v
    BY <1>3, <1>10 DEF Function
  <2> HIDE DEF f
  <2> QED BY <1>7, <1>8, <1>10, <2>1, <2>2 DEF ReadFrom, GraphFunctions, Analysed
<1> QED BY <1>4, <1>9, <1>10

\* A statement whose scope spans a call declares a name the graph knows, one it
\* overlooks, or one held by an import().
LEMMA StatedKnown ==
    ASSUME NEW t, ReadsAsJavaScript(t), NEW r, ReadFrom(t, r), NEW x, x # NoName,
           NEW pos \in DOMAIN t, Unshadowed(r, x, pos),
           NEW d \in DOMAIN t, t[d].kind \in Stating, x \in DeclaredNames(t, d),
           Home(t, d) # 1, Spans(t, Home(t, d), pos)
    PROVE  \/ Overlooked(t, Home(t, d)) \/ HeldByLoad(t, x, Home(t, d))
           \/ Known(t, r, x, Home(t, d), pos)
<1> DEFINE s == Home(t, d)
           m == RunBy(t, d)
<1>1. IsJavaScript(t) /\ IsTree(t) /\ d \in Nat
  BY TreeNode DEF ReadsAsJavaScript, IsJavaScript
<1>2. /\ d # 1 /\ m \in DOMAIN t /\ t[m].kind \in Runners /\ m < d /\ d <= t[m].last
      /\ t[m].kind \in JsFunctions => \E b \in DOMAIN t :
                     /\ Field(t, m, "body") = {b} /\ t[b].up = m /\ t[b].role = "body"
                     /\ t[b].last = t[m].last /\ m < b /\ Spans(t, b, d)
  BY <1>1, StatementIn
<1>3. HolderOf(t, s) = m /\ Spans(t, m, pos) /\ s \in DOMAIN t /\ s \in Nat /\ s >= 1
  <2>1. s \in DOMAIN t
    BY <1>1, HomeIn DEF Stating, Statements, Declaring
  <2>2. s \in Nat /\ s >= 1
    BY <1>1, <2>1, TreeNode
  <2> QED BY <1>1, <2>1, <2>2, HolderIs, ScopeInRunner DEF Stating
<1>4. s > 1
  BY <1>3
<1>5. CASE t[m].kind \in Untold \cup {"program"}
  BY <1>3, <1>4, <1>5 DEF Overlooked
<1>6. CASE t[m].kind \in Analysed
  <2>1. PICK b \in DOMAIN t : Field(t, m, "body") = {b} /\ t[b].up = m /\ Spans(t, b, d)
    BY <1>2, <1>6 DEF Analysed, JsFunctions
  <2>2. PICK g \in r.functions \cup r.anonymous :
              g.node = m /\ g.pos = m /\ g.last = t[m].last /\ g.locals = LocalBindings(t, m)
    BY <1>2, <1>6, RangeOf
  <2>3. x \notin LocalBindings(t, m)
    BY <1>3, <2>2 DEF Unshadowed, Holds, Spans
  <2>4. \/ t[d].kind = "variable_declarator" /\ DeclaresDynamicImport(t, d)
        \/ t[d].kind = "variable_declarator" /\ t[d].up = b /\ DeclaresTrackedFunction(t, d)
        \/ t[d].kind = "function_declaration" /\ t[d].up = b
    BY <1>2, <2>1, <2>3, LocalUnless
  <2>5. CASE t[d].kind = "variable_declarator" /\ DeclaresDynamicImport(t, d)
    BY <1>4, <2>5 DEF HeldByLoad, OfKind, DeclaredNames
  <2>6. CASE t[d].kind = "variable_declarator" /\ DeclaresTrackedFunction(t, d)
    <3>0. x \in Locals(t[d].binds)
      BY <2>6 DEF DeclaredNames
    <3>1. PICK f \in GraphFunctions(r) :
              /\ f.name = x /\ (f.pos = d \/ f.pos = d + 1)
              /\ <<x, s>> \in CalledBy(t, f.node) /\ t[f.node].kind \in Analysed
      BY <2>6, <3>0, TrackedIs
    <3>2. VisibleAt(r, f, pos)
      BY <1>2, <1>3, <2>6, <3>1, SeenAround
    <3> QED BY <3>1, <3>2 DEF Known
  <2>7. CASE t[d].kind = "function_declaration"
    <3> DEFINE f == Function(t, d, t[d].name, d)
    <3>1. x = t[d].name
      BY <2>7 DEF DeclaredNames
    <3>2. f \in FunctionsOf(t) /\ f.name = x /\ f.pos = d /\ f.node = d
      BY <2>7, <3>1 DEF FunctionsOf, OfKind, Function
    <3> HIDE DEF f
    <3>3. f \in GraphFunctions(r)
      BY <3>2 DEF ReadFrom, GraphFunctions
    <3>4. VisibleAt(r, f, pos)
      BY <1>2, <1>3, <3>2, <3>3, SeenAround
    <3>5. <<x, s>> \in CalledBy(t, d)
      BY <2>7, <3>1 DEF CalledBy
    <3> QED BY <2>7, <3>2, <3>3, <3>4, <3>5 DEF Known, Analysed
  <2> QED BY <2>4, <2>5, <2>6, <2>7
<1> QED BY <1>2, <1>5, <1>6 DEF Runners, JsFunctions, Untold, Analysed

\* What the graph knows of the variable a name is at a call nothing shadows.
LEMMA NameKnown ==
    ASSUME NEW t, ReadsAsJavaScript(t), NEW r, ReadFrom(t, r), NEW x, x # NoName,
           NEW pos \in DOMAIN t, Unshadowed(r, x, pos)
    PROVE  LET v == VariableAt(t, x, pos)
           IN  v \in {0, 1} \/ Hidden(t, x, pos) \/ (v > 1 /\ Known(t, r, x, v, pos))
<1> DEFINE v == VariableAt(t, x, pos)
<1>1. IsJavaScript(t) /\ IsTree(t)
  BY DEF ReadsAsJavaScript, IsJavaScript
<1>2. v = 0 \/ (v \in Homes(t, x) /\ v \in DOMAIN t /\ v \in Nat /\ v >= 1 /\ Spans(t, v, pos))
  BY <1>1, VariableIs
<1> SUFFICES ASSUME v # 0, v # 1 PROVE Hidden(t, x, pos) \/ Known(t, r, x, v, pos)
  BY <1>2
<1>3. PICK d \in DOMAIN t : x \in DeclaredNames(t, d) /\ v = Home(t, d)
  BY <1>2 DEF Homes
<1>4. t[d].kind \in Declaring /\ HomeOf(t, d)
  BY <1>1, <1>3, DeclaringKinds, HomeCases
<1>5. CASE t[d].kind \in Stating
  BY <1>2, <1>3, <1>5, StatedKnown DEF Hidden
<1>6. CASE t[d].kind = "parameter"
  <2>1. v = t[d].up /\ t[v].kind \in JsFunctions /\ t[d].role = "parameter" /\ v > 1
    BY <1>2, <1>3, <1>4, <1>6 DEF HomeOf
  <2>2. CASE t[v].kind \in Untold
    BY <2>1, <2>2 DEF Hidden, Overlooked, HolderOf
  <2>3. CASE t[v].kind \in Analysed
    <3>1. PICK g \in r.functions \cup r.anonymous :
              g.pos = v /\ g.last = t[v].last /\ g.parameters = ParametersOf(t, v)
      BY <1>2, <2>3, RangeOf
    <3>2. x \in ParametersOf(t, v)
      BY <1>3, <1>6, <2>1 DEF DeclaredNames, ParametersOf, Field, Children
    <3> QED BY <1>2, <3>1, <3>2 DEF Unshadowed, Holds, Spans
  <2> QED BY <2>1, <2>2, <2>3 DEF JsFunctions, Untold, Analysed
<1>7. CASE t[d].kind = "function_expression"
  <2> DEFINE f == Function(t, d, t[d].name, d)
  <2>1. x = t[d].name /\ v = d
    BY <1>3, <1>4, <1>7 DEF DeclaredNames, HomeOf
  <2>2. f \in FunctionsOf(t) /\ f.name = x /\ f.pos = d /\ f.node = d
    BY <1>7, <2>1 DEF FunctionsOf, OfKind, Function
  <2> HIDE DEF f
  <2>3. f \in GraphFunctions(r)
    BY <2>2 DEF ReadFrom, GraphFunctions
  <2>4. VisibleAt(r, f, pos)
    BY <1>2, <2>1, <2>2, <2>3, SeenInside
  <2>5. <<x, v>> \in CalledBy(t, d)
    BY <1>3, <1>7, <2>1 DEF CalledBy
  <2> QED BY <1>7, <2>2, <2>3, <2>4, <2>5 DEF Known, Analysed
<1>8. CASE t[d].kind \in {"import_statement", "import_require_clause"}
  BY <1>3, <1>4, <1>8 DEF HomeOf
<1> QED BY <1>4, <1>5, <1>6, <1>7, <1>8 DEF Declaring, Stating, Statements

\* The declaration that gives a function of the graph its name.
LEMMA NamedBy ==
    ASSUME NEW t, ReadsAsJavaScript(t), NEW r, ReadFrom(t, r), NEW f \in GraphFunctions(r),
           f.name \notin {NoName, Synthetic}
    PROVE  LET d == f.pos
           IN  /\ d \in DOMAIN t /\ f.name \in DeclaredNames(t, d)
               /\ <<f.name, Home(t, d)>> \in CalledBy(t, f.node)
               /\ \/ t[d].kind \in {"function_expression", "function_declaration"} /\ f.node = d
                  \/ /\ t[d].kind = "variable_declarator" /\ f.node = d + 1
                     /\ t[d + 1].kind = "arrow_function"
<1>1. Tracked(t, f) /\ (ByName(t, f) \/ ByDeclarator(t, f)) /\ IsTree(t) /\ IsJavaScript(t)
  BY GraphFunctionIs DEF Positioned, AsHandler, ReadsAsJavaScript, IsJavaScript
<1>2. CASE ByName(t, f)
  <2>1. f.name \in DeclaredNames(t, f.pos)
    BY <1>1, <1>2 DEF ByName, Tracked, DeclaredNames
  <2>2. <<f.name, Home(t, f.pos)>> \in CalledBy(t, f.node)
    BY <1>2 DEF ByName, CalledBy
  <2> QED BY <1>1, <1>2, <2>1, <2>2 DEF ByName, Tracked
<1>3. CASE ByDeclarator(t, f)
  <2>1. f.name \in Locals(t[f.pos].binds)
    BY <1>1, <1>3, NameIsLocal DEF ByDeclarator, Tracked
  <2>2. t[f.pos].mode # "assigned"
    BY <1>1, <1>3 DEF IsJavaScript, ByDeclarator, Tracked
  <2>3. f.name \in DeclaredNames(t, f.pos)
    BY <1>3, <2>1, <2>2 DEF ByDeclarator, DeclaredNames
  <2>4. FieldOf(t, f.node, "variable_declarator", "value")
    <3>1. f.pos # 0
      BY <1>1, TreeNode DEF Tracked
    <3> QED BY <1>3, <3>1 DEF ByDeclarator, FieldOf
  <2>5. <<f.name, Home(t, f.pos)>> \in CalledBy(t, f.node)
    BY <1>3, <2>4 DEF ByDeclarator, CalledBy
  <2> QED BY <1>1, <1>3, <2>3, <2>5 DEF ByDeclarator, Tracked
<1> QED BY <1>1, <1>2, <1>3

\* The scope of a statement right under the body of a function is the body, or
\* the function itself.
LEMMA BodyScope ==
    ASSUME NEW t, IsJavaScript(t), NEW d \in DOMAIN t,
           t[d].kind \in {"variable_declarator", "function_declaration"},
           NEW b \in DOMAIN t, Field(t, RunBy(t, d), "body") = {b}, t[b].up = RunBy(t, d),
           t[RunBy(t, d)].kind \in JsFunctions, t[d].up = b
    PROVE  Home(t, d) \in {b, RunBy(t, d)}
<1> DEFINE m == RunBy(t, d)
           s == Home(t, d)
<1>1. IsTree(t) /\ HomeOf(t, d) /\ d # 1
  BY HomeCases DEF IsJavaScript, OfKind, Declaring
<1>2. /\ m \in DOMAIN t /\ m < d /\ d <= t[m].last /\ t[m].kind \in Runners /\ t[m].kind # "program"
  BY <1>1, RunByIs DEF JsFunctions
<1>3. CASE t[d].mode = "var"
  <2>1. m # 1
    BY <1>2 DEF IsJavaScript, OfKind, JsFunctions
  <2>2. s = VarHome(t, d)
    BY <1>1, <1>3 DEF HomeOf
  <2>3. \E a \in DOMAIN t : Field(t, m, "body") = {a} /\ VarHome(t, d) = a
    BY <2>1, VarHomeIs DEF Statements
  <2> QED BY <2>2, <2>3
<1>4. CASE t[d].mode # "var"
  <2>1. s = InnermostAround(t, d, JsScopes)
    BY <1>1, <1>4 DEF HomeOf
  <2>2. /\ s \in DOMAIN t /\ s < d /\ d <= t[s].last
        /\ \A j \in DOMAIN t : t[j].kind \in JsScopes /\ j < d /\ d <= t[j].last => j <= s
    BY <1>1, <2>1, ScopeIs
  <2>3. m <= s
    BY <1>2, <2>2 DEF JsScopes
  <2>4. s <= b
    BY <1>1, <2>2, TreeUnder
  <2>5. s \in Nat /\ b \in Nat /\ m \in Nat /\ t[s].last \in Nat /\ d \in Nat /\ b < d
    BY <1>1, <1>2, <2>2, TreeNode
  <2>6. CASE s < b
    <3>1. s < b /\ b <= t[s].last
      BY <2>2, <2>5, <2>6
    <3>2. s <= m
      BY <1>1, <2>2, <3>1, TreeUnder
    <3> HIDE DEF s, m
    <3>3. s = m
      BY <2>3, <2>5, <3>2
    <3> QED BY <3>3 DEF s, m
  <2>7. CASE ~(s < b)
    <3> HIDE DEF s
    <3>1. s = b
      BY <2>4, <2>5, <2>7
    <3> QED BY <3>1 DEF s
  <2> QED BY <2>6, <2>7
<1> QED BY <1>3, <1>4

\* A function the graph sees at a place is one of a function around it.
LEMMA SeenInOwner ==
    ASSUME NEW t, ReadsAsJavaScript(t), NEW r, ReadFrom(t, r),
           NEW pos \in DOMAIN t, NEW f \in GraphFunctions(r), VisibleAt(r, f, pos)
    PROVE  Spans(t, OwnerOf(t, f.node), pos)
<1> DEFINE o == OwnerOf(t, f.node)
           I == Innermost(AroundPlace(r, f))
<1>1. IsJavaScript(t) /\ IsTree(t) /\ Tracked(t, f) /\ Positioned(t, f) /\ Ranged(t, f)
  BY GraphFunctionIs, RangedIs DEF ReadsAsJavaScript, IsJavaScript
<1>2. f.node # 1 /\ f.node \in DOMAIN t /\ f.node \in Nat /\ f.pos \in DOMAIN t /\ f.pos \in Nat
  BY <1>1 DEF Ranged, Analysed, IsJavaScript, OfKind
<1>3. /\ o \in DOMAIN t /\ t[o].kind \in Owners /\ o < f.node /\ f.node <= t[o].last
      /\ (t[o].kind = "program" <=> o = 1)
      /\ \A j \in DOMAIN t : t[j].kind \in Owners /\ j < f.node /\ f.node <= t[j].last => j <= o
  BY <1>1, <1>2, OwnerIs
<1>4. o \in Nat /\ t[o].last \in Nat /\ pos \in Nat
  BY <1>1, <1>3, TreeNode
<1> HIDE DEF o, I
<1>5. CASE o = 1
  BY <1>1, <1>5, TreeNode DEF Spans, o
<1>6. CASE o # 1
  <2>1. t[o].kind \in Analysed
    BY <1>3, <1>6 DEF Owners, Told, JsFunctions, Untold, Analysed
  <2>2. PICK g \in r.functions \cup r.anonymous : g.node = o /\ g.pos = o /\ g.last = t[o].last
    BY <1>3, <2>1, RangeOf
  <2>3. o <= f.pos /\ f.pos <= t[o].last
    BY <1>1, <1>2, <1>3, <1>4 DEF Ranged
  <2>4. g \in AroundPlace(r, f)
    <3>1. g.node # f.node
      BY <1>2, <1>3, <1>4, <2>2
    <3> QED BY <2>2, <2>3, <3>1 DEF AroundPlace, GraphFunctions, Holds
  <2>5. I \in AroundPlace(r, f) /\ Ranged(t, I) /\ Holds(I, pos) /\ o <= I.pos
    <3>1. /\ I \in AroundPlace(r, f) /\ Ranged(t, I) /\ (VisibleAt(r, f, pos) <=> Holds(I, pos))
          /\ \A h \in AroundPlace(r, f) : h.pos <= I.pos
      BY <2>4, Seen DEF I
    <3> QED BY <2>2, <2>4, <3>1
  <2>6. I.node < f.pos /\ f.pos <= t[I.node].last
    BY <1>1, <2>5, AroundIs DEF AroundPlace
  <2>7. I.node < f.node /\ f.node <= t[I.node].last
    <3>1. CASE f.pos = f.node
      BY <2>6, <3>1
    <3>2. CASE f.pos # f.node
      <4>1. t[f.node].up = f.pos /\ f.node = f.pos + 1
        BY <1>1, <3>2 DEF Positioned, ByName, ByDeclarator, AsHandler
      <4>2. f.node <= t[f.pos].last
        BY <1>1, <1>2, <4>1, TreeNode
      <4>3. t[f.pos].last <= t[I.node].last
        BY <1>1, <1>2, <2>5, <2>6, TreeUnder DEF Ranged
      <4>4. t[f.pos].last \in Nat /\ t[I.node].last \in Nat /\ I.node \in Nat
        BY <1>1, <1>2, <2>5, TreeNode DEF Ranged
      <4> QED BY <1>2, <2>6, <4>1, <4>2, <4>3, <4>4
    <3> QED BY <3>1, <3>2
  <2>8. I.node <= o
    BY <1>3, <2>5, <2>7 DEF Ranged, Analysed, Owners, Told, Untold, JsFunctions
  <2>9. I.pos = o /\ I.last = t[o].last
    BY <1>4, <2>5, <2>8 DEF Ranged
  <2> QED BY <2>5, <2>9 DEF Holds, Spans, o
<1> QED BY <1>5, <1>6

\* A function the graph sees at a call nothing shadows: the call is in the scope
\* of its name, or out of it in one of the ways of OutOfScope.
LEMMA SeenOutOfScope ==
    ASSUME NEW t, ReadsAsJavaScript(t), NEW r, ReadFrom(t, r),
           NEW pos \in DOMAIN t, NEW f \in GraphFunctions(r), f.name \notin {NoName, Synthetic},
           Unshadowed(r, f.name, pos), VisibleAt(r, f, pos)
    PROVE  LET s == Home(t, f.pos)
           IN  /\ <<f.name, s>> \in CalledBy(t, f.node) /\ s \in Homes(t, f.name)
               /\ Spans(t, s, pos) \/ OutOfScope(t, <<f.name, s>>, f.node, pos)
<1> DEFINE d == f.pos
           x == f.name
           s == Home(t, d)
           m == RunBy(t, d)
<1>1. IsJavaScript(t) /\ IsTree(t) /\ pos \in Nat /\ 1 <= pos /\ pos <= t[1].last
  BY TreeNode DEF ReadsAsJavaScript, IsJavaScript
<1>2. /\ d \in DOMAIN t /\ x \in DeclaredNames(t, d) /\ <<x, s>> \in CalledBy(t, f.node)
      /\ \/ t[d].kind \in {"function_expression", "function_declaration"} /\ f.node = d
         \/ /\ t[d].kind = "variable_declarator" /\ f.node = d + 1
            /\ t[d + 1].kind = "arrow_function"
  BY NamedBy
<1>3. s \in Homes(t, x) /\ s \in DOMAIN t /\ s \in Nat /\ s >= 1
  <2>1. s \in Homes(t, x)
    BY <1>2 DEF Homes
  <2>2. s \in DOMAIN t
    BY <1>1, <2>1, VariableIs
  <2>3. s \in Nat /\ s >= 1
    BY <1>1, <2>2, TreeNode
  <2> QED BY <2>1, <2>2, <2>3
<1>4. CASE ~Spans(t, s, pos)
  <2>1. s # 1
    BY <1>1, <1>4 DEF Spans
  <2>0. Spans(t, OwnerOf(t, f.node), pos)
    BY SeenInOwner
  <2> SUFFICES ASSUME ~Overlooked(t, s), t[f.node].kind # "function_expression"
               PROVE  t[s].role = "body" /\ t[t[s].up].kind \in JsFunctions /\ Spans(t, t[s].up, pos)
    BY <1>2, <1>3, <1>4, <2>0 DEF OutOfScope
  <2>2. /\ t[d].kind \in {"variable_declarator", "function_declaration"}
        /\ t[d].kind \in Stating /\ t[d].kind \in Statements \ {"statement_block"}
    BY <1>2 DEF Stating, Statements
  <2>3. /\ d # 1 /\ m \in DOMAIN t /\ t[m].kind \in Runners /\ m < d /\ d <= t[m].last
        /\ t[m].kind \in JsFunctions => \E b \in DOMAIN t :
                     /\ Field(t, m, "body") = {b} /\ t[b].up = m /\ t[b].role = "body"
                     /\ t[b].last = t[m].last /\ m < b /\ Spans(t, b, d)
    BY <1>1, <1>2, <2>2, StatementIn
  <2>4. HolderOf(t, s) = m
    BY <1>1, <1>2, <2>1, <2>2, HolderIs
  <2>5. t[m].kind \in Analysed
    <3>1. s > 1
      BY <1>3, <2>1
    <3> QED BY <2>3, <2>4, <3>1 DEF Overlooked, Runners, JsFunctions, Untold, Analysed
  <2>6. PICK b \in DOMAIN t : /\ Field(t, m, "body") = {b} /\ t[b].up = m /\ t[b].role = "body"
                              /\ Spans(t, b, d)
    BY <2>3, <2>5 DEF Analysed, JsFunctions
  <2>7. PICK g \in r.functions \cup r.anonymous :
              g.node = m /\ g.pos = m /\ g.last = t[m].last /\ g.locals = LocalBindings(t, m)
    BY <2>3, <2>5, RangeOf
  <2>8. d \in Nat /\ m \in Nat /\ t[m].last \in Nat
    BY <1>1, <1>2, <2>3, TreeNode
  <2>9. g \in AroundPlace(r, f)
    <3>1. Holds(g, d)
      BY <2>3, <2>7, <2>8 DEF Holds
    <3>2. g.node # f.node
      BY <1>2, <2>3, <2>7, <2>8
    <3> QED BY <2>7, <3>1, <3>2 DEF AroundPlace, GraphFunctions
  <2> DEFINE I == Innermost(AroundPlace(r, f))
  <2>10. I \in AroundPlace(r, f) /\ Ranged(t, I) /\ Holds(I, pos) /\ m <= I.pos
    <3>1. /\ I \in AroundPlace(r, f) /\ Ranged(t, I) /\ (VisibleAt(r, f, pos) <=> Holds(I, pos))
          /\ \A h \in AroundPlace(r, f) : h.pos <= I.pos
      BY <2>9, Seen
    <3> QED BY <2>7, <2>9, <3>1
  <2> HIDE DEF I
  <2>11. I.node < d /\ d <= t[I.node].last
    BY <2>10, RangedIs, AroundIs DEF AroundPlace
  <2>12. I.node <= m
    <3>1. \A j \in DOMAIN t : t[j].kind \in Runners /\ j < d /\ d <= t[j].last => j <= m
      BY <1>1, <1>2, <2>3, RunByIs
    <3> QED BY <2>10, <2>11, <3>1 DEF Ranged, Analysed, Runners, JsFunctions
  <2>13. I.pos = m /\ I.last = t[m].last
    BY <2>8, <2>10, <2>12 DEF Ranged
  <2>14. Spans(t, m, pos)
    BY <2>10, <2>13 DEF Holds, Spans
  <2>15. x \notin LocalBindings(t, m)
    BY <2>7, <2>14 DEF Unshadowed, Holds, Spans
  <2>16. ~(t[d].kind = "variable_declarator" /\ DeclaresDynamicImport(t, d))
    <3> SUFFICES ASSUME t[d].kind = "variable_declarator", NEW v \in Field(t, d, "value"),
                        t[v].kind \in {"import", "await_expression"}
                 PROVE  FALSE
      BY DEF DeclaresDynamicImport
    <3>1. v \in DOMAIN t /\ t[v].up = d /\ t[v].role = "value"
      BY DEF Field, Children
    <3>2. v = d + 1
      <4>1. d # 0
        BY <1>1, <1>2, TreeNode
      <4>2. FieldOf(t, v, "variable_declarator", "value")
        BY <3>1, <4>1 DEF FieldOf
      <4> QED BY <1>1, <3>1, <4>2 DEF IsJavaScript
    <3> QED BY <1>2, <3>2
  <2>17. t[d].up = b
    BY <1>2, <2>2, <2>3, <2>6, <2>15, <2>16, LocalUnless
  <2>18. s \in {b, m}
    BY <1>1, <1>2, <2>2, <2>5, <2>6, <2>17, BodyScope DEF Analysed, JsFunctions
  <2>19. s # m
    BY <1>4, <2>14
  <2> QED BY <2>5, <2>6, <2>14, <2>18, <2>19 DEF Analysed, JsFunctions
<1> QED BY <1>2, <1>3, <1>4

\* The variable an import is held by, where the name is no variable of an inner
\* scope: the same one, or one whose scope the place is not in.
LEMMA HeldOutside ==
    ASSUME NEW t, IsJavaScript(t), NEW x, NEW from \in DOMAIN t, NEW pos \in DOMAIN t,
           VariableAt(t, x, pos) \in {0, 1}
    PROVE  \/ VariableAt(t, x, from) = VariableAt(t, x, pos)
           \/ VariableAt(t, x, from) > 1 /\ ~Spans(t, VariableAt(t, x, from), pos)
<1>1. \A p \in DOMAIN t : Spans(t, 1, p)
  BY TreeNode DEF IsJavaScript, Spans
<1> DEFINE h == VariableAt(t, x, from)
           v == VariableAt(t, x, pos)
<1>2. \/ h = 0 /\ \A s \in Homes(t, x) : ~Spans(t, s, from)
      \/ h \in Homes(t, x) /\ h \in Nat /\ h >= 1
  BY VariableIs
<1>3. \/ v = 0 /\ \A s \in Homes(t, x) : ~Spans(t, s, pos)
      \/ v \in Homes(t, x) /\ \A s \in Homes(t, x) : Spans(t, s, pos) => s <= v
  BY VariableIs
<1> HIDE DEF h, v
<1>4. CASE h = 0
  <2>1. 1 \notin Homes(t, x)
    BY <1>1, <1>2, <1>4
  <2> QED BY <1>3, <1>4, <2>1 DEF h, v
<1>5. CASE h = 1
  BY <1>1, <1>2, <1>3, <1>5 DEF h, v
<1>6. CASE h > 1
  BY <1>2, <1>3, <1>6 DEF h, v
<1> QED BY <1>2, <1>4, <1>5, <1>6

-----------------------------------------------------------------------------
(* The calls and the imports of a file.                                     *)

\* A call is a call node, and a direct one is made by a name.
LEMMA CallIs ==
    ASSUME NEW t, ReadsAsJavaScript(t), NEW c \in CallsOf(t)
    PROVE  /\ c.pos \in DOMAIN t /\ t[c.pos].kind \in Calls
           /\ c.callee # NoCallee => BindingOf(c) \notin {NoName, Synthetic}
<1>1. IsJavaScript(t) /\ \A i \in DOMAIN t : t[i].kind = "identifier" => t[i].name \notin {NoName, Synthetic}
  BY DEF ReadsAsJavaScript, OfKind
<1>2. \A x \in {"require", "import", OtherValue} : x \notin {NoName, Synthetic}
  BY SourceAssumption
<1>3. CASE \E i \in OfKind(t, {"require", "import"}) : c = Call(i, NoName, t[i].kind)
  <2>1. PICK i \in OfKind(t, {"require", "import"}) : c = Call(i, NoName, t[i].kind)
    BY <1>3
  <2>2. c.pos = i /\ BindingOf(c) = t[i].kind
    BY <2>1 DEF Call, BindingOf
  <2>3. i \in DOMAIN t /\ t[i].kind \in {"require", "import"}
    BY DEF OfKind
  <2> QED BY <1>2, <2>2, <2>3 DEF Calls
<1>4. ASSUME NEW i \in OfKind(t, {"call"}), NEW f \in Field(t, i, "function"), c \in CallOf(t, i, f)
      PROVE  /\ c.pos \in DOMAIN t /\ t[c.pos].kind \in Calls
             /\ c.callee # NoCallee => BindingOf(c) \notin {NoName, Synthetic}
  <2>1. i \in DOMAIN t /\ t[i].kind \in Calls /\ f \in DOMAIN t
    BY <1>4 DEF OfKind, Calls, Field, Children
  <2> DEFINE object == CHOOSE o \in Field(t, f, "object") : TRUE
  <2>2. t[f].kind \in {"member_expression", "subscript_expression"} => object \in DOMAIN t
    <3> SUFFICES ASSUME t[f].kind \in {"member_expression", "subscript_expression"} PROVE object \in DOMAIN t
      OBVIOUS
    <3>1. Field(t, f, "object") # {}
      BY <1>1, <2>1 DEF IsJavaScript, OfKind
    <3>2. object \in Field(t, f, "object")
      BY <3>1
    <3> QED BY <3>2 DEF Field, Children
  <2>3. \/ t[f].kind = "identifier" /\ c = Call(i, NoName, t[f].name)
        \/ /\ t[f].kind = "member_expression" /\ t[object].kind = "identifier"
           /\ c = Call(i, t[object].name, t[f].name)
        \/ c = Call(i, OtherValue, t[f].name)
        \/ c.pos = i /\ c.callee = NoCallee
    <3>1. c \in CASE t[f].kind = "identifier" -> {Call(i, NoName, t[f].name)}
          [] t[f].kind = "member_expression" /\ t[object].kind = "identifier" ->
                {Call(i, t[object].name, t[f].name)}
          [] t[f].kind = "member_expression" /\ t[object].kind \in Calls ->
                {Call(i, OtherValue, t[f].name)}
          [] t[f].kind = "subscript_expression" ->
                {Call(i, IF t[object].kind = "identifier" THEN t[object].name ELSE OtherValue,
                      NoCallee)}
          [] t[f].kind \in Calls -> {Call(i, NoName, NoCallee)}
          [] OTHER -> {}
      BY <1>4 DEF CallOf
    <3> HIDE DEF object
    <3> QED BY <3>1 DEF Call
  <2> HIDE DEF object
  <2>4. CASE t[f].kind = "identifier" /\ c = Call(i, NoName, t[f].name)
    BY <1>1, <2>1, <2>4 DEF Call, BindingOf
  <2>5. CASE /\ t[f].kind = "member_expression" /\ t[object].kind = "identifier"
             /\ c = Call(i, t[object].name, t[f].name)
    BY <1>1, <2>1, <2>2, <2>5 DEF Call, BindingOf
  <2>6. CASE c = Call(i, OtherValue, t[f].name)
    BY <1>2, <2>1, <2>6 DEF Call, BindingOf
  <2>7. CASE c.pos = i /\ c.callee = NoCallee
    BY <2>1, <2>7
  <2> QED BY <2>3, <2>4, <2>5, <2>6, <2>7
<1> QED BY <1>3, <1>4 DEF CallsOf

-----------------------------------------------------------------------------
\* Where an import is.
LEMMA UpIn ==
    ASSUME NEW t, IsTree(t), NEW i \in DOMAIN t, t[i].up # 0
    PROVE  t[i].up \in DOMAIN t
BY TreeNode

\* A require() is bound at a node of the tree.
LEMMA RequireAt ==
    ASSUME NEW t, IsTree(t), NEW i \in DOMAIN t, NEW imp \in RequireImports(t, i)
    PROVE  imp.pos \in DOMAIN t
<1> DEFINE p == t[i].up
           o == t[p].up
<1>1. FieldOf(t, i, "variable_declarator", "value") \/ FieldOf(t, i, "assignment_expression", "right")
      \/ FieldOf(t, i, "member_expression", "object") \/ FieldOf(t, i, "call", "function") => p \in DOMAIN t
  BY UpIn DEF FieldOf
<1>2. /\ p \in DOMAIN t
      /\ FieldOf(t, p, "variable_declarator", "value") \/ FieldOf(t, p, "call", "function")
      => o \in DOMAIN t
  BY UpIn DEF FieldOf
<1> HIDE DEF p, o
<1>3. CASE imp = ComputedRequire(t, i)
  BY <1>3 DEF ComputedRequire, Import
<1>4. CASE FieldOf(t, i, "variable_declarator", "value") /\ imp \in BoundRequire(t, i)
  BY <1>1, <1>4 DEF BoundRequire, Import, Escaped, Escaping, p
<1>5. CASE /\ FieldOf(t, i, "assignment_expression", "right")
           /\ imp = [Import(t[i].name, "cjs_require", t[p].name, "*", p) EXCEPT !.assigned = TRUE]
  BY <1>1, <1>5 DEF Import
<1>6. CASE FieldOf(t, i, "member_expression", "object") /\ imp \in MemberRequire(t, i)
  BY <1>1, <1>2, <1>6 DEF MemberRequire, Import, Inline, Unbound, p, o
<1>7. CASE imp \in {Inline(t, i, "default", p), Unbound(t, i), Escaped(t, i)}
  BY <1>7 DEF Inline, Unbound, Escaped, Escaping, Import
<1>8. \/ imp = ComputedRequire(t, i)
      \/ FieldOf(t, i, "variable_declarator", "value") /\ imp \in BoundRequire(t, i)
      \/ /\ FieldOf(t, i, "assignment_expression", "right")
         /\ imp = [Import(t[i].name, "cjs_require", t[p].name, "*", p) EXCEPT !.assigned = TRUE]
      \/ FieldOf(t, i, "member_expression", "object") /\ imp \in MemberRequire(t, i)
      \/ imp \in {Inline(t, i, "default", p), Unbound(t, i), Escaped(t, i)}
  <2>1. CASE t[i].name = Computed
    BY <2>1 DEF RequireImports
  <2>2. CASE t[i].name # Computed
    BY <2>2 DEF RequireImports, p
  <2> QED BY <2>1, <2>2
<1> QED BY <1>3, <1>4, <1>5, <1>6, <1>7, <1>8

\* An import of a file before it is marked.
Unmarked(t) ==
    EsmImports(t) \cup ImportEquals(t) \cup Reexports(t)
    \cup (UNION {RequireImports(t, i) : i \in OfKind(t, {"require"})})
    \cup (UNION {DynamicImports(t, i) : i \in OfKind(t, {"import"})})

\* markCopiedImports changes nothing but the use of an import.
LEMMA MarkedFrom ==
    ASSUME NEW t, NEW imp \in ImportsOf(t)
    PROVE  \E raw \in Unmarked(t) : imp = raw \/ imp = Escaping(raw, Untracked)
<1> DEFINE copied == CopiedNames(t)
<1>1. ImportsOf(t) = MarkCopied(Unmarked(t), copied)
  BY Zenon DEF ImportsOf, Unmarked
<1> HIDE DEF copied
<1> QED BY <1>1 DEF MarkCopied

\* The pairs of a pattern are names of it.
Taking(T, binds, n) ==
    T = [k \in 0 .. n |-> IF k = 0 THEN <<>>
                          ELSE IF binds[k].form = "pair" THEN Append(T[k - 1], binds[k]) ELSE T[k - 1]]

\* There is such a function for every pattern.
LEMMA TakingExists ==
    ASSUME NEW binds, NEW length \in Nat
    PROVE  \E T : Taking(T, binds, length)
<1> DEFINE Missing == {n \in Nat : ~\E T : Taking(T, binds, n)}
<1> SUFFICES ASSUME Missing # {} PROVE FALSE
  OBVIOUS
<1>1. PICK n \in Missing : \A m \in Missing : n <= m
  BY LeastNatural
<1>2. n # 0
  <2> DEFINE T == [k \in 0 .. 0 |-> <<>>]
  <2>1. T = [k \in 0 .. 0 |-> IF k = 0 THEN <<>>
                          ELSE IF binds[k].form = "pair" THEN Append(T[k - 1], binds[k]) ELSE T[k - 1]]
    OBVIOUS
  <2> HIDE DEF T
  <2>2. Taking(T, binds, 0)
    BY <2>1 DEF Taking
  <2> QED BY <2>2
<1>3. n - 1 \in Nat /\ n - 1 \notin Missing
  BY <1>1, <1>2
<1>4. PICK C : Taking(C, binds, n - 1)
  BY <1>3
<1> DEFINE step(k, U) == IF k = 0 THEN <<>>
                         ELSE IF binds[k].form = "pair" THEN Append(U[k - 1], binds[k]) ELSE U[k - 1]
           T == [k \in 0 .. n |-> step(k, C)]
<1>5. \A k \in 0 .. n - 1 : C[k] = step(k, C)
  BY <1>3, <1>4 DEF Taking
<1>6. \A k \in 0 .. n - 1 : T[k] = C[k]
  BY <1>1, <1>5
<1>7. T = [k \in 0 .. n |-> step(k, T)]
  <2>1. \A k \in 0 .. n : step(k, C) = step(k, T)
    <3> SUFFICES ASSUME NEW k \in 0 .. n, k # 0 PROVE C[k - 1] = T[k - 1]
      OBVIOUS
    <3>1. n \in Nat /\ k - 1 \in 0 .. n - 1
      BY <1>1
    <3> HIDE DEF T
    <3> QED BY <3>1, <1>6
  <2> HIDE DEF step
  <2> QED BY <2>1
<1> HIDE DEF T
<1>8. Taking(T, binds, n)
  BY <1>7 DEF Taking
<1> QED BY <1>1, <1>8

\* So every pair is a name of its pattern.
LEMMA PairsAreNames ==
    ASSUME NEW binds, Len(binds) \in Nat, DOMAIN binds = 1 .. Len(binds), NEW k \in DOMAIN Pairs(binds)
    PROVE  Pairs(binds)[k].local \in Locals(binds)
<1> DEFINE N == Len(binds)
           S == {binds[j] : j \in DOMAIN binds}
           T == CHOOSE C : Taking(C, binds, N)
<1>1. Taking(T, binds, N)
  BY TakingExists
<1>2. Pairs(binds) = T[N]
  BY DEF Pairs, Taking
<1> HIDE DEF T
<1> DEFINE Bad == {n \in 0 .. N : T[n] \notin Seq(S)}
<1>3. Bad = {}
  <2> SUFFICES ASSUME Bad # {} PROVE FALSE
    OBVIOUS
  <2>1. PICK n \in Bad : \A m \in Bad : n <= m
    <3>1. Bad \in SUBSET Nat
      OBVIOUS
    <3> HIDE DEF Bad
    <3> QED BY <3>1, LeastNatural
  <2>2. T[n] = IF n = 0 THEN <<>> ELSE IF binds[n].form = "pair" THEN Append(T[n - 1], binds[n]) ELSE T[n - 1]
    BY <1>1, <2>1 DEF Taking
  <2>3. n \in 0 .. N /\ T[n] \notin Seq(S)
    BY <2>1
  <2>4. n # 0
    <3> HIDE DEF S
    <3> QED BY <2>2, <2>3
  <2>5. n - 1 \in 0 .. N /\ T[n - 1] \in Seq(S)
    BY <2>1, <2>3, <2>4
  <2>6. binds[n] \in S
    BY <2>3, <2>4
  <2> HIDE DEF S
  <2>7. Append(T[n - 1], binds[n]) \in Seq(S)
    BY <2>5, <2>6
  <2> QED BY <2>2, <2>3, <2>4, <2>5, <2>7
<1>4. T[N] \in Seq(S)
  BY <1>3
<1>5. Pairs(binds)[k] \in S
  <2> HIDE DEF S
  <2> QED BY <1>2, <1>4
<1> QED BY <1>5 DEF Locals

-----------------------------------------------------------------------------
\* The forms of an import that binds a name.
Declarator(t, d, x) == d \in DOMAIN t /\ t[d].kind = "variable_declarator" /\ x \in Locals(t[d].binds)
Clause(t, imp) ==
    /\ imp.pos \in DOMAIN t /\ t[imp.pos].kind \in {"import_statement", "import_require_clause"}
    /\ imp.local \in Locals(t[imp.pos].binds)
\* A declarator whose value is not an import().
Loaded(t, imp) == \E v \in Field(t, imp.pos, "value") : t[v].kind \notin {"import", "await_expression"}
\* A declarator that awaits an import().
Dynamic(t, imp) ==
    /\ imp.pos \in OfKind(t, {"import"})
    /\ \E raw \in DynamicImports(t, imp.pos) : raw.kind = "dynamic_static_literal" /\ raw.local = imp.local
    /\ \E v \in DOMAIN t : /\ t[imp.pos].up = v /\ t[v].kind = "await_expression"
                           /\ FieldOf(t, v, "variable_declarator", "value")
                           /\ Declarator(t, t[v].up, imp.local)
\* One of the forms.
Binding(t, imp) ==
    \/ imp.local = NoName \/ imp.specifier = Computed \/ imp.assigned \/ Clause(t, imp)
    \/ Declarator(t, imp.pos, imp.local) /\ Loaded(t, imp)
    \/ Dynamic(t, imp)

\* The clauses of import and export statements.
LEMMA ClauseForms ==
    ASSUME NEW t, ReadsAsJavaScript(t), NEW imp \in EsmImports(t) \cup ImportEquals(t) \cup Reexports(t)
    PROVE  Binding(t, imp) /\ imp.pos \in DOMAIN t
<1>1. IsTree(t) /\ IsJavaScript(t)
  BY DEF ReadsAsJavaScript, IsJavaScript
<1>2. CASE imp \in EsmImports(t)
  <2>1. PICK i \in OfKind(t, {"import_statement"}) :
            \/ imp = Import(t[i].name, "esm_side_effect", NoName, "*", i)
            \/ \E k \in DOMAIN t[i].binds :
                  imp = Import(t[i].name, IF t[i].mode = "type" THEN "esm_type_only" ELSE t[i].binds[k].form,
                               t[i].binds[k].local, t[i].binds[k].key, i)
    BY <1>2 DEF EsmImports
  <2> QED BY <2>1 DEF Import, OfKind, Binding, Clause, Locals
<1>3. CASE imp \in ImportEquals(t)
  <2>1. PICK i \in OfKind(t, {"import_require_clause"}) :
            imp.local = TheName(t[i].binds) /\ imp.pos = i
    BY <1>3 DEF ImportEquals, Import
  <2>2. i \in DOMAIN t /\ TheName(t[i].binds) \in Locals(t[i].binds)
    BY <1>1, NameIsLocal DEF IsJavaScript, OfKind
  <2> QED BY <2>1, <2>2 DEF OfKind, Binding, Clause
<1>4. CASE imp \in Reexports(t)
  <2> DEFINE entry(i, b) == IF t[i].mode = "type" \/ b.form = "esm_type_only"
                            THEN Import(t[i].name, "esm_type_only", NoName, b.key, i)
                            ELSE Escaping(Import(t[i].name, "esm_reexport", NoName, b.key, i), Reexported)
  <2>0. \E i \in OfKind(t, {"export_statement"}) : \E b : imp = entry(i, b)
    BY <1>4 DEF Reexports, OfKind
  <2>1. imp.local = NoName /\ imp.pos \in DOMAIN t
    BY <2>0 DEF Import, Escaping, OfKind
  <2> QED BY <2>1 DEF Binding
<1> QED BY <1>2, <1>3, <1>4

\* The forms of require().
LEMMA RequireForms ==
    ASSUME NEW t, ReadsAsJavaScript(t), NEW i \in OfKind(t, {"require"}), NEW imp \in RequireImports(t, i)
    PROVE  Binding(t, imp)
<1> DEFINE p == t[i].up
           o == t[p].up
<1>1. IsTree(t) /\ IsJavaScript(t) /\ i \in DOMAIN t /\ t[i].kind = "require"
  BY DEF ReadsAsJavaScript, IsJavaScript, OfKind
<1>2. ASSUME FieldOf(t, i, "variable_declarator", "value")
      PROVE  p \in DOMAIN t /\ t[p].kind = "variable_declarator" /\ i \in Field(t, p, "value")
  BY <1>1, <1>2, UpIn DEF FieldOf, Field, Children
<1>3. ASSUME FieldOf(t, i, "member_expression", "object"), FieldOf(t, p, "variable_declarator", "value")
      PROVE  /\ o \in DOMAIN t /\ t[o].kind = "variable_declarator" /\ p \in Field(t, o, "value")
             /\ t[p].kind = "member_expression"
  <2>1. p \in DOMAIN t
    BY <1>1, <1>3, UpIn DEF FieldOf
  <2> QED BY <1>1, <1>3, <2>1, UpIn DEF FieldOf, Field, Children
<1> HIDE DEF p, o
<1>4. CASE imp = ComputedRequire(t, i)
  BY <1>4 DEF ComputedRequire, Import, Binding
<1>5. CASE FieldOf(t, i, "variable_declarator", "value") /\ imp \in BoundRequire(t, i)
  <2>1. CASE IsName(t[p].binds)
    <3>1. imp.local = TheName(t[p].binds) /\ imp.pos = p
      BY <1>5, <2>1 DEF BoundRequire, Import, p
    <3> QED BY <1>1, <1>2, <1>5, <2>1, <3>1, NameIsLocal DEF Binding, Declarator, Loaded
  <2>2. CASE ~IsName(t[p].binds)
    <3>1. \/ imp = Escaped(t, i)
          \/ \E k \in DOMAIN Pairs(t[p].binds) : imp.local = Pairs(t[p].binds)[k].local /\ imp.pos = p
      BY <1>5, <2>2 DEF BoundRequire, Import, p
    <3>2. CASE imp = Escaped(t, i)
      BY <3>2 DEF Escaped, Escaping, Import, Binding
    <3>3. CASE \E k \in DOMAIN Pairs(t[p].binds) : imp.local = Pairs(t[p].binds)[k].local /\ imp.pos = p
      <4>1. Len(t[p].binds) \in Nat /\ DOMAIN t[p].binds = 1 .. Len(t[p].binds)
        BY <1>1, <1>2, <1>5 DEF IsTree
      <4>2. imp.local \in Locals(t[p].binds)
        BY <3>3, <4>1, PairsAreNames
      <4> QED BY <1>1, <1>2, <1>5, <3>3, <4>2 DEF Binding, Declarator, Loaded
    <3> QED BY <3>1, <3>2, <3>3
  <2> QED BY <2>1, <2>2
<1>6. CASE imp = [Import(t[i].name, "cjs_require", t[p].name, "*", p) EXCEPT !.assigned = TRUE]
  BY <1>6 DEF Import, Binding
<1>7. CASE FieldOf(t, i, "member_expression", "object") /\ imp \in MemberRequire(t, i)
  <2>1. \/ /\ FieldOf(t, p, "variable_declarator", "value") /\ IsName(t[o].binds)
           /\ imp.local = TheName(t[o].binds) /\ imp.pos = o
        \/ imp.local = NoName
    BY <1>7 DEF MemberRequire, Import, Inline, Unbound, p, o
  <2>2. CASE imp.local = NoName
    BY <2>2 DEF Binding
  <2>3. CASE /\ FieldOf(t, p, "variable_declarator", "value") /\ IsName(t[o].binds)
             /\ imp.local = TheName(t[o].binds) /\ imp.pos = o
    BY <1>1, <1>3, <1>7, <2>3, NameIsLocal DEF Binding, Declarator, Loaded
  <2> QED BY <2>1, <2>2, <2>3
<1>8. CASE imp \in {Inline(t, i, "default", p), Unbound(t, i), Escaped(t, i)}
  BY <1>8 DEF Inline, Unbound, Escaped, Escaping, Import, Binding
<1>9. \/ imp = ComputedRequire(t, i)
      \/ FieldOf(t, i, "variable_declarator", "value") /\ imp \in BoundRequire(t, i)
      \/ imp = [Import(t[i].name, "cjs_require", t[p].name, "*", p) EXCEPT !.assigned = TRUE]
      \/ FieldOf(t, i, "member_expression", "object") /\ imp \in MemberRequire(t, i)
      \/ imp \in {Inline(t, i, "default", p), Unbound(t, i), Escaped(t, i)}
  <2>1. CASE t[i].name = Computed
    BY <2>1 DEF RequireImports
  <2>2. CASE t[i].name # Computed
    BY <2>2 DEF RequireImports, p
  <2> QED BY <2>1, <2>2
<1> QED BY <1>4, <1>5, <1>6, <1>7, <1>8, <1>9

\* The forms of import().
LEMMA DynamicForms ==
    ASSUME NEW t, ReadsAsJavaScript(t), NEW i \in OfKind(t, {"import"}), NEW imp \in DynamicImports(t, i)
    PROVE  Binding(t, imp) /\ imp.pos = i
<1> DEFINE v == HeldBy(t, i)
           d == t[v].up
           p == t[d]
           bound == DynamicBindings(t, i)
           computed == t[i].name = Computed
           kept == IF computed /\ ~IsName(bound.names) THEN <<>> ELSE bound.names
           names == IF kept = <<>> THEN Whole(NoName) ELSE kept
<1>1. IsTree(t) /\ IsJavaScript(t) /\ i \in DOMAIN t /\ t[i].kind = "import"
  BY DEF ReadsAsJavaScript, IsJavaScript, OfKind
<1>2. PICK k \in DOMAIN names :
         /\ imp.specifier = t[i].name /\ imp.local = names[k].local /\ imp.pos = i
         /\ imp.kind = IF computed THEN "dynamic_computed" ELSE "dynamic_static_literal"
         /\ imp.assigned = (bound.assigned /\ kept # <<>>)
  BY DEF DynamicImports, Import
<1>3. CASE computed
  BY <1>2, <1>3 DEF Binding
<1>4. CASE ~computed /\ bound.names = <<>>
  <2>1. names = Whole(NoName)
    BY <1>4
  <2>2. imp.local = NoName
    BY <1>2, <2>1 DEF Whole, Bind
  <2> QED BY <1>2, <2>2 DEF Binding
<1>5. CASE ~computed /\ bound.names # <<>>
  <2>1. names = bound.names /\ imp.assigned = (bound.assigned /\ TRUE)
    BY <1>2, <1>5
  <2>2. \/ /\ Awaited(t, i) /\ FieldOf(t, v, "variable_declarator", "value")
           /\ bound.names = IF IsName(p.binds) THEN p.binds ELSE Pairs(p.binds)
        \/ bound.assigned = TRUE
    <3> HIDE DEF v
    <3>1. DynamicBindings(t, i) =
       IF p.kind = "expression_statement" THEN [names |-> <<>>, assigned |-> FALSE, use |-> NoUse]
       ELSE IF Awaited(t, i) /\ FieldOf(t, v, "variable_declarator", "value")
             THEN IF IsName(p.binds) THEN [names |-> p.binds, assigned |-> FALSE, use |-> NoUse]
                  ELSE [names |-> Pairs(p.binds), assigned |-> FALSE,
                        use |-> IF Len(Pairs(p.binds)) = Len(p.binds) THEN NoUse ELSE Untracked]
        ELSE IF Awaited(t, i) /\ FieldOf(t, v, "assignment_expression", "right") /\ p.mode = "identifier"
             THEN [names |-> Whole(p.name), assigned |-> TRUE, use |-> NoUse]
        ELSE [names |-> <<>>, assigned |-> FALSE, use |-> Untracked]
      BY Zenon DEF DynamicBindings, v
    <3> HIDE DEF p, d
    <3> QED BY <1>5, <3>1
  <2>3. CASE bound.assigned = TRUE
    BY <1>2, <2>1, <2>3 DEF Binding
  <2>4. CASE /\ Awaited(t, i) /\ FieldOf(t, v, "variable_declarator", "value")
             /\ bound.names = IF IsName(p.binds) THEN p.binds ELSE Pairs(p.binds)
    <3>1. v = t[i].up /\ t[v].kind = "await_expression"
      BY <2>4 DEF HeldBy, Awaited
    <3>2. t[1].kind = "program"
      BY <1>1 DEF IsJavaScript, OfKind
    <3>3. t[i].up # 0
      <4>1. i \in Nat /\ 1 <= i /\ i <= t[1].last /\ 1 \in DOMAIN t /\ i # 1
        BY <1>1, <3>2, TreeNode
      <4>2. 1 < i
        BY <4>1
      <4>3. 1 <= t[i].up
        BY <1>1, <4>1, <4>2, TreeUnder
      <4> QED BY <4>3
    <3>4. v \in DOMAIN t
      BY <1>1, <3>1, <3>3, UpIn
    <3> HIDE DEF v
    <3>5. d # 0 /\ t[d].kind = "variable_declarator"
      BY <2>4 DEF FieldOf
    <3>6. d \in DOMAIN t
      BY <1>1, <3>4, <3>5, UpIn
    <3>7. Len(p.binds) \in Nat /\ DOMAIN p.binds = 1 .. Len(p.binds)
      BY <1>1, <3>6 DEF IsTree
    <3> HIDE DEF bound
    <3>8. k \in DOMAIN bound.names /\ imp.local = bound.names[k].local
      BY <1>2, <2>1
    <3>9. imp.local \in Locals(p.binds)
      <4>1. CASE IsName(p.binds)
        BY <2>4, <3>8, <4>1 DEF Locals
      <4>2. CASE ~IsName(p.binds)
        BY <2>4, <3>7, <3>8, <4>2, PairsAreNames
      <4> QED BY <4>1, <4>2
    <3>10. Declarator(t, d, imp.local)
      BY <3>5, <3>6, <3>9 DEF Declarator
    <3>11. imp.pos \in OfKind(t, {"import"}) /\ imp.kind = "dynamic_static_literal"
      BY <1>2, <1>5
    <3>12. Dynamic(t, imp)
      <4>1. imp \in DynamicImports(t, imp.pos) /\ t[imp.pos].up = v
        BY <1>2, <3>1
      <4> HIDE DEF bound, names, computed
      <4> QED BY <2>4, <3>1, <3>4, <3>10, <3>11, <4>1 DEF Dynamic
    <3> QED BY <1>2, <3>12 DEF Binding
  <2> QED BY <2>2, <2>3, <2>4
<1> QED BY <1>2, <1>3, <1>4, <1>5

\* Every import of a file takes one of these forms.
LEMMA ImportForms ==
    ASSUME NEW t, ReadsAsJavaScript(t), NEW imp \in ImportsOf(t)
    PROVE  Binding(t, imp) /\ imp.pos \in DOMAIN t
<1>1. IsTree(t)
  BY DEF ReadsAsJavaScript, IsJavaScript
<1>2. PICK raw \in Unmarked(t) : imp = raw \/ imp = Escaping(raw, Untracked)
  BY MarkedFrom
<1>3. Binding(t, raw) /\ raw.pos \in DOMAIN t
  <2>1. CASE raw \in EsmImports(t) \cup ImportEquals(t) \cup Reexports(t)
    BY <2>1, ClauseForms
  <2>2. CASE \E i \in OfKind(t, {"require"}) : raw \in RequireImports(t, i)
    BY <1>1, <2>2, RequireForms, RequireAt DEF OfKind
  <2>3. CASE \E i \in OfKind(t, {"import"}) : raw \in DynamicImports(t, i)
    BY <2>3, DynamicForms DEF OfKind
  <2> QED BY <1>2, <2>1, <2>2, <2>3 DEF Unmarked
<1>4. CASE imp = raw
  BY <1>3, <1>4
<1>5. CASE imp = Escaping(raw, Untracked)
  <2>1. imp.pos = raw.pos /\ imp.local = raw.local /\ imp.specifier = raw.specifier /\ imp.assigned = raw.assigned
    BY <1>5 DEF Escaping
  <2>2. (Clause(t, raw) => Clause(t, imp)) /\ (Loaded(t, raw) => Loaded(t, imp)) /\ (Dynamic(t, raw) => Dynamic(t, imp))
    BY <2>1 DEF Clause, Loaded, Dynamic
  <2> QED BY <1>3, <2>1, <2>2 DEF Binding
<1> QED BY <1>2, <1>4, <1>5

-----------------------------------------------------------------------------
(* The edges of the graph.                                                  *)

\* The node of a function of the graph is the node of its syntax.
LEMMA NodeIs ==
    ASSUME NEW file, ReadsAsJavaScript(TreeOf(file)), ReadFrom(TreeOf(file), results[file]),
           NEW f \in GraphFunctions(results[file])
    PROVE  NodeOf(FunctionId(file, f)) = f.node
<1> DEFINE r == results[file]
           id == FunctionId(file, f)
           h == CHOOSE h \in GraphFunctions(r) : h.name = id.name /\ h.pos = id.pos
<1>1. id.file = file /\ id.name = f.name /\ id.pos = f.pos
  BY DEF FunctionId
<1>2. f.name # ModuleName
  BY GraphFunctionIs DEF Tracked
<1> HIDE DEF id
<1>3. h \in GraphFunctions(r) /\ h.pos = f.pos
  BY <1>1
<1>4. NodeOf(id) = h.node
  BY <1>1, <1>2 DEF NodeOf
<1> HIDE DEF h
<1> QED BY <1>3, <1>4, OneNode DEF id

\* The candidates of a call that are functions of its file.
LEMMA LocalCandidate ==
    ASSUME NEW file, NEW c, c.receiver = NoName,
           NEW f \in GraphFunctions(results[file]), f.name = c.callee, VisibleAt(results[file], f, c.pos)
    PROVE  FunctionId(file, f) \in Candidates(app, results, file, c)
BY DEF Candidates

\* In plain code no name is that of a variable the graph sees past.
LEMMA PlainShows ==
    ASSUME NEW file, Plain(file), IsJavaScript(TreeOf(file)), NEW pos \in DOMAIN TreeOf(file), NEW x
    PROVE  ~Hidden(TreeOf(file), x, pos)
<1> DEFINE t == TreeOf(file)
           v == VariableAt(t, x, pos)
<1>1. \A d \in DOMAIN t : DeclaredNames(t, d) # {} => ~Overlooked(t, Home(t, d))
  BY DEF Plain
<1>2. \A d \in OfKind(t, {"variable_declarator"}) : DeclaresDynamicImport(t, d) => Home(t, d) = 1
  BY DEF Plain
<1>3. v = 0 \/ v \in Homes(t, x)
  BY VariableIs
<1> HIDE DEF t
<1>4. ~Overlooked(t, v)
  <2>1. CASE v = 0
    BY <2>1 DEF Overlooked
  <2>2. CASE v \in Homes(t, x)
    BY <1>1, <2>2 DEF Homes
  <2> QED BY <1>3, <2>1, <2>2
<1>5. ~HeldByLoad(t, x, v)
  BY <1>2 DEF HeldByLoad
<1> QED BY <1>4, <1>5 DEF Hidden, t

\* A variable a function is called by is declared by a node of the file.
LEMMA CalledByIs ==
    ASSUME NEW t, IsJavaScript(t), NEW i \in DOMAIN t, t[i].kind \in Analysed,
           NEW b \in CalledBy(t, i), b[1] # NoName
    PROVE  \E d \in DOMAIN t : b[1] \in DeclaredNames(t, d) /\ b[2] = Home(t, d)
<1>1. IsTree(t)
  BY DEF IsJavaScript
<1>2. CASE t[i].kind # "arrow_function" /\ b = <<t[i].name, Home(t, i)>>
  <2>1. t[i].name \in DeclaredNames(t, i)
    BY <1>2 DEF DeclaredNames, Analysed
  <2> QED BY <1>2, <2>1
<1>3. CASE /\ FieldOf(t, i, "variable_declarator", "value") /\ IsName(t[t[i].up].binds)
           /\ b = <<TheName(t[t[i].up].binds), Home(t, t[i].up)>>
  <2> DEFINE d == t[i].up
  <2>1. d \in DOMAIN t /\ t[d].kind = "variable_declarator"
    BY <1>1, <1>3, UpIn DEF FieldOf
  <2>2. TheName(t[d].binds) \in Locals(t[d].binds)
    BY <1>1, <1>3, <2>1, NameIsLocal
  <2>3. t[d].mode # "assigned"
    BY <2>1 DEF IsJavaScript
  <2> HIDE DEF d
  <2>4. TheName(t[d].binds) \in DeclaredNames(t, d)
    BY <2>1, <2>2, <2>3 DEF DeclaredNames
  <2> QED BY <1>3, <2>1, <2>4 DEF d
<1> QED BY <1>2, <1>3 DEF CalledBy

\* In plain code no call is confused with a function of its file,
LEMMA PlainLocal ==
    ASSUME NEW file, ReadsAsJavaScript(TreeOf(file)), ReadFrom(TreeOf(file), results[file]), Plain(file),
           NEW c \in results[file].calls, c.callee # NoCallee,
           NEW f \in GraphFunctions(results[file]), NEW g, g = FunctionId(file, f)
    PROVE  ~ConfusesLocal(file, c, g)
<1> DEFINE t == TreeOf(file)
           n == f.node
<1> SUFFICES ASSUME CallsByName(file, c, g), NEW b \in CalledBy(t, NodeOf(g)), b[1] = c.callee,
                    Hidden(t, c.callee, c.pos) \/ OutOfScope(t, b, NodeOf(g), c.pos)
             PROVE  FALSE
  BY DEF ConfusesLocal
<1>0. c \in CallsOf(t) /\ IsJavaScript(t)
  BY DEF ReadFrom, ReadsAsJavaScript
<1>1. IsJavaScript(t) /\ IsTree(t) /\ c.pos \in DOMAIN t /\ t[c.pos].kind \in Calls
  <2>1. c.pos \in DOMAIN t /\ t[c.pos].kind \in Calls
    BY <1>0, CallIs
  <2> QED BY <1>0, <2>1 DEF IsJavaScript
<1>2. c.callee \notin {NoName, Synthetic} /\ f.name = c.callee
  BY CallIs DEF ReadFrom, BindingOf, CallsByName, FunctionId
<1>3. NodeOf(g) = n /\ n \in DOMAIN t /\ t[n].kind \in Analysed
  BY NodeIs, GraphFunctionIs DEF Tracked
<1>4. ~Hidden(t, c.callee, c.pos)
  BY <1>1, PlainShows
<1>5. OutOfScope(t, b, n, c.pos)
  BY <1>3, <1>4
<1> DEFINE s == b[2]
<1>6. PICK d \in DOMAIN t : b[1] \in DeclaredNames(t, d) /\ s = Home(t, d)
  BY <1>1, <1>2, <1>3, CalledByIs
<1>7. ~Overlooked(t, s)
  BY <1>6 DEF Plain
<1>8. t[n].kind # "function_expression"
  <2>1. t[n].kind = "function_expression" => t[n].name = f.name
    <3>1. /\ f.name \in DeclaredNames(t, f.pos)
          /\ \/ f.node = f.pos
             \/ f.node = f.pos + 1 /\ t[f.pos + 1].kind = "arrow_function"
      BY <1>2, NamedBy
    <3> QED BY <3>1 DEF DeclaredNames
  <2>2. t[n].kind = "function_expression" => t[n].name = NoName
    BY <1>3 DEF Plain, OfKind
  <2> QED BY <1>2, <2>1, <2>2
<1>9. /\ ~Spans(t, s, c.pos) /\ t[s].role = "body" /\ t[t[s].up].kind \in JsFunctions
      /\ Spans(t, t[s].up, c.pos)
  BY <1>5, <1>7, <1>8 DEF OutOfScope
<1>10. s \in DOMAIN t
  BY <1>1, <1>6, HomeIn, DeclaringKinds
<1> HIDE DEF s, t
<1>11. t[s].up \in DOMAIN t
  <2>1. s # 1
    BY <1>1, <1>9, TreeNode DEF Spans
  <2>2. 1 < s /\ s <= t[1].last /\ 1 \in DOMAIN t
    BY <1>1, <1>10, <2>1, TreeNode
  <2>3. 1 <= t[s].up
    BY <1>1, <1>10, <2>2, TreeUnder
  <2> QED BY <1>1, <1>10, <2>3, UpIn
<1>12. PICK e \in Field(t, t[s].up, "body") : Spans(t, e, c.pos)
  BY <1>1, <1>9, <1>11 DEF Plain, OfKind, t
<1>13. s \in Field(t, t[s].up, "body")
  BY <1>9, <1>10 DEF Field, Children
<1>14. e = s
  BY <1>1, <1>9, <1>11, <1>12, <1>13, BodyIs
<1> QED BY <1>9, <1>12, <1>14

\* nor with one of another file.
LEMMA PlainExport ==
    ASSUME NEW file, ReadsAsJavaScript(TreeOf(file)), Plain(file), NEW c, c.pos \in DOMAIN TreeOf(file), NEW g
    PROVE  ~ConfusesExport(file, c, g)
<1> DEFINE t == TreeOf(file)
<1> SUFFICES ASSUME NEW imp \in ImportsNaming(file, c, g),
                    \/ Holder(file, imp) > 1
                    \/ Hidden(t, imp.local, c.pos)
                    \/ FunctionReceiver(t, c)
             PROVE  FALSE
  BY DEF ConfusesExport
<1>1. imp \in results[file].imports /\ imp.local = BindingOf(c)
  BY DEF ImportsNaming
<1>2. /\ Holder(file, imp) \in {0, 1}
      /\ \A f \in OfKind(t, Told) : \A b \in CalledBy(t, f) : b[1] = imp.local => b[2] = 1
  BY <1>1 DEF Plain
<1>3. ~Hidden(t, imp.local, c.pos)
  BY PlainShows DEF ReadsAsJavaScript
<1>4. ~(Holder(file, imp) > 1)
  BY <1>2
<1>5. ~FunctionReceiver(t, c)
  BY <1>1, <1>2 DEF FunctionReceiver, BindingOf
<1> QED BY <1>3, <1>4, <1>5

\* The one candidate of a direct call, if it is a function of the file.
LEMMA LocalNamed ==
    ASSUME NEW file, ReadsAsJavaScript(TreeOf(file)), ReadFrom(TreeOf(file), results[file]),
           NEW c \in results[file].calls, c.callee # NoCallee, ~Shadowed(results[file], c),
           NEW g, Candidates(app, results, file, c) = {g},
           c.receiver = NoName,
           NEW f \in GraphFunctions(results[file]), f.name = c.callee,
           VisibleAt(results[file], f, c.pos), g = FunctionId(file, f)
    PROVE  NamesLocal(file, c, g) \/ ConfusesLocal(file, c, g)
<1> DEFINE t == TreeOf(file)
           r == results[file]
           x == c.callee
           v == VariableAt(t, x, c.pos)
           s == Home(t, f.pos)
<1>1. c.pos \in DOMAIN t /\ x \notin {NoName, Synthetic} /\ IsJavaScript(t)
  BY CallIs DEF ReadFrom, BindingOf, ReadsAsJavaScript
<1>2. Unshadowed(r, x, c.pos)
  BY DEF Shadowed, Unshadowed
<1>3. g.name = x /\ g.file = file /\ NodeOf(g) = f.node
  BY NodeIs DEF FunctionId
<1> HIDE DEF t, r
<1>4. v \in {0, 1} \/ Hidden(t, x, c.pos) \/ Known(t, r, x, v, c.pos)
  BY <1>1, <1>2, NameKnown DEF t, r
<1>5. /\ <<x, s>> \in CalledBy(t, f.node) /\ s \in Homes(t, x)
      /\ Spans(t, s, c.pos) \/ OutOfScope(t, <<x, s>>, f.node, c.pos)
  BY <1>1, <1>2, SeenOutOfScope DEF t, r
<1>6. CallsByName(file, c, g)
  BY <1>3 DEF CallsByName
<1> HIDE DEF s, v
<1>7. CASE OutOfScope(t, <<x, s>>, f.node, c.pos)
  BY <1>3, <1>5, <1>6, <1>7 DEF ConfusesLocal, t
<1>8. CASE Known(t, r, x, v, c.pos)
  <2>1. PICK h \in GraphFunctions(r) : /\ h.name = x /\ VisibleAt(r, h, c.pos)
                                       /\ <<x, v>> \in CalledBy(t, h.node)
    BY <1>8 DEF Known
  <2>2. FunctionId(file, h) = g
    BY <2>1, LocalCandidate DEF r
  <2>3. NodeOf(g) = h.node
    BY <2>1, <2>2, NodeIs DEF r
  <2> QED BY <1>6, <2>1, <2>3 DEF NamesLocal, t, v
<1>9. CASE Spans(t, s, c.pos) /\ Hidden(t, x, c.pos)
  BY <1>3, <1>5, <1>6, <1>9 DEF ConfusesLocal, t
<1>10. CASE Spans(t, s, c.pos) /\ v \in {0, 1}
  <2>1. v # 0 /\ s <= v /\ s \in DOMAIN t
    BY <1>1, <1>5, <1>10, VariableIs DEF v
  <2>2. s \in Nat /\ 1 <= s
    BY <1>1, <2>1, TreeNode DEF IsJavaScript
  <2>3. s = v
    BY <1>10, <2>1, <2>2
  <2> QED BY <1>3, <1>5, <1>6, <2>3 DEF NamesLocal, t, v
<1> QED BY <1>4, <1>5, <1>7, <1>8, <1>9, <1>10

\* Or an export an import of the file names.
LEMMA ExportNamed ==
    ASSUME NEW file, ReadsAsJavaScript(TreeOf(file)), ReadFrom(TreeOf(file), results[file]),
           NEW c \in results[file].calls, c.callee # NoCallee, ~Shadowed(results[file], c),
           NEW g, Candidates(app, results, file, c) = {g},
           NEW imp \in results[file].imports, imp.specifier # Computed,
           g.file \in ResolveFile(app, file, imp.specifier),
           NEW e \in results[g.file].exports, e[2] \in ExportCalled(imp, c), g = FunctionId(g.file, e[1])
    PROVE  Names(file, c, g) \/ ConfusesExport(file, c, g)
<1> DEFINE t == TreeOf(file)
           r == results[file]
           x == BindingOf(c)
           v == VariableAt(t, x, c.pos)
<1>1. c.pos \in DOMAIN t /\ x \notin {NoName, Synthetic}
  BY CallIs DEF ReadFrom
<1>2. Unshadowed(r, x, c.pos)
  BY DEF Shadowed, Unshadowed, BindingOf
<1>3. imp.local = x
  BY DEF ExportCalled, BindingOf
<1>4. imp.pos \in DOMAIN t
  BY ImportForms DEF ReadFrom
<1>5. imp \in ImportsNaming(file, c, g)
  BY <1>3 DEF ImportsNaming
<1>6. IsJavaScript(t)
  BY DEF ReadsAsJavaScript
<1>7. Holder(file, imp) = VariableAt(t, x, imp.pos)
  BY <1>3 DEF Holder
<1> HIDE DEF t, r, x
<1>8. v \in {0, 1} \/ Hidden(t, x, c.pos) \/ (v > 1 /\ Known(t, r, x, v, c.pos))
  BY <1>1, <1>2, NameKnown DEF t, r
<1>9. CASE Hidden(t, x, c.pos)
  BY <1>3, <1>5, <1>9 DEF ConfusesExport, t
<1>10. CASE v \in {0, 1}
  <2>1. \/ VariableAt(t, x, imp.pos) = v
        \/ VariableAt(t, x, imp.pos) > 1 /\ ~Spans(t, VariableAt(t, x, imp.pos), c.pos)
    BY <1>1, <1>4, <1>6, <1>10, HeldOutside
  <2>2. CASE VariableAt(t, x, imp.pos) = v
    BY <1>3, <1>5, <1>7, <2>2 DEF Names, NamesExport, t
  <2>3. CASE VariableAt(t, x, imp.pos) > 1 /\ ~Spans(t, VariableAt(t, x, imp.pos), c.pos)
    BY <1>5, <1>7, <2>3 DEF ConfusesExport, t
  <2> QED BY <2>1, <2>2, <2>3
<1>11. CASE v > 1 /\ Known(t, r, x, v, c.pos)
  <2>1. PICK h \in GraphFunctions(r) : /\ h.name = x /\ VisibleAt(r, h, c.pos)
                                       /\ <<x, v>> \in CalledBy(t, h.node) /\ t[h.node].kind \in Analysed
    BY <1>11 DEF Known
  <2>2. CASE c.receiver = NoName
    <3>1. x = c.callee
      BY <2>2 DEF x, BindingOf
    <3>2. FunctionId(file, h) = g
      BY <2>1, <2>2, <3>1, LocalCandidate DEF r
    <3>3. NodeOf(g) = h.node /\ g.file = file /\ g.name = x
      BY <2>1, <3>2, NodeIs DEF r, FunctionId
    <3> QED BY <2>1, <2>2, <3>1, <3>3 DEF Names, NamesLocal, CallsByName, t
  <2>3. CASE c.receiver # NoName
    <3>1. x = c.receiver
      BY <2>3 DEF x, BindingOf
    <3>2. h.node \in OfKind(t, Told)
      BY <2>1, GraphFunctionIs DEF Tracked, OfKind, Told, Untold, JsFunctions, Analysed, t, r
    <3>3. FunctionReceiver(t, c)
      BY <1>11, <2>1, <2>3, <3>1, <3>2 DEF FunctionReceiver
    <3> QED BY <1>5, <3>3 DEF ConfusesExport, t
  <2> QED BY <2>2, <2>3
<1> QED BY <1>8, <1>9, <1>10, <1>11

\* A call edge is a call that runs in its caller and means its callee, or, but in
\* plain code, is confused with one that does.
IsCall(f, g) ==
    \E c \in results[f.file].calls :
        /\ RunsIn(f, c.pos)
        /\ \/ Names(f.file, c, g)
           \/ ~Plain(f.file) /\ (ConfusesLocal(f.file, c, g) \/ ConfusesExport(f.file, c, g))

\* An edge of a file is a call of it.
LEMMA EdgeIsCall ==
    ASSUME NEW file, ReadsAsJavaScript(TreeOf(file)),
           ReadFrom(TreeOf(file), results[file]) \/ results[file].calls = {},
           NEW f, NEW g, <<f, g>> \in FileEdges(app, results, file)
    PROVE  IsCall(f, g)
<1> DEFINE r == results[file]
           t == TreeOf(file)
<1>1. PICK c \in r.calls : /\ c.callee # NoCallee /\ ~Shadowed(r, c)
                           /\ \E o \in CallOwner(r, c.pos), h \in Target(app, results, file, c) :
                                 <<f, g>> = <<FunctionId(file, o), h>>
  BY DEF FileEdges
<1>2. ReadFrom(t, r)
  BY <1>1
<1>3. PICK o \in CallOwner(r, c.pos) : f = FunctionId(file, o)
  BY <1>1
<1>4. Candidates(app, results, file, c) = {g}
  BY <1>1 DEF Target, Only
<1>5. f.file = file
  BY <1>3 DEF FunctionId
<1>6. c.pos \in DOMAIN t /\ t[c.pos].kind \in Calls
  BY <1>2, CallIs DEF ReadFrom
<1>7. RunsIn(f, c.pos)
  BY <1>2, <1>3, <1>6, OwnersRun
<1>8. \/ /\ c.receiver = NoName
         /\ \E h \in GraphFunctions(r) : /\ h.name = c.callee /\ VisibleAt(r, h, c.pos)
                                         /\ g = FunctionId(file, h)
      \/ \E imp \in r.imports :
            /\ imp.specifier # Computed
            /\ \E k \in ResolveFile(app, file, imp.specifier) :
                  \E e \in results[k].exports : e[2] \in ExportCalled(imp, c) /\ g = FunctionId(k, e[1])
  BY <1>4 DEF Candidates
<1> HIDE DEF r, t
<1>9. CASE /\ c.receiver = NoName
           /\ \E h \in GraphFunctions(r) : /\ h.name = c.callee /\ VisibleAt(r, h, c.pos)
                                           /\ g = FunctionId(file, h)
  <2>1. NamesLocal(file, c, g) \/ ConfusesLocal(file, c, g)
    BY <1>1, <1>2, <1>4, <1>9, LocalNamed DEF r, t
  <2>2. Plain(file) => ~ConfusesLocal(file, c, g)
    BY <1>1, <1>2, <1>9, PlainLocal DEF r, t
  <2> QED BY <1>1, <1>5, <1>7, <2>1, <2>2 DEF IsCall, Names, r
<1>10. CASE \E imp \in r.imports :
              /\ imp.specifier # Computed
              /\ \E k \in ResolveFile(app, file, imp.specifier) :
                    \E e \in results[k].exports : e[2] \in ExportCalled(imp, c) /\ g = FunctionId(k, e[1])
  <2>1. PICK imp \in r.imports :
              /\ imp.specifier # Computed
              /\ \E k \in ResolveFile(app, file, imp.specifier) :
                    \E e \in results[k].exports : e[2] \in ExportCalled(imp, c) /\ g = FunctionId(k, e[1])
    BY <1>10
  <2>2. PICK k \in ResolveFile(app, file, imp.specifier) :
                    \E e \in results[k].exports : e[2] \in ExportCalled(imp, c) /\ g = FunctionId(k, e[1])
    BY <2>1
  <2>3. g.file = k
    BY <2>2 DEF FunctionId
  <2>4. Names(file, c, g) \/ ConfusesExport(file, c, g)
    BY <1>1, <1>2, <1>4, <2>1, <2>2, <2>3, ExportNamed DEF r, t
  <2>5. Plain(file) => ~ConfusesExport(file, c, g)
    BY <1>6, PlainExport DEF t
  <2> QED BY <1>1, <1>5, <1>7, <2>4, <2>5 DEF IsCall, r
<1> QED BY <1>8, <1>9, <1>10

-----------------------------------------------------------------------------
(* The call sites.                                                          *)

\* The calls on an import itself are calls.
InlineCalls(t, imp) == \A c \in imp.inline : c.pos \in DOMAIN t /\ t[c.pos].kind = "call"

\* Those of a require().
LEMMA RequireInline ==
    ASSUME NEW t, IsTree(t), NEW i \in DOMAIN t, NEW imp \in RequireImports(t, i)
    PROVE  InlineCalls(t, imp)
<1> DEFINE p == t[i].up
           o == t[p].up
<1>1. ASSUME NEW j \in DOMAIN t, FieldOf(t, j, "call", "function")
      PROVE  t[j].up \in DOMAIN t /\ t[t[j].up].kind = "call"
  BY <1>1, UpIn DEF FieldOf
<1>2. ASSUME FieldOf(t, i, "member_expression", "object") PROVE p \in DOMAIN t
  BY <1>2, UpIn DEF FieldOf
<1>3. CASE imp.inline = {}
  BY <1>3 DEF InlineCalls
<1>4. CASE FieldOf(t, i, "call", "function") /\ imp = Inline(t, i, "default", p)
  BY <1>1, <1>4 DEF InlineCalls, Inline, Unbound, Import
<1>5. CASE /\ FieldOf(t, i, "member_expression", "object") /\ FieldOf(t, p, "call", "function")
           /\ imp = Inline(t, i, t[p].name, o)
  BY <1>1, <1>2, <1>5 DEF InlineCalls, Inline, Unbound, Import
<1> HIDE DEF p, o
<1>6. \A k \in {ComputedRequire(t, i), Unbound(t, i), Escaped(t, i),
                [Import(t[i].name, "cjs_require", t[p].name, "*", p) EXCEPT !.assigned = TRUE]} : k.inline = {}
  BY DEF ComputedRequire, Unbound, Escaped, Escaping, Import
<1>7. \A k \in BoundRequire(t, i) : k.inline = {}
  BY DEF BoundRequire, Escaped, Escaping, Import
<1>8. ASSUME FieldOf(t, i, "member_expression", "object"), imp \in MemberRequire(t, i)
      PROVE  imp.inline = {} \/ (FieldOf(t, p, "call", "function") /\ imp = Inline(t, i, t[p].name, o))
  BY <1>8 DEF MemberRequire, Import, p, o
<1>9. \/ imp \in {ComputedRequire(t, i), Unbound(t, i), Escaped(t, i),
                  [Import(t[i].name, "cjs_require", t[p].name, "*", p) EXCEPT !.assigned = TRUE]}
      \/ imp \in BoundRequire(t, i)
      \/ FieldOf(t, i, "member_expression", "object") /\ imp \in MemberRequire(t, i)
      \/ FieldOf(t, i, "call", "function") /\ imp = Inline(t, i, "default", p)
  <2>1. CASE t[i].name = Computed
    BY <2>1 DEF RequireImports
  <2>2. CASE t[i].name # Computed
    BY <2>2 DEF RequireImports, p
  <2> QED BY <2>1, <2>2
<1> QED BY <1>3, <1>4, <1>5, <1>6, <1>7, <1>8, <1>9

\* And of every import.
LEMMA InlineIsCall ==
    ASSUME NEW t, IsTree(t), NEW imp \in ImportsOf(t)
    PROVE  InlineCalls(t, imp)
<1>1. PICK raw \in Unmarked(t) : imp = raw \/ imp = Escaping(raw, Untracked)
  BY MarkedFrom
<1>2. InlineCalls(t, raw)
  <2>1. CASE raw \in EsmImports(t)
    <3>1. raw.inline = {}
      BY <2>1 DEF EsmImports, Import
    <3> QED BY <3>1 DEF InlineCalls
  <2>2. CASE raw \in ImportEquals(t)
    <3>1. raw.inline = {}
      BY <2>2 DEF ImportEquals, Import
    <3> QED BY <3>1 DEF InlineCalls
  <2>3. CASE raw \in Reexports(t)
    <3> DEFINE entry(i, b) == IF t[i].mode = "type" \/ b.form = "esm_type_only"
                              THEN Import(t[i].name, "esm_type_only", NoName, b.key, i)
                              ELSE Escaping(Import(t[i].name, "esm_reexport", NoName, b.key, i), Reexported)
    <3>1. \E i \in OfKind(t, {"export_statement"}) : \E b : raw = entry(i, b)
      BY <2>3 DEF Reexports, OfKind
    <3>2. raw.inline = {}
      BY <3>1 DEF Import, Escaping
    <3> QED BY <3>2 DEF InlineCalls
  <2>4. CASE \E i \in OfKind(t, {"require"}) : raw \in RequireImports(t, i)
    BY <2>4, RequireInline DEF OfKind
  <2>5. CASE \E i \in OfKind(t, {"import"}) : raw \in DynamicImports(t, i)
    <3>1. raw.inline = {}
      BY <2>5 DEF DynamicImports, Import
    <3> QED BY <3>1 DEF InlineCalls
  <2> QED BY <1>1, <2>1, <2>2, <2>3, <2>4, <2>5 DEF Unmarked
<1>3. ASSUME imp = Escaping(raw, Untracked) PROVE imp.inline = raw.inline
  BY <1>3 DEF Escaping
<1> QED BY <1>1, <1>2, <1>3 DEF InlineCalls

-----------------------------------------------------------------------------
\* What the stages leave: the extracted files, their call graph and, at the end,
\* the call sites.
Extracted ==
    /\ app \in Applications /\ stage \in {"extract", "graph", "search", "done"}
    /\ results = IF stage = "extract" THEN Empty
                 ELSE [file \in DOMAIN app.files |-> Extract(app.files[file])]
    /\ stage \in {"search", "done"} => edges = CallEdges(app, results)
    /\ sites = IF Done THEN CallSitesOf(app, results, paths, depth) ELSE {}

\* It holds before anything is read.
LEMMA ExtractedInit == Init => Extracted
BY DEF Init, Extracted, Done

\* And every step keeps it.
LEMMA ExtractedNext == Extracted /\ [Next]_vars => Extracted'
<1> SUFFICES ASSUME Extracted, [Next]_vars PROVE Extracted'
  OBVIOUS
<1>1. CASE ExtractFiles
  BY <1>1 DEF ExtractFiles, Extracted, Done
<1>2. CASE BuildGraph
  BY <1>2 DEF BuildGraph, Extracted, Done
<1>3. CASE \E f \in DOMAIN edges : Enter(f) \/ Follow(f)
  <2>1. UNCHANGED <<app, results, edges, sites, stage>> /\ stage = "search"
    BY <1>3 DEF Enter, Follow
  <2> QED BY <2>1 DEF Extracted, Done
<1>4. CASE Dequeue
  BY <1>4 DEF Dequeue, Extracted, Done
<1>5. CASE Observe
  BY <1>5 DEF Observe, Extracted, Done
<1>6. CASE UNCHANGED vars
  BY <1>6 DEF vars, Extracted, Done
<1> QED BY <1>1, <1>2, <1>3, <1>4, <1>5, <1>6 DEF Next

\* A file as its tree reads, or with a syntax error.
LEMMA FileIs ==
    ASSUME Extracted, NEW file \in DOMAIN results
    PROVE  /\ ReadsAsJavaScript(TreeOf(file)) /\ stage # "extract"
           /\ \/ ReadFrom(TreeOf(file), results[file])
              \/ results[file].calls = {} /\ results[file].imports = {}
<1>1. stage # "extract"
  BY DEF Extracted, Empty
<1>2. file \in DOMAIN app.files /\ results[file] = Extract(TreeOf(file))
  BY <1>1 DEF Extracted, TreeOf
<1>3. ReadsAsJavaScript(TreeOf(file))
  BY <1>2, SourceAssumption DEF Extracted, TreeOf
<1>4. \/ ReadFrom(TreeOf(file), Extract(TreeOf(file)))
      \/ Extract(TreeOf(file)).calls = {} /\ Extract(TreeOf(file)).imports = {}
  BY DEF Extract, ReadFrom
<1> QED BY <1>1, <1>2, <1>3, <1>4

\* Every edge of the call graph is a call.
LEMMA EdgesAreCalls ==
    ASSUME Extracted, NEW f \in DOMAIN edges, NEW g \in edges[f], stage \in {"search", "done"}
    PROVE  IsCall(f, g)
<1>1. edges = CallEdges(app, results)
  BY DEF Extracted
<1>2. <<f, g>> \in UNION {FileEdges(app, results, file) : file \in DOMAIN results}
  BY <1>1 DEF CallEdges, BuildCallGraph
<1>3. PICK file \in DOMAIN results : <<f, g>> \in FileEdges(app, results, file)
  BY <1>2
<1> QED BY <1>3, FileIs, EdgeIsCall

\* A site that is reached is a call, of a function that has a path.
Reached(s, f) ==
    /\ f \in DOMAIN paths /\ s.entry = paths[f].entry /\ s.path = PathOf(paths, f, depth[f])
    /\ RunsIn(f, s.pos)

\* A call site with an entry point is in a function that was found.
LEMMA SiteIsReached ==
    ASSUME Extracted, Done, NEW s \in sites, s.entry # NoEntry
    PROVE  \E f : Reached(s, f)
<1>1. PICK file \in DOMAIN results : \E imp \in results[file].imports :
            s \in SitesOf(app, file, results[file], imp, paths, depth)
  BY DEF Extracted, CallSitesOf
<1> DEFINE r == results[file]
           t == TreeOf(file)
<1>2. PICK imp \in r.imports : s \in SitesOf(app, file, r, imp, paths, depth)
  BY <1>1
<1>3. ReadFrom(t, r) /\ ReadsAsJavaScript(t) /\ IsTree(t)
  BY <1>2, FileIs DEF ReadsAsJavaScript, IsJavaScript
<1> HIDE DEF r, t
<1>4. \E pos, symbol : /\ s = Site(app, file, r, imp, pos, symbol, paths, depth)
                       /\ symbol = NoSymbol \/ (\E c \in r.calls : c.pos = pos) \/ (\E c \in imp.inline : c.pos = pos)
  BY <1>2 DEF SitesOf
<1>5. PICK pos, symbol : /\ s = Site(app, file, r, imp, pos, symbol, paths, depth)
                         /\ symbol = NoSymbol \/ (\E c \in r.calls : c.pos = pos) \/ (\E c \in imp.inline : c.pos = pos)
  BY <1>4
<1> DEFINE owners == {FunctionId(file, o) : o \in CallOwner(r, pos)}
           found == {f \in owners : InInventory(app, imp) /\ symbol # NoSymbol /\ f \in DOMAIN paths}
           f == CHOOSE f \in found : TRUE
<1>6. /\ s.entry = (IF found = {} THEN NoEntry ELSE paths[f].entry)
      /\ s.path = (IF found = {} THEN <<>> ELSE PathOf(paths, f, depth[f]))
      /\ s.pos = pos
  BY <1>5 DEF Site
<1>7. found # {} /\ f \in found
  BY <1>6
<1>8. symbol # NoSymbol /\ f \in DOMAIN paths /\ \E o \in CallOwner(r, pos) : f = FunctionId(file, o)
  BY <1>7
<1> HIDE DEF found, f
<1>9. pos \in DOMAIN t /\ t[pos].kind \in Calls
  <2>1. CASE \E c \in r.calls : c.pos = pos
    BY <1>3, <2>1, CallIs DEF ReadFrom
  <2>2. CASE \E c \in imp.inline : c.pos = pos
    <3>1. InlineCalls(t, imp)
      BY <1>2, <1>3, InlineIsCall DEF ReadFrom
    <3> QED BY <2>2, <3>1 DEF InlineCalls, Calls
  <2> QED BY <1>5, <1>8, <2>1, <2>2
<1>10. RunsIn(f, pos)
  BY <1>3, <1>8, <1>9, OwnersRun DEF r, t
<1> QED BY <1>6, <1>7, <1>8, <1>10 DEF Reached

\* So a path is made of calls, by its chain of edges.
LEMMA CallsFromInv == Inv /\ Extracted => PathsAreCalls
<1> SUFFICES ASSUME Inv, Extracted, NEW s \in sites, s.entry # NoEntry
             PROVE  /\ s.path[1] = s.entry /\ s.entry \in Starts
                    /\ RunsIn(s.path[Len(s.path)], s.pos)
                    /\ \A k \in 1 .. Len(s.path) - 1 : IsCall(s.path[k], s.path[k + 1])
  BY DEF PathsAreCalls, IsCall
<1>1. Done
  BY DEF Extracted
<1>2. PICK f : Reached(s, f)
  BY <1>1, SiteIsReached
<1>3. IsChain(s.path, f)
  BY <1>2, PathIsChain DEF Reached
<1>4. DOMAIN paths \subseteq DOMAIN edges
  BY DEF Inv, Shape
<1>5. ASSUME NEW k \in 1 .. Len(s.path) - 1 PROVE IsCall(s.path[k], s.path[k + 1])
  <2>1. s.path[k] \in DOMAIN edges /\ s.path[k + 1] \in edges[s.path[k]]
    BY <1>3, <1>4, <1>5 DEF IsChain
  <2> QED BY <1>1, <2>1, EdgesAreCalls DEF Done
<1> QED BY <1>2, <1>3, <1>5 DEF IsChain, Reached

\* Every path that makes a call site reachable starts at an entry point, the site
\* is in the body of its last function, and each of its steps is a call in the body
\* of the one before: in plain code always one that means the next, in other code
\* possibly one confused with it, in one of the ways named in the property
\* (shadowedLocalCall, graphCallOwner, visibleAt).
THEOREM PathsCalled == Spec => []PathsAreCalls
<1> QED BY InvInit, InvNext, ExtractedInit, ExtractedNext, CallsFromInv, PTL DEF Spec

-----------------------------------------------------------------------------
(* The lexical bindings of a file.                                          *)

\* The scopes of the analysis are those of the reference.
LEMMA ScopesAgree ==
    ASSUME NEW t, IsJavaScript(t), NEW d \in DOMAIN t, d # 1
    PROVE  ScopeOf(t, d, FALSE) = InnermostAround(t, d, JsScopes) /\ ScopeOf(t, d, TRUE) = VarHome(t, d)
<1>1. FunctionScopes = JsFunctions
  BY DEF FunctionScopes, JsFunctions
<1>2. FunctionScopes \cup {"program"} \cup {"statement_block", "for_in_statement", "catch_clause"} = JsScopes
  BY <1>1 DEF JsScopes
<1>3. ScopeOf(t, d, FALSE) = InnermostAround(t, d, JsScopes)
  <2>1. ScopeOf(t, d, FALSE) = Greatest(Around(t, d, FunctionScopes \cup {"program"} \cup
                                       {"statement_block", "for_in_statement", "catch_clause"}))
    BY Zenon DEF ScopeOf
  <2> QED BY <1>2, <2>1 DEF InnermostAround
<1>4. ScopeOf(t, d, TRUE) = VarHome(t, d)
  <2> DEFINE f == Greatest(Around(t, d, JsFunctions \cup {"program"}))
  <2> DEFINE g == Greatest(Around(t, d, FunctionScopes \cup {"program"} \cup
                     IF TRUE THEN {} ELSE {"statement_block", "for_in_statement", "catch_clause"}))
  <2>1. FunctionScopes \cup {"program"} \cup
          (IF TRUE THEN {} ELSE {"statement_block", "for_in_statement", "catch_clause"}) = JsFunctions \cup {"program"}
    BY <1>1
  <2>6. g = f
    BY <2>1
  <2>7. ScopeOf(t, d, TRUE) = IF TRUE /\ t[g].kind \in FunctionScopes /\ Field(t, g, "body") # {}
                              THEN CHOOSE b \in Field(t, g, "body") : TRUE ELSE g
    BY Zenon DEF ScopeOf
  <2> HIDE DEF f, g
  <2>2. ScopeOf(t, d, TRUE) = IF t[f].kind \in JsFunctions /\ Field(t, f, "body") # {}
                              THEN CHOOSE b \in Field(t, f, "body") : TRUE ELSE f
    BY <1>1, <2>6, <2>7
  <2> USE DEF f
  <2>3. VarHome(t, d) = IF Field(t, f, "body") = {} THEN f ELSE CHOOSE b \in Field(t, f, "body") : TRUE
    BY DEF VarHome, InnermostAround
  <2>4. f = RunBy(t, d)
    BY DEF RunBy, InnermostAround
  <2>5. t[f].kind \notin JsFunctions => Field(t, f, "body") = {}
    <3>1. t[f].kind \in Runners /\ (t[f].kind = "program" <=> f = 1)
      BY <2>4, RunByIs
    <3>2. Field(t, 1, "body") = {}
      BY DEF IsJavaScript
    <3> HIDE DEF f
    <3> QED BY <3>1, <3>2 DEF Runners
  <2> HIDE DEF f
  <2>8. CASE Field(t, f, "body") = {}
    BY <2>2, <2>3, <2>8
  <2>9. CASE Field(t, f, "body") # {}
    <3>1. t[f].kind \in JsFunctions
      BY <2>5, <2>9
    <3> QED BY <2>2, <2>3, <2>9, <3>1
  <2> QED BY <2>8, <2>9
<1> QED BY <1>3, <1>4

-----------------------------------------------------------------------------
\* A lexical binding is a declaration of a name, in the scope that declares it.
Clauses == {"import_statement", "import_require_clause"}
\* Where the import of a declaration is.
Places(t, d, x) == IF t[d].kind = "variable_declarator" THEN ImportPosition(t, d, x) ELSE d
\* The binding of a declaration.
Declares(t, x, d, b) ==
    /\ d \in DOMAIN t /\ x \in DeclaredNames(t, d) /\ t[d].kind \notin Clauses
    /\ b = Lexical(t, x, d, Places(t, d, x), Home(t, d))

\* The scope of a declaration in both.
LEMMA HomeDirect ==
    ASSUME NEW t, IsJavaScript(t), NEW d \in DOMAIN t, d # 1
    PROVE  /\ t[d].kind = "parameter" => Home(t, d) = t[d].up
           /\ t[d].kind = "function_expression" => Home(t, d) = d
           /\ t[d].kind = "catch_clause" => Home(t, d) = d
           /\ t[d].kind = "for_in_statement" =>
                 Home(t, d) = IF t[d].mode = "var" THEN ScopeOf(t, d, TRUE) ELSE d
           /\ t[d].kind = "variable_declarator" => Home(t, d) = ScopeOf(t, d, t[d].mode = "var")
           /\ t[d].kind \in Declarations => Home(t, d) = ScopeOf(t, d, FALSE)
<1>1. t[d].mode = "var" => t[d].kind \in {"variable_declarator", "for_in_statement"}
  BY DEF IsJavaScript
<1>2. ScopeOf(t, d, FALSE) = InnermostAround(t, d, JsScopes) /\ ScopeOf(t, d, TRUE) = VarHome(t, d)
  BY ScopesAgree
<1>3. CASE t[d].kind \in {"parameter", "function_expression", "catch_clause"}
  BY <1>1, <1>3 DEF Home, Declarations
<1>4. CASE t[d].kind = "for_in_statement"
  BY <1>2, <1>4 DEF Home, Declarations
<1>5. CASE t[d].kind = "variable_declarator"
  <2>2. CASE t[d].mode = "var"
    <3>1. (t[d].mode = "var") = TRUE
      BY <2>2
    <3> QED BY <1>2, <1>5, <2>2, <3>1 DEF Home, Declarations
  <2>3. CASE t[d].mode # "var"
    <3>1. (t[d].mode = "var") = FALSE
      BY <2>3
    <3> QED BY <1>2, <1>5, <2>3, <3>1 DEF Home, Declarations
  <2> QED BY <2>2, <2>3
<1>6. CASE t[d].kind \in Declarations
  BY <1>1, <1>2, <1>6 DEF Home, Declarations
<1> QED BY <1>3, <1>4, <1>5, <1>6

-----------------------------------------------------------------------------
\* The lexical bindings, by what declares them.
LoopScope(t, i) == IF t[i].mode = "var" THEN ScopeOf(t, i, TRUE) ELSE i
ParametersIn(t) == UNION {{Lexical(t, x, p, p, t[p].up) : x \in Locals(t[p].binds)} : p \in OfKind(t, {"parameter"})}
ExpressionsIn(t) == {Lexical(t, t[i].name, i, i, i) :
                        i \in {j \in OfKind(t, {"function_expression"}) : t[j].name # NoName}}
DeclaratorsIn(t) == UNION {{Lexical(t, x, d, ImportPosition(t, d, x), ScopeOf(t, d, t[d].mode = "var")) :
                               x \in Locals(t[d].binds)} : d \in OfKind(t, {"variable_declarator"})}
StatedIn(t) == {Lexical(t, t[i].name, i, i, ScopeOf(t, i, FALSE)) : i \in OfKind(t, Declarations)}
CaughtIn(t) == UNION {{Lexical(t, x, i, i, i) : x \in Locals(t[i].binds)} : i \in OfKind(t, {"catch_clause"})}
LoopedIn(t) == UNION {{Lexical(t, x, i, i, LoopScope(t, i)) : x \in Locals(t[i].binds)} :
                         i \in {j \in OfKind(t, {"for_in_statement"}) : t[j].mode # "assigned"}}

\* They are all the bindings.
LEMMA LexicalParts ==
    ASSUME NEW t
    PROVE  LexicalBindings(t) = ParametersIn(t) \cup ExpressionsIn(t) \cup DeclaratorsIn(t)
                                \cup StatedIn(t) \cup CaughtIn(t) \cup LoopedIn(t)
BY Zenon DEF LexicalBindings, ParametersIn, ExpressionsIn, DeclaratorsIn, StatedIn, CaughtIn, LoopedIn, LoopScope

\* Every binding of a name is a declaration of it.
LEMMA LexicalIsDeclared ==
    ASSUME NEW t, IsJavaScript(t), NEW b \in LexicalBindings(t), b.name # NoName
    PROVE  Declares(t, b.name, b.pos, b)
<1>2. OfKind(t, {"program"}) = {1} /\ \A d \in DOMAIN t : t[d].mode = "assigned" => t[d].kind = "for_in_statement"
  BY DEF IsJavaScript
<1>3. ASSUME NEW d \in DOMAIN t, NEW x, x # NoName, t[d].kind \in Declaring \ Clauses, x \in DeclaredNames(t, d),
             b = Lexical(t, x, d, Places(t, d, x), Home(t, d))
      PROVE  Declares(t, b.name, b.pos, b)
  BY <1>3 DEF Declares, Lexical, Declaring, Clauses
<1>4. ASSUME NEW d \in DOMAIN t, t[d].kind \in Declaring PROVE d # 1
  BY <1>2, <1>4 DEF OfKind, Declaring
<1>5. CASE b \in ParametersIn(t)
  <2>1. PICK d \in OfKind(t, {"parameter"}) : \E x \in Locals(t[d].binds) : b = Lexical(t, x, d, d, t[d].up)
    BY <1>5 DEF ParametersIn
  <2>2. PICK x \in Locals(t[d].binds) : b = Lexical(t, x, d, d, t[d].up) /\ x # NoName
    BY <2>1 DEF Lexical
  <2>3. d \in DOMAIN t /\ d # 1 /\ t[d].kind \in {"parameter"} /\ t[d].kind \in Declaring \ Clauses
    BY <1>4, <2>1 DEF OfKind, Declaring, Clauses, Declarations
  <2>4. x \in DeclaredNames(t, d)
    BY <1>2, <2>1, <2>2, <2>3 DEF DeclaredNames, Declarations
  <2>5. b = Lexical(t, x, d, Places(t, d, x), Home(t, d))
    BY <2>2, <2>3, HomeDirect DEF Places, Declarations, LoopScope
  <2> QED BY <1>3, <2>2, <2>3, <2>4, <2>5
<1>6. CASE b \in ExpressionsIn(t)
  <2>1. PICK d \in OfKind(t, {"function_expression"}) : b = Lexical(t, t[d].name, d, d, d)
    BY <1>6 DEF ExpressionsIn
  <2> DEFINE x == t[d].name
  <2>2. b = Lexical(t, x, d, d, d) /\ x # NoName
    BY <2>1 DEF Lexical
  <2>3. d \in DOMAIN t /\ d # 1 /\ t[d].kind \in {"function_expression"} /\ t[d].kind \in Declaring \ Clauses
    BY <1>4, <2>1 DEF OfKind, Declaring, Clauses, Declarations
  <2>4. x \in DeclaredNames(t, d)
    BY <1>2, <2>1, <2>2, <2>3 DEF DeclaredNames, Declarations
  <2>5. b = Lexical(t, x, d, Places(t, d, x), Home(t, d))
    BY <2>2, <2>3, HomeDirect DEF Places, Declarations, LoopScope
  <2> QED BY <1>3, <2>2, <2>3, <2>4, <2>5
<1>7. CASE b \in DeclaratorsIn(t)
  <2>1. PICK d \in OfKind(t, {"variable_declarator"}) : \E x \in Locals(t[d].binds) :
            b = Lexical(t, x, d, ImportPosition(t, d, x), ScopeOf(t, d, t[d].mode = "var"))
    BY <1>7 DEF DeclaratorsIn
  <2>2. PICK x \in Locals(t[d].binds) :
            b = Lexical(t, x, d, ImportPosition(t, d, x), ScopeOf(t, d, t[d].mode = "var")) /\ x # NoName
    BY <2>1 DEF Lexical
  <2>3. d \in DOMAIN t /\ d # 1 /\ t[d].kind \in {"variable_declarator"} /\ t[d].kind \in Declaring \ Clauses
    BY <1>4, <2>1 DEF OfKind, Declaring, Clauses, Declarations
  <2>4. x \in DeclaredNames(t, d)
    BY <1>2, <2>1, <2>2, <2>3 DEF DeclaredNames, Declarations
  <2>5. b = Lexical(t, x, d, Places(t, d, x), Home(t, d))
    BY <2>2, <2>3, HomeDirect DEF Places, Declarations, LoopScope
  <2> QED BY <1>3, <2>2, <2>3, <2>4, <2>5
<1>8. CASE b \in StatedIn(t)
  <2>1. PICK d \in OfKind(t, Declarations) : b = Lexical(t, t[d].name, d, d, ScopeOf(t, d, FALSE))
    BY <1>8 DEF StatedIn
  <2> DEFINE x == t[d].name
  <2>2. b = Lexical(t, x, d, d, ScopeOf(t, d, FALSE)) /\ x # NoName
    BY <2>1 DEF Lexical
  <2>3. d \in DOMAIN t /\ d # 1 /\ t[d].kind \in Declarations /\ t[d].kind \in Declaring \ Clauses
    BY <1>4, <2>1 DEF OfKind, Declaring, Clauses, Declarations
  <2>4. x \in DeclaredNames(t, d)
    BY <1>2, <2>1, <2>2, <2>3 DEF DeclaredNames, Declarations
  <2>5. b = Lexical(t, x, d, Places(t, d, x), Home(t, d))
    BY <2>2, <2>3, HomeDirect DEF Places, Declarations, LoopScope
  <2> QED BY <1>3, <2>2, <2>3, <2>4, <2>5
<1>9. CASE b \in CaughtIn(t)
  <2>1. PICK d \in OfKind(t, {"catch_clause"}) : \E x \in Locals(t[d].binds) : b = Lexical(t, x, d, d, d)
    BY <1>9 DEF CaughtIn
  <2>2. PICK x \in Locals(t[d].binds) : b = Lexical(t, x, d, d, d) /\ x # NoName
    BY <2>1 DEF Lexical
  <2>3. d \in DOMAIN t /\ d # 1 /\ t[d].kind \in {"catch_clause"} /\ t[d].kind \in Declaring \ Clauses
    BY <1>4, <2>1 DEF OfKind, Declaring, Clauses, Declarations
  <2>4. x \in DeclaredNames(t, d)
    BY <1>2, <2>1, <2>2, <2>3 DEF DeclaredNames, Declarations
  <2>5. b = Lexical(t, x, d, Places(t, d, x), Home(t, d))
    BY <2>2, <2>3, HomeDirect DEF Places, Declarations, LoopScope
  <2> QED BY <1>3, <2>2, <2>3, <2>4, <2>5
<1>10. CASE b \in LoopedIn(t)
  <2>1. PICK d \in OfKind(t, {"for_in_statement"}) : \E x \in Locals(t[d].binds) :
            t[d].mode # "assigned" /\ b = Lexical(t, x, d, d, LoopScope(t, d))
    BY <1>10 DEF LoopedIn
  <2>2. PICK x \in Locals(t[d].binds) :
            /\ t[d].mode # "assigned" /\ x # NoName
            /\ b = Lexical(t, x, d, d, LoopScope(t, d))
    <3>1. PICK x \in Locals(t[d].binds) :
            /\ t[d].mode # "assigned"
            /\ b = Lexical(t, x, d, d, LoopScope(t, d))
      BY <2>1
    <3>2. b.name = x
      BY <3>1 DEF Lexical
    <3> QED BY <3>1, <3>2
  <2>3. d \in DOMAIN t /\ d # 1 /\ t[d].kind \in {"for_in_statement"} /\ t[d].kind \in Declaring \ Clauses
    BY <1>4, <2>1 DEF OfKind, Declaring, Clauses, Declarations
  <2>4. x \in DeclaredNames(t, d)
    BY <1>2, <2>1, <2>2, <2>3 DEF DeclaredNames, Declarations
  <2>5. b = Lexical(t, x, d, Places(t, d, x), Home(t, d))
    BY <2>2, <2>3, HomeDirect DEF Places, Declarations, LoopScope
  <2> QED BY <1>3, <2>2, <2>3, <2>4, <2>5
<1> QED BY <1>5, <1>6, <1>7, <1>8, <1>9, <1>10, LexicalParts

\* And every declaration but an import clause is a binding.
LEMMA DeclaredIsLexical ==
    ASSUME NEW t, IsJavaScript(t), NEW d \in DOMAIN t, NEW x \in DeclaredNames(t, d),
           t[d].kind \notin Clauses
    PROVE  Lexical(t, x, d, Places(t, d, x), Home(t, d)) \in LexicalBindings(t)
<1> DEFINE b == Lexical(t, x, d, Places(t, d, x), Home(t, d))
<1>2. \/ t[d].kind = "parameter" /\ x \in Locals(t[d].binds)
      \/ t[d].kind = "function_expression" /\ x = t[d].name /\ x # NoName
      \/ t[d].kind = "variable_declarator" /\ x \in Locals(t[d].binds)
      \/ t[d].kind \in Declarations /\ x = t[d].name
      \/ t[d].kind = "catch_clause" /\ x \in Locals(t[d].binds)
      \/ t[d].kind = "for_in_statement" /\ x \in Locals(t[d].binds) /\ t[d].mode # "assigned"
  BY DEF DeclaredNames, Declarations, Clauses
<1>3. d # 1
  BY <1>2 DEF IsJavaScript, OfKind, Declarations
<1>4. CASE t[d].kind = "parameter" /\ x \in Locals(t[d].binds)
  <2>1. b = Lexical(t, x, d, d, t[d].up)
    BY <1>3, <1>4, HomeDirect DEF Places, Declarations, LoopScope
  <2> HIDE DEF b
  <2>2. b \in ParametersIn(t)
    BY <1>4, <2>1 DEF OfKind, ParametersIn
  <2>3. b \in LexicalBindings(t)
    BY <2>2, LexicalParts
  <2> QED BY <2>3 DEF b
<1>5. CASE t[d].kind = "function_expression" /\ x = t[d].name /\ x # NoName
  <2>1. b = Lexical(t, x, d, d, d)
    BY <1>3, <1>5, HomeDirect DEF Places, Declarations, LoopScope
  <2> HIDE DEF b
  <2>2. b \in ExpressionsIn(t)
    BY <1>5, <2>1 DEF OfKind, ExpressionsIn
  <2>3. b \in LexicalBindings(t)
    BY <2>2, LexicalParts
  <2> QED BY <2>3 DEF b
<1>6. CASE t[d].kind = "variable_declarator" /\ x \in Locals(t[d].binds)
  <2>1. b = Lexical(t, x, d, ImportPosition(t, d, x), ScopeOf(t, d, t[d].mode = "var"))
    BY <1>3, <1>6, HomeDirect DEF Places, Declarations, LoopScope
  <2> HIDE DEF b
  <2>2. b \in DeclaratorsIn(t)
    BY <1>6, <2>1 DEF OfKind, DeclaratorsIn
  <2>3. b \in LexicalBindings(t)
    BY <2>2, LexicalParts
  <2> QED BY <2>3 DEF b
<1>7. CASE t[d].kind \in Declarations /\ x = t[d].name
  <2>1. b = Lexical(t, x, d, d, ScopeOf(t, d, FALSE))
    BY <1>3, <1>7, HomeDirect DEF Places, Declarations, LoopScope
  <2> HIDE DEF b
  <2>2. b \in StatedIn(t)
    BY <1>7, <2>1 DEF OfKind, StatedIn
  <2>3. b \in LexicalBindings(t)
    BY <2>2, LexicalParts
  <2> QED BY <2>3 DEF b
<1>8. CASE t[d].kind = "catch_clause" /\ x \in Locals(t[d].binds)
  <2>1. b = Lexical(t, x, d, d, d)
    BY <1>3, <1>8, HomeDirect DEF Places, Declarations, LoopScope
  <2> HIDE DEF b
  <2>2. b \in CaughtIn(t)
    BY <1>8, <2>1 DEF OfKind, CaughtIn
  <2>3. b \in LexicalBindings(t)
    BY <2>2, LexicalParts
  <2> QED BY <2>3 DEF b
<1>9. CASE t[d].kind = "for_in_statement" /\ x \in Locals(t[d].binds) /\ t[d].mode # "assigned"
  <2>1. b = Lexical(t, x, d, d, LoopScope(t, d))
    BY <1>3, <1>9, HomeDirect DEF Places, Declarations, LoopScope
  <2> HIDE DEF b
  <2>2. b \in LoopedIn(t)
    BY <1>9, <2>1 DEF OfKind, LoopedIn
  <2>3. b \in LexicalBindings(t)
    BY <2>2, LexicalParts
  <2> QED BY <2>3 DEF b
<1> QED BY <1>2, <1>4, <1>5, <1>6, <1>7, <1>8, <1>9

-----------------------------------------------------------------------------
(* The nearest binding.                                                     *)

\* The bindings of a name whose scope spans a place.
Spanning(r, x, pos) == {b \in r.lexical : b.name = x /\ b.from <= pos /\ pos <= b.to}

\* A binding that spans a place is a declaration whose scope does.
LEMMA SpanningIs ==
    ASSUME NEW t, ReadsAsJavaScript(t), NEW r, ReadFrom(t, r), NEW x, x # NoName,
           NEW pos \in DOMAIN t, NEW b \in Spanning(r, x, pos)
    PROVE  /\ Declares(t, x, b.pos, b) /\ b.from = Home(t, b.pos) /\ b.pos \in DOMAIN t
           /\ b.from \in Homes(t, x) /\ b.from \in DOMAIN t /\ Spans(t, b.from, pos)
<1>1. IsJavaScript(t) /\ IsTree(t)
  BY DEF ReadsAsJavaScript, IsJavaScript
<1>2. b \in LexicalBindings(t) /\ b.name = x /\ b.from <= pos /\ pos <= b.to
  BY DEF Spanning, ReadFrom
<1>3. Declares(t, x, b.pos, b)
  BY <1>1, <1>2, LexicalIsDeclared
<1>4. b.from = Home(t, b.pos) /\ b.to = t[Home(t, b.pos)].last /\ b.pos \in DOMAIN t /\ x \in DeclaredNames(t, b.pos)
  <2> DEFINE h == Home(t, b.pos)
  <2>1. b = Lexical(t, x, b.pos, Places(t, b.pos, x), h) /\ b.pos \in DOMAIN t /\ x \in DeclaredNames(t, b.pos)
    BY <1>3 DEF Declares
  <2> HIDE DEF h
  <2>2. b.from = h /\ b.to = t[h].last
    BY <2>1 DEF Lexical
  <2> QED BY <2>1, <2>2 DEF h
<1>5. b.from \in Homes(t, x)
  BY <1>4 DEF Homes
<1>6. b.from \in DOMAIN t
  BY <1>1, <1>5, VariableIs
<1> QED BY <1>2, <1>3, <1>4, <1>5, <1>6 DEF Spans

\* There is a nearest one when any binding spans the place.
LEMMA NearestExists ==
    ASSUME NEW t, ReadsAsJavaScript(t), NEW r, ReadFrom(t, r), NEW x, x # NoName,
           NEW pos \in DOMAIN t, Spanning(r, x, pos) # {}
    PROVE  Nearest(r, x, pos) # {}
<1> DEFINE around == Spanning(r, x, pos)
           inner == {b \in around : \A o \in around : o.from <= b.from}
           n == t[1].last
           Froms == {b.from : b \in around}
           Poses == {b.pos : b \in inner}
<1>1. IsTree(t) /\ n \in Nat /\ DOMAIN t = 1 .. n
  BY DEF ReadsAsJavaScript, IsJavaScript, IsTree
<1>2. \A b \in around : b.from \in 1 .. n /\ b.pos \in 1 .. n
  BY <1>1, SpanningIs
<1> HIDE DEF around, n
<1>3. Froms \in SUBSET (1 .. n) /\ Froms # {}
  BY <1>2 DEF around
<1>4. Greatest(Froms) \in Froms /\ \A y \in Froms : y <= Greatest(Froms)
  <2> HIDE DEF Froms
  <2> QED BY <1>1, <1>3, GreatestOf
<1>5. inner # {}
  BY <1>4
<1>6. Poses \in SUBSET (1 .. n) /\ Poses # {}
  BY <1>2, <1>5
<1>7. Greatest(Poses) \in Poses /\ \A y \in Poses : y <= Greatest(Poses)
  <2> HIDE DEF Poses
  <2> QED BY <1>1, <1>6, GreatestOf
<1>8. \E b \in inner : \A o \in inner : o.pos <= b.pos
  BY <1>7
<1>9. Nearest(r, x, pos) = {b \in inner : \A o \in inner : o.pos <= b.pos}
  BY Zenon DEF Nearest, around, Spanning
<1> QED BY <1>8, <1>9

\* The nearest binding is the variable; without one, the name is one of the top
\* level or of no scope of the file.
LEMMA NearestIs ==
    ASSUME NEW t, ReadsAsJavaScript(t), NEW r, ReadFrom(t, r), NEW x, x # NoName, NEW pos \in DOMAIN t
    PROVE  LET v == VariableAt(t, x, pos)
           IN  /\ \A n \in Nearest(r, x, pos) : n \in Spanning(r, x, pos) /\ n.from = v
               /\ Nearest(r, x, pos) = {} => v \in {0, 1} /\ Spanning(r, x, pos) = {}
<1> DEFINE v == VariableAt(t, x, pos)
<1>1. IsJavaScript(t) /\ IsTree(t)
  BY DEF ReadsAsJavaScript, IsJavaScript
<1>2. /\ \/ v = 0 /\ \A s \in Homes(t, x) : ~Spans(t, s, pos)
         \/ /\ v \in Homes(t, x) /\ v \in DOMAIN t /\ v \in Nat /\ v >= 1 /\ Spans(t, v, pos)
            /\ \A s \in Homes(t, x) : Spans(t, s, pos) => s <= v
      /\ \A s \in Homes(t, x) : s \in DOMAIN t
  BY <1>1, VariableIs
<1> HIDE DEF v
\* The variable is at the top level by an import clause, or it is a binding.
<1>3. ASSUME v # 0 PROVE v = 1 \/ \E b \in Spanning(r, x, pos) : b.from = v
  <2>1. PICK d \in DOMAIN t : x \in DeclaredNames(t, d) /\ v = Home(t, d)
    BY <1>2, <1>3 DEF Homes
  <2>2. CASE t[d].kind \in Clauses
    <3>1. HomeOf(t, d)
      BY <1>1, <2>2, HomeCases DEF Declaring, Clauses
    <3> QED BY <2>1, <2>2, <3>1 DEF HomeOf, Clauses
  <2>3. CASE t[d].kind \notin Clauses
    <3> DEFINE b == Lexical(t, x, d, Places(t, d, x), v)
    <3>1. b \in LexicalBindings(t)
      BY <1>1, <2>1, <2>3, DeclaredIsLexical
    <3>2. b.name = x /\ b.from = v /\ b.to = t[v].last
      BY DEF Lexical
    <3> HIDE DEF b
    <3>3. b \in Spanning(r, x, pos)
      BY <1>2, <1>3, <3>1, <3>2 DEF Spanning, ReadFrom, Spans
    <3> QED BY <3>2, <3>3
  <2> QED BY <2>2, <2>3
<1>4. ASSUME NEW n \in Nearest(r, x, pos) PROVE n \in Spanning(r, x, pos) /\ n.from = v
  <2>1. n \in Spanning(r, x, pos) /\ \A o \in Spanning(r, x, pos) : o.from <= n.from
    BY DEF Nearest, Spanning
  <2>2. n.from \in Homes(t, x) /\ n.from \in DOMAIN t /\ Spans(t, n.from, pos)
    BY <2>1, SpanningIs
  <2>3. v \in Nat /\ v >= 1 /\ n.from <= v /\ n.from \in Nat /\ n.from >= 1
    BY <1>1, <1>2, <2>2, TreeNode
  <2>4. v = 1 \/ v <= n.from
    BY <1>3, <2>1, <2>3
  <2> QED BY <2>1, <2>3, <2>4
<1>5. ASSUME Nearest(r, x, pos) = {} PROVE v \in {0, 1} /\ Spanning(r, x, pos) = {}
  BY <1>3, <1>5, NearestExists
<1> QED BY <1>4, <1>5 DEF v

-----------------------------------------------------------------------------
(* The declarators of imports.                                              *)

\* Where the import of a declarator is: at the declarator, or at an import() in it.
LEMMA ImportPlace ==
    ASSUME NEW t, IsTree(t), NEW d \in DOMAIN t, NEW x
    PROVE  \/ ImportPosition(t, d, x) = d
           \/ /\ DeclaresDynamicImport(t, d) /\ Spans(t, d, ImportPosition(t, d, x))
              /\ ImportPosition(t, d, x) \in OfKind(t, {"import"})
<1> DEFINE imports == {i \in OfKind(t, {"import"}) :
                          /\ Spans(t, d, i)
                          /\ \E imp \in DynamicImports(t, i) :
                                imp.kind = "dynamic_static_literal" /\ imp.local = x}
<1>1. ImportPosition(t, d, x) = IF DeclaresDynamicImport(t, d) /\ imports # {} THEN Greatest(imports) ELSE d
  BY Zenon DEF ImportPosition
<1>2. imports \in SUBSET (1 .. t[1].last) /\ t[1].last \in Nat
  BY DEF IsTree, OfKind
<1>3. imports # {} => Greatest(imports) \in imports
  <2> HIDE DEF imports
  <2> QED BY <1>2, GreatestOf
<1> QED BY <1>1, <1>3

\* What a declarator that holds an import() spans.
LEMMA LoadIs ==
    ASSUME NEW t, IsJavaScript(t), NEW d \in DOMAIN t, t[d].kind = "variable_declarator",
           DeclaresDynamicImport(t, d), NEW i \in OfKind(t, {"import"}), Spans(t, d, i)
    PROVE  \/ i = d + 1 /\ t[i].up = d /\ t[d].last = i
           \/ /\ i = d + 2 /\ t[d].last = i /\ t[i].up = d + 1 /\ d + 1 \in DOMAIN t
              /\ t[d + 1].kind = "await_expression" /\ t[d + 1].up = d /\ t[d + 1].role = "value"
<1>1. IsTree(t) /\ d \in Nat /\ 1 <= d /\ i \in DOMAIN t /\ t[i].kind = "import" /\ i \in Nat
  BY TreeNode DEF IsJavaScript, OfKind
<1>2. PICK v \in DOMAIN t : /\ t[v].up = d /\ t[v].role = "value"
                            /\ \/ t[v].kind = "import"
                               \/ t[v].kind = "await_expression" /\ \E c \in DOMAIN t : t[c].up = v /\ t[c].kind = "import"
  BY DEF DeclaresDynamicImport, Field, Children
<1>3. FieldOf(t, v, "variable_declarator", "value")
  BY <1>1, <1>2 DEF FieldOf
<1>4. v = d + 1 /\ t[v].last = t[d].last
  BY <1>2, <1>3 DEF IsJavaScript
<1>5. i # d /\ d <= i /\ i <= t[d].last
  BY <1>1 DEF Spans
<1>6. CASE t[v].kind = "import"
  <2>1. t[v].last = v
    BY <1>2, <1>6 DEF IsJavaScript, OfKind
  <2>2. i = v
    BY <1>1, <1>4, <1>5, <2>1
  <2> QED BY <1>2, <1>4, <2>1, <2>2
<1>7. CASE t[v].kind = "await_expression" /\ \E c \in DOMAIN t : t[c].up = v /\ t[c].kind = "import"
  <2>1. PICK c \in DOMAIN t : t[c].up = v /\ t[c].kind = "import"
    BY <1>7
  <2>2. t[c].up # 0 /\ t[t[c].up].kind = "await_expression"
    BY <1>1, <1>4, <1>7, <2>1
  <2>3. c = v + 1 /\ t[c].last = t[v].last
    BY <2>1, <2>2 DEF IsJavaScript
  <2>4. t[c].last = c
    BY <2>1 DEF IsJavaScript, OfKind
  <2>5. i # v
    BY <1>1, <1>7
  <2>6. i = c
    BY <1>1, <1>4, <1>5, <2>3, <2>4, <2>5
  <2> QED BY <1>1, <1>2, <1>4, <1>7, <2>1, <2>3, <2>4, <2>6
<1> QED BY <1>2, <1>6, <1>7

\* A scope is a function, a block or the body of a function.
LEMMA HomeKind ==
    ASSUME NEW t, IsJavaScript(t), NEW x, NEW s \in Homes(t, x)
    PROVE  /\ s \in DOMAIN t
           /\ \/ t[s].kind \in JsScopes
              \/ t[s].role = "body" /\ t[s].up \in DOMAIN t /\ t[t[s].up].kind \in JsFunctions
<1>1. PICK d \in DOMAIN t : x \in DeclaredNames(t, d) /\ s = Home(t, d)
  BY DEF Homes
<1>2. t[d].kind \in Declaring
  BY <1>1, DeclaringKinds
<1>3. HomeOf(t, d) /\ s \in DOMAIN t /\ d # 1 /\ t[1].kind = "program"
  <2>1. HomeOf(t, d) /\ s \in DOMAIN t
    BY <1>1, <1>2, HomeCases, HomeIn
  <2>2. OfKind(t, {"program"}) = {1}
    BY DEF IsJavaScript
  <2>3. d # 1 /\ t[1].kind = "program"
    BY <1>2, <2>2 DEF OfKind, Declaring
  <2> QED BY <2>1, <2>3
<1>4. CASE t[d].kind \in {"variable_declarator", "for_in_statement"} /\ s = VarHome(t, d)
  <2>1. t[d].kind \in Statements
    BY <1>4 DEF Statements
  <2>2. \/ s = 1
        \/ \E b \in DOMAIN t : s = b /\ t[RunBy(t, d)].kind \in JsFunctions /\ t[b].up = RunBy(t, d) /\ t[b].role = "body"
    BY <1>4, <2>1, VarHomeIs
  <2>3. RunBy(t, d) \in DOMAIN t
    BY <1>3, RunByIs
  <2> QED BY <1>3, <2>2, <2>3 DEF JsScopes
<1>5. InnermostAround(t, d, JsScopes) \in DOMAIN t /\ t[InnermostAround(t, d, JsScopes)].kind \in JsScopes
  BY <1>3, ScopeIs
<1>6. CASE ~(t[d].kind \in {"variable_declarator", "for_in_statement"} /\ s = VarHome(t, d))
  BY <1>1, <1>3, <1>5, <1>6 DEF HomeOf, JsScopes, JsFunctions
<1> QED BY <1>3, <1>4, <1>6

\* A name is the same variable at an import() and at the declarator that awaits it.
LEMMA SameAtLoad ==
    ASSUME NEW t, IsJavaScript(t), NEW x, NEW d \in DOMAIN t, NEW i \in DOMAIN t,
           t[i].kind = "import", t[i].up = d + 1, i = d + 2, t[d].last = i, d + 1 \in DOMAIN t,
           t[d + 1].kind = "await_expression", t[d + 1].role = "value"
    PROVE  VariableAt(t, x, i) = VariableAt(t, x, d)
<1>1. IsTree(t) /\ d \in Nat /\ 1 <= d
  BY TreeNode DEF IsJavaScript
<1>2. ASSUME NEW s \in Homes(t, x) PROVE Spans(t, s, i) <=> Spans(t, s, d)
  <2>1. /\ s \in DOMAIN t
        /\ \/ t[s].kind \in JsScopes
           \/ t[s].role = "body" /\ t[s].up \in DOMAIN t /\ t[t[s].up].kind \in JsFunctions
    BY HomeKind
  <2>2. s # i /\ s # d + 1
    BY <2>1 DEF JsScopes, JsFunctions
  <2>3. s \in Nat /\ t[s].last \in Nat
    BY <1>1, <2>1, TreeNode
  <2>4. s < d /\ d <= t[s].last => t[d].last <= t[s].last
    BY <1>1, <2>1, TreeUnder
  <2> QED BY <1>1, <2>2, <2>3, <2>4 DEF Spans
<1>3. {s \in Homes(t, x) : Spans(t, s, i)} = {s \in Homes(t, x) : Spans(t, s, d)}
  BY <1>2
<1>4. \A p : VariableAt(t, x, p) = IF {s \in Homes(t, x) : Spans(t, s, p)} = {} THEN 0
                                   ELSE Greatest({s \in Homes(t, x) : Spans(t, s, p)})
  BY Zenon DEF VariableAt, Homes
<1> QED BY <1>3, <1>4

-----------------------------------------------------------------------------
(* The calls an import owns.                                                *)

\* Where a binding of a name has its import.
LEMMA BindingPlace ==
    ASSUME NEW t, ReadsAsJavaScript(t), NEW r, ReadFrom(t, r), NEW x, x # NoName,
           NEW pos \in DOMAIN t, NEW b \in Spanning(r, x, pos)
    PROVE  /\ b.importPos = Places(t, b.pos, x) /\ t[b.pos].kind \notin Clauses
           /\ x \in DeclaredNames(t, b.pos)
<1>1. Declares(t, x, b.pos, b)
  BY SpanningIs
<1> DEFINE h == Home(t, b.pos)
           p == Places(t, b.pos, x)
<1>2. b = Lexical(t, x, b.pos, p, h) /\ t[b.pos].kind \notin Clauses /\ x \in DeclaredNames(t, b.pos)
  BY <1>1 DEF Declares
<1> HIDE DEF h, p
<1>3. b.importPos = p
  BY <1>2 DEF Lexical
<1> QED BY <1>2, <1>3 DEF p

\* The declaration of a declarator that spans a place is one of the bindings.
LEMMA OwnBinding ==
    ASSUME NEW t, ReadsAsJavaScript(t), NEW r, ReadFrom(t, r), NEW x, NEW d, Declarator(t, d, x)
    PROVE  \E b \in r.lexical : /\ b.name = x /\ b.pos = d /\ b.importPos = ImportPosition(t, d, x)
                                /\ b.from = Home(t, d) /\ b.to = t[Home(t, d)].last
<1> DEFINE h == Home(t, d)
           p == ImportPosition(t, d, x)
           b == Lexical(t, x, d, p, h)
<1>1. IsJavaScript(t) /\ d \in DOMAIN t /\ t[d].kind = "variable_declarator" /\ x \in Locals(t[d].binds)
  BY DEF ReadsAsJavaScript, Declarator
<1>2. t[d].mode # "assigned"
  BY <1>1 DEF IsJavaScript
<1>3. x \in DeclaredNames(t, d) /\ t[d].kind \notin Clauses
  BY <1>1, <1>2 DEF DeclaredNames, Clauses
<1>4. Places(t, d, x) = p
  BY <1>1 DEF Places
<1>5. b \in r.lexical
  BY <1>1, <1>3, <1>4, DeclaredIsLexical DEF ReadFrom
<1> HIDE DEF h, p
<1>6. b.name = x /\ b.pos = d /\ b.importPos = p /\ b.from = h /\ b.to = t[h].last
  BY DEF Lexical
<1> HIDE DEF b
<1> QED BY <1>5, <1>6 DEF h, p

\* An assigned name is the variable it is at the assignment.
LEMMA AssignedOwned ==
    ASSUME NEW t, ReadsAsJavaScript(t), NEW r, ReadFrom(t, r), NEW x, x # NoName,
           NEW pos \in DOMAIN t, NEW from \in DOMAIN t, Nearest(r, x, pos) = Nearest(r, x, from)
    PROVE  VariableAt(t, x, pos) = VariableAt(t, x, from)
<1>1. IsJavaScript(t)
  BY DEF ReadsAsJavaScript
<1>2. CASE Nearest(r, x, pos) = {}
  <2>1. VariableAt(t, x, pos) \in {0, 1} /\ VariableAt(t, x, from) \in {0, 1}
    BY <1>2, NearestIs
  <2>2. VariableAt(t, x, from) = VariableAt(t, x, pos) \/ VariableAt(t, x, from) > 1
    BY <1>1, <2>1, HeldOutside
  <2> QED BY <2>1, <2>2
<1>3. CASE Nearest(r, x, pos) # {}
  <2>1. PICK n \in Nearest(r, x, pos) : TRUE
    BY <1>3
  <2>2. n.from = VariableAt(t, x, pos) /\ n.from = VariableAt(t, x, from)
    BY <2>1, NearestIs
  <2> QED BY <2>2
<1> QED BY <1>2, <1>3

\* An import clause is not among the bindings: a call is its own where the name
\* is declared by nothing else.
LEMMA ClauseOwned ==
    ASSUME NEW t, ReadsAsJavaScript(t), NEW r, ReadFrom(t, r), NEW x, x # NoName,
           NEW p \in OfKind(t, Clauses), x \in Locals(t[p].binds),
           NEW pos \in DOMAIN t, \A n \in Nearest(r, x, pos) : n.importPos = p
    PROVE  VariableAt(t, x, pos) = VariableAt(t, x, p)
<1>1. IsJavaScript(t) /\ IsTree(t) /\ p \in DOMAIN t /\ t[p].kind \in Clauses /\ t[1].kind = "program" /\ 1 \in DOMAIN t
  BY DEF ReadsAsJavaScript, IsJavaScript, OfKind
<1>2. Nearest(r, x, pos) = {}
  <2> SUFFICES ASSUME NEW n \in Nearest(r, x, pos) PROVE FALSE
    OBVIOUS
  <2>1. n \in Spanning(r, x, pos) /\ n.importPos = p
    BY NearestIs
  <2>2. n.importPos = Places(t, n.pos, x) /\ t[n.pos].kind \notin Clauses /\ n.pos \in DOMAIN t
    <3>1. n.importPos = Places(t, n.pos, x) /\ t[n.pos].kind \notin Clauses
      BY <2>1, BindingPlace
    <3>2. n.pos \in DOMAIN t
      BY <2>1, SpanningIs
    <3> QED BY <3>1, <3>2
  <2>3. p = n.pos \/ t[p].kind = "import"
    BY <1>1, <2>1, <2>2, ImportPlace DEF Places, OfKind
  <2> QED BY <1>1, <2>2, <2>3 DEF Clauses
<1>3. 1 \in Homes(t, x)
  <2>1. x \in DeclaredNames(t, p)
    <3>1. t[p].mode # "assigned"
      BY <1>1 DEF IsJavaScript, Clauses
    <3> QED BY <1>1, <3>1 DEF DeclaredNames, Clauses
  <2>2. Home(t, p) = 1
    <3>1. HomeOf(t, p)
      BY <1>1, HomeCases DEF Declaring, Clauses
    <3> QED BY <1>1, <3>1 DEF HomeOf, Clauses
  <2> QED BY <1>1, <2>1, <2>2 DEF Homes
<1>4. \A q \in DOMAIN t : Spans(t, 1, q)
  BY <1>1, TreeNode DEF Spans
<1>5. VariableAt(t, x, pos) = 1
  <2>1. VariableAt(t, x, pos) \in {0, 1}
    BY <1>2, NearestIs
  <2> QED BY <1>1, <1>3, <1>4, <2>1, VariableIs
<1>6. VariableAt(t, x, p) = 1
  <2> DEFINE s == VariableAt(t, x, p)
  <2>1. s \in Homes(t, x) /\ s \in Nat /\ s >= 1 /\ Spans(t, s, p)
    BY <1>1, <1>3, <1>4, VariableIs
  <2> HIDE DEF s
  <2>2. /\ s \in DOMAIN t
        /\ \/ t[s].kind \in JsScopes
           \/ t[s].role = "body" /\ t[s].up \in DOMAIN t /\ t[t[s].up].kind \in JsFunctions
    BY <1>1, <2>1, HomeKind
  <2>3. p # 1 /\ InnermostAround(t, p, JsScopes) = 1
    BY <1>1 DEF IsJavaScript, OfKind, Clauses
  <2>4. \A j \in DOMAIN t : t[j].kind \in JsScopes /\ j < p /\ p <= t[j].last => j <= 1
    BY <1>1, <2>3, ScopeIs
  <2>5. s <= p /\ p <= t[s].last /\ p \in Nat /\ t[s].last \in Nat
    BY <1>1, <2>1, <2>2, TreeNode DEF Spans
  <2>6. CASE t[s].kind \in JsScopes
    <3>1. s # p
      BY <1>1, <2>6 DEF JsScopes, JsFunctions, Clauses
    <3> QED BY <2>1, <2>2, <2>4, <2>5, <2>6, <3>1 DEF s
  <2>7. CASE t[s].role = "body" /\ t[s].up \in DOMAIN t /\ t[t[s].up].kind \in JsFunctions
    <3> DEFINE f == t[s].up
    <3>1. f \in Nat /\ 1 <= f /\ f < s /\ s <= t[f].last /\ t[f].last \in Nat /\ f # 0
      <4>1. f \in Nat /\ 1 <= f
        BY <1>1, <2>7, TreeNode
      <4>2. f < s /\ s <= t[f].last
        BY <1>1, <2>2, <4>1, TreeNode
      <4>3. t[f].last \in Nat
        BY <1>1, <2>7, TreeNode
      <4> QED BY <4>1, <4>2, <4>3
    <3>2. t[s].last <= t[f].last
      BY <1>1, <2>2, <2>7, <3>1, TreeUnder
    <3>3. f < p /\ p <= t[f].last
      BY <2>1, <2>5, <3>1, <3>2
    <3>4. t[f].kind \in JsScopes /\ t[f].kind # "program"
      BY <2>7 DEF JsScopes, JsFunctions
    <3>5. f <= 1
      BY <2>4, <2>7, <3>3, <3>4
    <3>6. f = 1
      BY <3>1, <3>5
    <3> QED BY <1>1, <3>4, <3>6
  <2> QED BY <2>2, <2>6, <2>7
<1> QED BY <1>5, <1>6

\* A call an import of a declarator owns is in the scope of the declarator.
LEMMA DeclaratorOwned ==
    ASSUME NEW t, ReadsAsJavaScript(t), NEW r, ReadFrom(t, r), NEW imp, imp.local # NoName,
           NEW d, Declarator(t, d, imp.local), ImportPosition(t, d, imp.local) = imp.pos,
           \A e \in DOMAIN t : imp.local \in DeclaredNames(t, e) /\ Places(t, e, imp.local) = imp.pos => e = d,
           NEW pos \in DOMAIN t, \A b \in OwnBindings(r, imp) : b.from <= pos /\ pos <= b.to,
           \A n \in Nearest(r, imp.local, pos) : n.importPos = imp.pos
    PROVE  VariableAt(t, imp.local, pos) = Home(t, d)
<1> DEFINE x == imp.local
<1>1. PICK b \in r.lexical : b.name = x /\ b.importPos = imp.pos
  BY OwnBinding
<1>2. b \in Spanning(r, x, pos)
  BY <1>1 DEF OwnBindings, Spanning
<1>3. Nearest(r, x, pos) # {}
  BY <1>2, NearestExists
<1>4. PICK n \in Nearest(r, x, pos) : TRUE
  BY <1>3
<1>5. n \in Spanning(r, x, pos) /\ n.from = VariableAt(t, x, pos) /\ n.importPos = imp.pos
  BY <1>4, NearestIs
<1>6. n.importPos = Places(t, n.pos, x) /\ x \in DeclaredNames(t, n.pos)
  BY <1>5, BindingPlace
<1>7. n.pos \in DOMAIN t /\ n.from = Home(t, n.pos)
  BY <1>5, SpanningIs
<1>8. n.pos = d
  BY <1>5, <1>6, <1>7
<1> QED BY <1>5, <1>7, <1>8

\* A declarator that does not hold an import().
LEMMA LoadedOwned ==
    ASSUME NEW t, ReadsAsJavaScript(t), NEW r, ReadFrom(t, r), NEW imp, imp.local # NoName,
           Declarator(t, imp.pos, imp.local), Loaded(t, imp),
           NEW pos \in DOMAIN t, \A b \in OwnBindings(r, imp) : b.from <= pos /\ pos <= b.to,
           \A n \in Nearest(r, imp.local, pos) : n.importPos = imp.pos
    PROVE  VariableAt(t, imp.local, pos) = Home(t, imp.pos)
<1> DEFINE x == imp.local
           d == imp.pos
<1>1. IsJavaScript(t) /\ IsTree(t) /\ d \in DOMAIN t /\ t[d].kind = "variable_declarator"
  BY DEF ReadsAsJavaScript, IsJavaScript, Declarator
<1>2. ~DeclaresDynamicImport(t, d)
  <2>1. d # 0
    BY <1>1, TreeNode
  <2>2. ASSUME NEW v \in Field(t, d, "value") PROVE v = d + 1
    <3>1. v \in DOMAIN t /\ t[v].up = d /\ t[v].role = "value"
      BY <2>2 DEF Field, Children
    <3>2. FieldOf(t, v, "variable_declarator", "value")
      BY <1>1, <2>1, <3>1 DEF FieldOf
    <3> QED BY <1>1, <3>1, <3>2 DEF IsJavaScript
  <2>3. PICK w \in Field(t, d, "value") : t[w].kind \notin {"import", "await_expression"}
    BY DEF Loaded
  <2> QED BY <2>2, <2>3 DEF DeclaresDynamicImport
<1> HIDE DEF d
<1>3. ImportPosition(t, d, x) = d
  BY <1>1, <1>2, ImportPlace
<1>4. ASSUME NEW e \in DOMAIN t, Places(t, e, x) = d PROVE e = d
  <2>1. ImportPosition(t, e, x) = e \/ ImportPosition(t, e, x) \in OfKind(t, {"import"})
    BY <1>1, ImportPlace
  <2> QED BY <1>1, <1>4, <2>1 DEF Places, OfKind
<1> QED BY <1>3, <1>4, DeclaratorOwned DEF d

\* A declarator that awaits an import().
LEMMA DynamicOwned ==
    ASSUME NEW t, ReadsAsJavaScript(t), NEW r, ReadFrom(t, r), NEW imp, imp.local # NoName, Dynamic(t, imp),
           NEW pos \in DOMAIN t, \A b \in OwnBindings(r, imp) : b.from <= pos /\ pos <= b.to,
           \A n \in Nearest(r, imp.local, pos) : n.importPos = imp.pos
    PROVE  \E d \in DOMAIN t : /\ Declarator(t, d, imp.local) /\ Spans(t, d, imp.pos)
                               /\ VariableAt(t, imp.local, pos) = Home(t, d)
                               /\ VariableAt(t, imp.local, imp.pos) = VariableAt(t, imp.local, d)
<1> DEFINE x == imp.local
           i == imp.pos
<1>1. IsJavaScript(t) /\ IsTree(t)
  BY DEF ReadsAsJavaScript, IsJavaScript
<1>2. /\ i \in DOMAIN t /\ t[i].kind = "import"
      /\ \E raw \in DynamicImports(t, i) : raw.kind = "dynamic_static_literal" /\ raw.local = x
  BY DEF Dynamic, OfKind
<1>3. PICK v \in DOMAIN t : /\ t[i].up = v /\ t[v].kind = "await_expression"
                            /\ FieldOf(t, v, "variable_declarator", "value")
                            /\ Declarator(t, t[v].up, x)
  BY DEF Dynamic
<1> HIDE DEF x, i
<1>4. PICK d \in DOMAIN t : d = t[v].up /\ Declarator(t, d, x) /\ t[d].kind = "variable_declarator"
  BY <1>3 DEF Declarator
<1>5. v = d + 1 /\ t[v].last = t[d].last /\ t[v].role = "value"
  BY <1>1, <1>3, <1>4 DEF IsJavaScript, FieldOf
<1>6. i = v + 1 /\ t[i].last = t[v].last
  <2>1. t[i].up # 0
    BY <1>1, <1>3, TreeNode
  <2> QED BY <1>1, <1>2, <1>3, <2>1 DEF IsJavaScript
<1>7. t[i].last = i
  BY <1>1, <1>2 DEF IsJavaScript, OfKind
<1>8. d \in Nat /\ 1 <= d
  BY <1>1, TreeNode
<1>9. i = d + 2 /\ t[d].last = i /\ Spans(t, d, i)
  BY <1>5, <1>6, <1>7, <1>8 DEF Spans
<1>10. DeclaresDynamicImport(t, d)
  <2>1. v \in Field(t, d, "value") /\ i \in Children(t, v)
    BY <1>2, <1>3, <1>4, <1>5 DEF Field, Children
  <2> QED BY <1>2, <1>3, <2>1 DEF DeclaresDynamicImport
<1>11. ImportPosition(t, d, x) = i
  <2> DEFINE imports == {j \in OfKind(t, {"import"}) :
                          /\ Spans(t, d, j)
                          /\ \E m \in DynamicImports(t, j) :
                                m.kind = "dynamic_static_literal" /\ m.local = x}
  <2>1. ImportPosition(t, d, x) = IF DeclaresDynamicImport(t, d) /\ imports # {} THEN Greatest(imports) ELSE d
    BY Zenon DEF ImportPosition
  <2>2. i \in imports
    BY <1>2, <1>9 DEF OfKind
  <2>3. \A j \in imports : j = i
    <3> SUFFICES ASSUME NEW j \in OfKind(t, {"import"}), Spans(t, d, j) PROVE j = i
      OBVIOUS
    <3>1. \/ j = d + 1
          \/ j = d + 2
      BY <1>1, <1>4, <1>10, LoadIs
    <3> QED BY <1>3, <1>5, <1>9, <3>1 DEF OfKind
  <2>4. imports = {i}
    BY <2>2, <2>3
  <2> HIDE DEF imports
  <2>5. Greatest({i}) = i
    <3>1. i \in Nat
      BY <1>1, <1>2, TreeNode
    <3> QED BY <3>1 DEF Greatest
  <2> QED BY <1>10, <2>1, <2>4, <2>5
<1>12. ASSUME NEW e \in DOMAIN t, x \in DeclaredNames(t, e), Places(t, e, x) = i PROVE e = d
  <2>1. t[e].kind \in Declaring
    BY <1>12, DeclaringKinds
  <2>2. CASE t[e].kind # "variable_declarator"
    BY <1>2, <1>12, <2>1, <2>2 DEF Places, Declaring
  <2>3. CASE t[e].kind = "variable_declarator"
    <3>1. ImportPosition(t, e, x) = i /\ e # i
      BY <1>2, <1>12, <2>3 DEF Places
    <3>2. DeclaresDynamicImport(t, e) /\ Spans(t, e, i) /\ i \in OfKind(t, {"import"})
      BY <1>1, <3>1, ImportPlace
    <3>3. (i = e + 1 /\ t[i].up = e) \/ i = e + 2
      BY <1>1, <2>3, <3>2, LoadIs
    <3>4. e \in Nat
      BY <1>1, TreeNode
    <3> QED BY <1>3, <1>8, <1>9, <2>3, <3>3, <3>4
  <2> QED BY <2>2, <2>3
<1>13. VariableAt(t, x, pos) = Home(t, d)
  BY <1>4, <1>11, <1>12, DeclaratorOwned DEF x, i
<1>14. VariableAt(t, x, i) = VariableAt(t, x, d)
  <2>1. /\ t[i].kind = "import" /\ t[i].up = d + 1 /\ i = d + 2 /\ t[d].last = i /\ d + 1 \in DOMAIN t
        /\ t[d + 1].kind = "await_expression" /\ t[d + 1].role = "value" /\ i \in DOMAIN t
    BY <1>2, <1>3, <1>5, <1>9
  <2> QED BY <1>1, <2>1, SameAtLoad
<1> QED BY <1>4, <1>9, <1>13, <1>14 DEF x, i

\* A call an import owns is made through its variable.
Displaces(t, imp) ==
    LET h == VariableAt(t, imp.local, imp.pos)
    IN  /\ h # 0 /\ t[h].kind = "catch_clause"
        /\ \E d \in OfKind(t, {"variable_declarator"}) :
              /\ Spans(t, d, imp.pos) /\ imp.local \in Locals(t[d].binds) /\ Home(t, d) # h

\* The declarator of an import: its variable is the declarator's, or the
\* parameter of a catch clause has its name.
LEMMA DeclaratorHolder ==
    ASSUME NEW t, IsJavaScript(t), NEW imp, NEW d \in DOMAIN t, Declarator(t, d, imp.local),
           Spans(t, d, imp.pos), VariableAt(t, imp.local, imp.pos) = VariableAt(t, imp.local, d)
    PROVE  VariableAt(t, imp.local, imp.pos) = Home(t, d) \/ Displaces(t, imp)
<1> DEFINE h == VariableAt(t, imp.local, d)
<1>1. d \in OfKind(t, {"variable_declarator"}) /\ imp.local \in Locals(t[d].binds)
  BY DEF Declarator, OfKind
<1>2. h = Home(t, d) \/ (h # 0 /\ t[h].kind = "catch_clause")
  BY <1>1 DEF IsJavaScript
<1> HIDE DEF h
<1>3. VariableAt(t, imp.local, imp.pos) = h
  BY DEF h
<1> QED BY <1>1, <1>2, <1>3 DEF Displaces

\* ImportOwnsCall finds the calls through the variable of the import.
LEMMA OwnedByVariable ==
    ASSUME NEW t, ReadsAsJavaScript(t), NEW r, ReadFrom(t, r), NEW imp \in r.imports,
           imp.local # NoName, imp.specifier # Computed, NEW pos \in DOMAIN t,
           OwnsCall(r, imp, pos), ~Ambiguous(r, imp, pos)
    PROVE  VariableAt(t, imp.local, pos) = VariableAt(t, imp.local, imp.pos) \/ Displaces(t, imp)
<1> DEFINE x == imp.local
<1>1. IsJavaScript(t) /\ IsTree(t)
  BY DEF ReadsAsJavaScript, IsJavaScript
<1>2. Binding(t, imp) /\ imp.pos \in DOMAIN t
  BY ImportForms DEF ReadFrom
<1>3. CASE imp.assigned
  <2>1. Nearest(r, x, pos) = Nearest(r, x, imp.pos)
    BY <1>3 DEF OwnsCall
  <2> QED BY <1>2, <2>1, AssignedOwned
<1>4. CASE ~imp.assigned
  <2>1. /\ \A b \in OwnBindings(r, imp) : b.from <= pos /\ pos <= b.to
        /\ \A n \in Nearest(r, x, pos) : n.importPos = imp.pos
    BY <1>4 DEF OwnsCall, OwnsDeclaredCall
  <2>2. Clause(t, imp) \/ (Declarator(t, imp.pos, x) /\ Loaded(t, imp)) \/ Dynamic(t, imp)
    BY <1>2, <1>4 DEF Binding
  <2>3. CASE Clause(t, imp)
    <3>1. imp.pos \in OfKind(t, Clauses) /\ x \in Locals(t[imp.pos].binds)
      BY <2>3 DEF Clause, Clauses, OfKind
    <3> QED BY <2>1, <3>1, ClauseOwned
  <2>4. CASE Declarator(t, imp.pos, x) /\ Loaded(t, imp)
    <3>1. VariableAt(t, x, pos) = Home(t, imp.pos)
      BY <2>1, <2>4, LoadedOwned
    <3>2. Spans(t, imp.pos, imp.pos)
      BY <1>1, <1>2, TreeNode DEF Spans
    <3>3. VariableAt(t, x, imp.pos) = Home(t, imp.pos) \/ Displaces(t, imp)
      BY <1>1, <1>2, <2>4, <3>2, DeclaratorHolder
    <3> QED BY <3>1, <3>3
  <2>5. CASE Dynamic(t, imp)
    <3>1. PICK d \in DOMAIN t : /\ Declarator(t, d, x) /\ Spans(t, d, imp.pos)
                                /\ VariableAt(t, x, pos) = Home(t, d)
                                /\ VariableAt(t, x, imp.pos) = VariableAt(t, x, d)
      BY <2>1, <2>5, DynamicOwned
    <3>2. VariableAt(t, x, imp.pos) = Home(t, d) \/ Displaces(t, imp)
      BY <1>1, <3>1, DeclaratorHolder
    <3> QED BY <3>1, <3>2
  <2> QED BY <2>2, <2>3, <2>4, <2>5
<1> QED BY <1>3, <1>4

\* So does every resolved call site.
LEMMA ImportsFromExtracted == Extracted => CallsAreTheirImports
<1> SUFFICES ASSUME Extracted, NEW s \in sites, s.symbol # NoSymbol, s.import.specifier # Computed,
                    ~\E c \in s.import.inline : c.pos = s.pos
             PROVE  \/ VariableAt(TreeOf(s.file), s.import.local, s.pos) = Holder(s.file, s.import)
                    \/ Displaced(s.file, s.import)
  BY DEF CallsAreTheirImports
<1>1. sites = CallSitesOf(app, results, paths, depth)
  BY DEF Extracted
<1>2. PICK file \in DOMAIN results : \E imp \in results[file].imports :
            s \in SitesOf(app, file, results[file], imp, paths, depth)
  BY <1>1 DEF CallSitesOf
<1> DEFINE r == results[file]
           t == TreeOf(file)
<1>3. PICK imp \in r.imports : s \in SitesOf(app, file, r, imp, paths, depth)
  BY <1>2
<1>4. ReadFrom(t, r) /\ ReadsAsJavaScript(t)
  BY <1>3, FileIs
<1> HIDE DEF r, t
<1>5. \E pos, symbol :
         /\ s = Site(app, file, r, imp, pos, symbol, paths, depth)
         /\ \/ symbol = NoSymbol \/ (\E c \in imp.inline : c.pos = pos)
            \/ \E c \in r.calls : /\ c.pos = pos /\ SymbolCalled(imp, c) # {} /\ OwnsCall(r, imp, pos)
                                  /\ Ambiguous(r, imp, pos) => symbol = NoSymbol
  BY <1>3 DEF SitesOf
<1>6. PICK pos, symbol :
         /\ s = Site(app, file, r, imp, pos, symbol, paths, depth)
         /\ \/ symbol = NoSymbol \/ (\E c \in imp.inline : c.pos = pos)
            \/ \E c \in r.calls : /\ c.pos = pos /\ SymbolCalled(imp, c) # {} /\ OwnsCall(r, imp, pos)
                                  /\ Ambiguous(r, imp, pos) => symbol = NoSymbol
  BY <1>5
<1>7. s.file = file /\ s.import = imp /\ s.pos = pos /\ s.symbol = symbol
  BY <1>6 DEF Site
<1>8. PICK c \in r.calls : /\ c.pos = pos /\ SymbolCalled(imp, c) # {} /\ OwnsCall(r, imp, pos)
                           /\ ~Ambiguous(r, imp, pos)
  BY <1>6, <1>7
<1>9. imp.local # NoName
  BY <1>8 DEF SymbolCalled
<1>10. pos \in DOMAIN t
  BY <1>4, <1>8, CallIs DEF ReadFrom
<1>11. VariableAt(t, imp.local, pos) = VariableAt(t, imp.local, imp.pos) \/ Displaces(t, imp)
  BY <1>4, <1>7, <1>8, <1>9, <1>10, OwnedByVariable
<1>12. Displaces(t, imp) => Displaced(file, imp)
  BY DEF Displaces, Displaced, Holder, t
<1> QED BY <1>7, <1>11, <1>12 DEF Holder, t

\* A resolved call of a named package is made through the variable its import is
\* held by, never through a parameter or a declaration of the same name
\* (ImportOwnsCall).
THEOREM CallsOwned == Spec => []CallsAreTheirImports
<1> QED BY ExtractedInit, ExtractedNext, ImportsFromExtracted, PTL DEF Spec
=============================================================================
