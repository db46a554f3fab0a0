-------------------------------- MODULE Heap --------------------------------
(***************************************************************************)
(* CHeap of src/algorithm, an array that is filled, made a heap, sorted or *)
(* partitioned, and CTopNHeap, which keeps the SIZE largest nodes it was   *)
(* shown.  A node is its key.  Precondition: of the calls a CTopNHeap      *)
(* inherits only sortHeap is used; addNode, createMaxHeap and the          *)
(* selections would take its order away, and nothing in it forbids them.   *)
(***************************************************************************)
EXTENDS Integers, FiniteSets, FiniteSetsExt

CONSTANTS
  Values,     \* the keys, integers
  SIZE,
  MaxGiven    \* bound: how often a key is shown to a CTopNHeap

VARIABLES
  nodes,      \* m_nodes; what lies behind m_nodesCount is 0
  nodesCount, \* m_nodesCount
  top,        \* the object is a CTopNHeap
  sel,        \* the call of selectMaxN or selectMinN that goes on: biggest, left, right, k
  given,      \* history: how often each key was given
  order       \* history: what the last call made of the array: its kind and k

vars == <<nodes, nodesCount, top, sel, given, order>>

(* There is room for a node; the keys are finitely many integers.          *)
HeapOK == SIZE \in Nat \ {0} /\ IsFiniteSet(Values) /\ Values \subseteq Int

Idle == [biggest |-> TRUE, left |-> 0, right |-> 0, k |-> 0]

InitWith(isTop) ==
  /\ nodes = [i \in 0 .. SIZE - 1 |-> 0]
  /\ nodesCount = 0
  /\ top = isTop
  /\ sel = Idle
  /\ given = [v \in Values |-> 0]
  /\ order = <<"none", 0>>

(* IsBigger and IsSmaller                                                  *)
Before(biggest, x, y) == IF biggest THEN x > y ELSE x < y

ExchangeNodes(a, l, r) == [a EXCEPT ![l] = a[r], ![r] = a[l]]

(* One call of maxOrMinHeap for the first n nodes: the node at s[2] changes *)
(* places with a child that should be before it.  The faulty one takes a   *)
(* left child without a right one for a leaf.                              *)
SunkBug(s, n, max) ==
  LET a == s[1]  i == s[2]  left == 2 * i + 1
      child == IF Before(max, a[left + 1], a[left]) THEN left + 1 ELSE left
  IN  IF left + 1 > n - 1 \/ ~Before(max, a[child], a[i]) THEN s
      ELSE <<ExchangeNodes(a, i, child), child>>

Sunk(s, n, max) ==
  LET a == s[1]  i == s[2]  left == 2 * i + 1
      child == IF left + 1 <= n - 1 /\ Before(max, a[left + 1], a[left])
               THEN left + 1 ELSE left
  IN  IF left > n - 1 \/ ~Before(max, a[child], a[i]) THEN s
      ELSE <<ExchangeNodes(a, i, child), child>>

(* maxOrMinHeap with its recursive calls, of which there are less than n.  *)
Sift(a, n, i, max) ==
  LET sunk[k \in 0 .. n] == IF k = 0 THEN <<a, i>> ELSE Sunk(sunk[k - 1], n, max) IN sunk[n][1]

(* createMaxHeap and createMinHeap: the array when node i has been sifted. *)
CreateHeap(a, n, max) ==
  LET heap[i \in 0 .. n \div 2] ==
        IF i = n \div 2 THEN a ELSE Sift(heap[i + 1], n, i, max)
  IN  heap[0]

(* The loop of sortHeap: the array when nodes i .. n - 1 are in place.     *)
SortDown(a, n) ==
  LET done[i \in 1 .. n] ==
        IF i = n THEN a ELSE Sift(ExchangeNodes(done[i + 1], i, 0), i, 0, TRUE)
  IN  IF n = 0 THEN a ELSE done[1]

(* partition with the pivot at right: the array and the pivot's place.     *)
(* Before node i is looked at, what is before the pivot ends at looked[2]. *)
Moved(s, i, right, max) ==
  IF Before(max, s[1][i], s[1][right]) THEN <<ExchangeNodes(s[1], s[2] + 1, i), s[2] + 1>> ELSE s

Partition(a, left, right, max) ==
  LET looked[i \in left .. right] ==
        IF i = left THEN <<a, left - 1>> ELSE Moved(looked[i - 1], i - 1, right, max)
      pos == looked[right][2] + 1
  IN  <<ExchangeNodes(looked[right][1], pos, right), pos>>

(* choosePivotByMedian: left gets the median, which is the pivot.          *)
MedianLeft(a, left, right) ==
  LET mid == (left + right) \div 2
      b == IF a[left] < a[mid] THEN ExchangeNodes(a, left, mid) ELSE a
      c == IF b[right] < b[mid] THEN ExchangeNodes(b, right, mid) ELSE b
  IN  IF c[right] < c[left] THEN ExchangeNodes(c, right, left) ELSE c
-----------------------------------------------------------------------------
AddNode(v) ==
  /\ ~top /\ sel = Idle /\ nodesCount < SIZE
  /\ nodes' = [nodes EXCEPT ![nodesCount] = v]
  /\ nodesCount' = nodesCount + 1
  /\ given' = [given EXCEPT ![v] = @ + 1]
  /\ order' = <<"none", 0>>
  /\ UNCHANGED <<top, sel>>

CreateMaxOrMinHeap(max) ==
  /\ ~top /\ sel = Idle
  /\ nodes' = CreateHeap(nodes, nodesCount, max)
  /\ order' = <<IF max THEN "max" ELSE "min", 0>>
  /\ UNCHANGED <<nodesCount, top, sel, given>>

SortHeap ==
  /\ sel = Idle
  /\ nodes' = SortDown(CreateHeap(nodes, nodesCount, TRUE), nodesCount)
  /\ order' = <<"sorted", 0>>
  /\ UNCHANGED <<nodesCount, top, sel, given>>

Select(biggest, k) ==
  /\ ~top /\ sel = Idle
  /\ sel' = [biggest |-> biggest, left |-> 0, right |-> nodesCount - 1, k |-> k]
  /\ order' = <<"none", 0>>
  /\ UNCHANGED <<nodes, nodesCount, top, given>>

(* Faulty: the pivot's place is looked at again.                           *)
NarrowedBug(pos) ==
  IF pos = sel.k - 1 THEN Idle
  ELSE IF pos > sel.k - 1 THEN [sel EXCEPT !.right = pos - 1] ELSE [sel EXCEPT !.left = pos + 2]

(* The range of the recursive call.                                        *)
Narrowed(pos) ==
  IF pos = sel.k - 1 THEN Idle
  ELSE IF pos > sel.k - 1 THEN [sel EXCEPT !.right = pos - 1] ELSE [sel EXCEPT !.left = pos + 1]

(* One level of the recursion: selectMaxN takes a random pivot, selectMinN *)
(* the median of three.                                                    *)
SelectStep ==
  /\ sel # Idle
  /\ \E index \in IF sel.biggest THEN sel.left .. sel.right ELSE {sel.left} :
       LET a == IF sel.biggest THEN nodes ELSE MedianLeft(nodes, sel.left, sel.right)
           p == Partition(ExchangeNodes(a, index, sel.right), sel.left, sel.right, sel.biggest)
       IN  /\ nodes' = p[1]
           /\ sel' = Narrowed(p[2])
           /\ order' = IF sel' = Idle THEN <<IF sel.biggest THEN "big" ELSE "small", sel.k>>
                       ELSE order
  /\ UNCHANGED <<nodesCount, top, given>>

(* checkNode: fills up, then replaces the root by what is bigger.          *)
CheckNode(v) ==
  /\ top /\ given[v] < MaxGiven
  /\ \/ /\ nodesCount < SIZE
        /\ nodes' = CreateHeap([nodes EXCEPT ![nodesCount] = v], nodesCount + 1, FALSE)
        /\ nodesCount' = nodesCount + 1
     \/ /\ nodesCount = SIZE /\ v > nodes[0]
        /\ nodes' = Sift([nodes EXCEPT ![0] = v], SIZE, 0, FALSE)
        /\ UNCHANGED nodesCount
     \/ /\ nodesCount = SIZE /\ v <= nodes[0]
        /\ UNCHANGED <<nodes, nodesCount>>
  /\ given' = [given EXCEPT ![v] = @ + 1]
  /\ order' = <<"none", 0>>
  /\ UNCHANGED <<top, sel>>

Next ==
  \/ \E v \in Values : AddNode(v) \/ CheckNode(v)
  \/ \E max \in BOOLEAN : CreateMaxOrMinHeap(max) \/ \E k \in 1 .. nodesCount : Select(max, k)
  \/ SortHeap \/ SelectStep
-----------------------------------------------------------------------------
Held == 0 .. nodesCount - 1

Separated(biggest, k) ==
  \A i, j \in Held : i < k /\ k <= j => ~Before(biggest, nodes[j], nodes[i])

(* heap_test.cpp: after each call the array is in the order the call       *)
(* promises, and a CTopNHeap is a min heap at every moment, after sortHeap *)
(* as well.  During a selection the place k - 1 stays within the range and *)
(* what lies outside is already on its side.                               *)
Ordered ==
  /\ order[1] = "max" \/ order[1] = "min" \/ top =>
       \A i \in Held : i > 0 => ~Before(order[1] = "max", nodes[i], nodes[(i - 1) \div 2])
  /\ order[1] = "sorted" => \A i, j \in Held : i < j => nodes[i] <= nodes[j]
  /\ order[1] \in {"big", "small"} => Separated(order[1] = "big", order[2])
  /\ sel # Idle => /\ sel.k - 1 \in sel.left .. sel.right
                   /\ Separated(sel.biggest, sel.left) /\ Separated(sel.biggest, sel.right + 1)

Bigger(v) == MapThenSumSet(LAMBDA w : given[w], {w \in Values : w > v})

(* No call loses or invents a node: the array holds what it was given, and *)
(* a CTopNHeap the SIZE largest of all it was shown.                       *)
Holds ==
  \A v \in Values :
    Cardinality({i \in Held : nodes[i] = v})
      = IF top THEN Max({0, Min({given[v], SIZE - Bigger(v)})}) ELSE given[v]
=============================================================================
