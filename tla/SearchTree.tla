----------------------------- MODULE SearchTree -----------------------------
(***************************************************************************)
(* CBSTree of src/algorithm, a binary search tree with parent links and a  *)
(* frequency per key.  A node is named by its key; the heap of nodes is    *)
(* one record, which the helpers transform the way the statements of the   *)
(* code do.  A loop along the links is the set of the nodes it meets.      *)
(***************************************************************************)
EXTENDS Integers, FiniteSets, FiniteSetsExt

CONSTANTS
  Keys,       \* integers
  MaxFreq,    \* bound: how often a key is added
  MaxHeight,  \* bound: how far the heights count
  None

VARIABLES
  tree,       \* the nodes and m_root
  nodesCount, \* m_nodesCount
  freqCount,  \* m_freqCount
  result,     \* what the last call returned
  grown       \* history: nothing was removed yet

vars == <<tree, nodesCount, freqCount, result, grown>>
-----------------------------------------------------------------------------
All(v) == [k \in Keys |-> v]

(* What the proofs assume.                                                 *)
KeysOK == IsFiniteSet(Keys) /\ Keys \subseteq Int /\ None \notin Keys

Init ==
  /\ tree = [root |-> None, left |-> All(None), right |-> All(None), parent |-> All(None),
             red |-> All(TRUE), freq |-> All(0), lHeight |-> All(0), rHeight |-> All(0)]
  /\ nodesCount = 0 /\ freqCount = 0 /\ result = 0
  /\ grown = TRUE

(* What is met from S on, going from p to all of f[p].                     *)
Reached(f, S) ==
  LET reach[C \in SUBSET DOMAIN f] ==
        LET more == C \cup UNION {f[p] : p \in C} IN IF more = C THEN C ELSE reach[more]
  IN  reach[S]

(* The node a pointer leads to.                                            *)
At(n) == {n} \ {None}

(* Where the search for k goes from each node, and the nodes it meets.     *)
Way(t, k) == [n \in Keys |-> IF n = k THEN {} ELSE IF k < n THEN At(t.left[n]) ELSE At(t.right[n])]

Visited(t, k) == Reached(Way(t, k), At(t.root))

(* findNode                                                                *)
HasNode(t, k) == k \in Visited(t, k)

(* parentNode of addValue: where the search for k ends in vain.            *)
ParentFor(t, k) == IF t.root = None THEN None ELSE CHOOSE n \in Visited(t, k) : Way(t, k)[n] = {}

ChildsHeight(t, n) == Max({t.lHeight[n], t.rHeight[n]})

(* Faulty: the heights of the ancestors all grow.                          *)
GrowsBug(t, m) == t.parent[m] # None

(* One more below m makes m's parent higher.                               *)
Grows(t, m) ==
  LET p == t.parent[m] IN
    p # None /\ IF t.left[p] = m THEN t.lHeight[p] >= t.rHeight[p] ELSE t.rHeight[p] >= t.lHeight[p]

(* CBSTree::adjust goes up as long as the heights grow; each node it meets *)
(* adds one to its side of its parent.                                     *)
Notifying(t, k) ==
  {m \in Reached([m \in Keys |-> IF Grows(t, m) THEN {t.parent[m]} ELSE {}], {k}) : t.parent[m] # None}

AdjustHeights(t, k) ==
  LET raised(p) == {m \in Notifying(t, k) : t.parent[m] = p} IN
    [t EXCEPT !.lHeight = [p \in Keys |-> IF t.left[p] \in raised(p) THEN @[p] + 1 ELSE @[p]],
              !.rHeight = [p \in Keys |-> IF raised(p) \ {t.left[p]} # {} THEN @[p] + 1 ELSE @[p]]]

(* A new node under p, which is None for the first.                        *)
Attached(t, p, k) ==
  LET new == [t EXCEPT !.left[k] = None, !.right[k] = None, !.parent[k] = p, !.red[k] = TRUE,
                       !.freq[k] = 1, !.lHeight[k] = 0, !.rHeight[k] = 0]
  IN  IF p = None THEN new
      ELSE IF k < p THEN [new EXCEPT !.left[p] = k] ELSE [new EXCEPT !.right[p] = k]

(* The tree with a node for k where the search for it ended.               *)
WithNode(t, k) == Attached(t, ParentFor(t, k), k)

(* addValue; adjusted is what the adjust() of the class makes of the tree  *)
(* with the new node.                                                      *)
AddValueBy(adjusted, k) ==
  /\ IF HasNode(tree, k)
     THEN /\ tree.freq[k] < MaxFreq
          /\ tree' = [tree EXCEPT !.freq[k] = @ + 1]
          /\ UNCHANGED nodesCount
     ELSE /\ tree' = [adjusted EXCEPT !.root = IF tree.root = None THEN k ELSE @]
          /\ \A n \in Keys : ChildsHeight(tree', n) <= MaxHeight
          /\ nodesCount' = nodesCount + 1
  /\ freqCount' = freqCount + 1
  /\ result' = tree'.freq[k]
  /\ UNCHANGED grown

AddValue(k) == AddValueBy(AdjustHeights(WithNode(tree, k), k), k)
-----------------------------------------------------------------------------
(* The ends of the right and of the left links from n on.                  *)
MostRight(t, n) ==
  CHOOSE m \in Reached([p \in Keys |-> At(t.right[p])], {n}) : t.right[m] = None

MostLeft(t, n) ==
  CHOOSE m \in Reached([p \in Keys |-> At(t.left[p])], {n}) : t.left[m] = None

(* Node m leaves its parent.                                               *)
Freed(t, m) ==
  LET q == t.parent[m] IN
    IF t.right[q] = m THEN [t EXCEPT !.right[q] = None] ELSE [t EXCEPT !.left[q] = None]

(* Faulty: the right subtree keeps its old parent link; or the left one is *)
(* not linked again.                                                       *)
RelinkedBug(t, n, m) ==
  LET p == MostLeft(t, m) IN
    [t EXCEPT !.left[p] = t.left[n], !.parent[t.left[n]] = p, !.right[m] = t.right[n]]

RelinkedLostBug(t, n, m) ==
  [t EXCEPT !.right[m] = t.right[n],
            !.parent = IF t.right[n] = None THEN @ ELSE [@ EXCEPT ![t.right[n]] = m]]

(* The left subtree of n goes to the left end of the subtree of m, the     *)
(* right one to the right of m.                                            *)
Relinked(t, n, m) ==
  LET p == MostLeft(t, m)
      a == [t EXCEPT !.left[p] = t.left[n], !.parent[t.left[n]] = p]
  IN  [a EXCEPT !.right[m] = t.right[n],
                !.parent = IF t.right[n] = None THEN @ ELSE [@ EXCEPT ![t.right[n]] = m]]

(* Removing a node with a left child: the most right node of its left      *)
(* subtree takes its place.  When that is the left child itself, the link  *)
(* that Relinked makes is the one that Freed cuts.                         *)
Replacement(t, n) ==
  LET m == MostRight(t, t.left[n]) IN Freed(Relinked(t, n, m), m)

(* removeValue without the counters.                                       *)
Removed(t, n) ==
  LET up == t.parent[n]
      next == IF t.left[n] # None THEN MostRight(t, t.left[n]) ELSE t.right[n]
      a == IF t.left[n] # None THEN Replacement(t, n) ELSE t
      b == IF up = None THEN [a EXCEPT !.root = next]
           ELSE IF a.left[up] = n THEN [a EXCEPT !.left[up] = next]
           ELSE [a EXCEPT !.right[up] = next]
      c == IF next = None THEN b ELSE [b EXCEPT !.parent[next] = up]
  IN  [c EXCEPT !.left[n] = None, !.right[n] = None, !.parent[n] = None, !.red[n] = TRUE,
                !.freq[n] = 0, !.lHeight[n] = 0, !.rHeight[n] = 0]

Absent(k) ==
  /\ ~HasNode(tree, k)
  /\ result' = -1
  /\ UNCHANGED <<tree, nodesCount, freqCount, grown>>

RemoveValue(k) ==
  \/ Absent(k)
  \/ /\ HasNode(tree, k)
     /\ tree' = Removed(tree, k)
     /\ nodesCount' = nodesCount - 1
     /\ freqCount' = freqCount - tree.freq[k]
     /\ result' = tree.freq[k]
     /\ grown' = FALSE

(* Faulty: removeValue takes the last one off m_freqCount as well.         *)
DelValueBug(k) ==
  \/ Absent(k)
  \/ /\ HasNode(tree, k)
     /\ IF tree.freq[k] = 1
        THEN tree' = Removed(tree, k) /\ nodesCount' = nodesCount - 1 /\ grown' = FALSE
                /\ freqCount' = freqCount - 2
        ELSE tree' = [tree EXCEPT !.freq[k] = @ - 1] /\ UNCHANGED <<nodesCount, grown>>
                /\ freqCount' = freqCount - 1
     /\ result' = tree.freq[k] - 1

(* delValue; removeValue subtracts the frequency 0.                        *)
DelValue(k) ==
  \/ Absent(k)
  \/ /\ HasNode(tree, k)
     /\ \/ /\ tree.freq[k] = 1
           /\ tree' = Removed(tree, k)
           /\ nodesCount' = nodesCount - 1
           /\ grown' = FALSE
        \/ /\ tree.freq[k] > 1
           /\ tree' = [tree EXCEPT !.freq[k] = @ - 1]
           /\ UNCHANGED <<nodesCount, grown>>
     /\ freqCount' = freqCount - 1
     /\ result' = tree.freq[k] - 1

Next == \E k \in Keys : AddValue(k) \/ DelValue(k) \/ RemoveValue(k)

Spec == Init /\ [][Next]_vars
-----------------------------------------------------------------------------
(* The subtree of n.                                                       *)
Children(t) == [p \in Keys |-> At(t.left[p]) \cup At(t.right[p])]

Under(t, n) == Reached(Children(t), At(n))

Nodes == Under(tree, tree.root)

(* The parent links are the child links turned round: removeValue and      *)
(* adjust walk them upwards.                                               *)
LinksAgree ==
  /\ tree.root # None => tree.parent[tree.root] = None
  /\ \A n \in Nodes : \A c \in {tree.left[n], tree.right[n]} \ {None} : tree.parent[c] = n

(* The counters getNodeCount() and getFreqCount() return, whatever mix of  *)
(* delValue and removeValue came before.                                   *)
CountsAgree ==
  /\ nodesCount = Cardinality(Nodes)
  /\ freqCount = MapThenSumSet(LAMBDA n : tree.freq[n], Nodes)

Height(t, n) ==
  LET h[m \in Keys \cup {None}] == IF m = None THEN 0 ELSE 1 + Max({h[t.left[m]], h[t.right[m]]})
  IN  h[n]

(* bsearch_tree_test.cpp: while nodes are only added, adjust() keeps the   *)
(* exact heights of both subtrees although it stops early.                 *)
HeightsExact ==
  grown => \A n \in Nodes : /\ tree.lHeight[n] = Height(tree, tree.left[n])
                            /\ tree.rHeight[n] = Height(tree, tree.right[n])

(* The tree is the multiset its header promises: the search finds exactly  *)
(* the keys that were added and not deleted, with their frequencies, after *)
(* any rearrangement by removeValue, and every call returns accordingly.   *)
Bag == INSTANCE Multiset WITH
  Missing <- -1, Answer <- LAMBDA n : n,
  freq <- [k \in Keys |-> IF HasNode(tree, k) THEN tree.freq[k] ELSE 0]

ImplementsBag == Bag!Spec
=============================================================================
