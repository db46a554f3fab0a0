------------------------------ MODULE HashMap -------------------------------
(***************************************************************************)
(* CHashMap of src/algorithm: buckets with chains of nodes, a count per    *)
(* node.  A node is named by its data.                                     *)
(***************************************************************************)
EXTENDS Integers, FiniteSets, FiniteSetsExt

CONSTANTS
  Keys,
  Buckets,
  Bucket(_),  \* BKDRHash(data) % HASHLEN
  MaxCount,   \* bound: how often a key is added
  None

VARIABLES
  head,       \* m_nodes
  next,       \* the next node of each node's chain
  count,      \* the count of each node, 0 when it is not there
  nodesCount, \* m_nodesCount
  result      \* what the last call returned

vars == <<head, next, count, nodesCount, result>>

(* What the proofs assume.                                                 *)
KeysOK ==
  /\ IsFiniteSet(Keys) /\ None \notin Keys
  /\ \A k \in Keys : Bucket(k) \in Buckets

Init ==
  /\ head = [b \in Buckets |-> None]
  /\ next = [k \in Keys |-> None]
  /\ count = [k \in Keys |-> 0]
  /\ nodesCount = 0 /\ result = 0

(* The nodes met from n on along nx: the least set that holds n and, with  *)
(* each node, the next one.                                                *)
Closed(C, nx, n) == n \in C \cup {None} /\ \A p \in C : nx[p] \in C \cup {None}

From(nx, n) == {k \in Keys : \A C \in SUBSET Keys : Closed(C, nx, n) => k \in C}

Chain(b) == From(next, head[b])

Nodes == UNION {Chain(b) : b \in Buckets}

(* findNode                                                                *)
HasNode(k) == k \in Chain(Bucket(k))

(* Faulty: the new node starts a chain of its own.                         *)
AddNodeBug(k) ==
  /\ count[k] < MaxCount
  /\ IF HasNode(k) THEN UNCHANGED <<head, next>>
     ELSE head' = [head EXCEPT ![Bucket(k)] = k] /\ UNCHANGED next
  /\ count' = [count EXCEPT ![k] = @ + 1]
  /\ nodesCount' = nodesCount + 1
  /\ result' = count'[k]

AddNode(k) ==
  /\ count[k] < MaxCount
  /\ IF HasNode(k) THEN UNCHANGED <<head, next>>
     ELSE /\ next' = [next EXCEPT ![k] = head[Bucket(k)]]
          /\ head' = [head EXCEPT ![Bucket(k)] = k]
  /\ count' = [count EXCEPT ![k] = @ + 1]
  /\ nodesCount' = nodesCount + 1
  /\ result' = count'[k]

(* The node leaves its chain and is deleted.                               *)
Unlink(k) ==
  /\ LET parents == {p \in Chain(Bucket(k)) : next[p] = k} IN
       IF parents = {}
       THEN head' = [head EXCEPT ![Bucket(k)] = next[k]] /\ next' = [next EXCEPT ![k] = None]
       ELSE /\ next' = [p \in Keys |-> IF p \in parents THEN next[k]
                                       ELSE IF p = k THEN None ELSE next[p]]
            /\ UNCHANGED head
  /\ count' = [count EXCEPT ![k] = 0]

Absent(k) == ~HasNode(k) /\ result' = -1 /\ UNCHANGED <<head, next, count, nodesCount>>

(* Faulty: one node less.                                                  *)
RemoveNodeBug(k) ==
  \/ Absent(k)
  \/ HasNode(k) /\ Unlink(k) /\ nodesCount' = nodesCount - 1 /\ result' = 0

RemoveNode(k) ==
  \/ Absent(k)
  \/ HasNode(k) /\ Unlink(k) /\ nodesCount' = nodesCount - count[k] /\ result' = 0

(* The count is 0 when delNode calls removeNode, which subtracts it.       *)
DelNode(k) ==
  \/ Absent(k)
  \/ /\ HasNode(k)
     /\ \/ count[k] = 1 /\ Unlink(k)
        \/ count[k] > 1 /\ count' = [count EXCEPT ![k] = @ - 1] /\ UNCHANGED <<head, next>>
     /\ nodesCount' = nodesCount - 1
     /\ result' = count'[k]

Next == \E k \in Keys : AddNode(k) \/ DelNode(k) \/ RemoveNode(k)

Spec == Init /\ [][Next]_vars
-----------------------------------------------------------------------------
(* getNodesCount() is the sum of the counts of the nodes in the chains.    *)
CountsAgree == nodesCount = MapThenSumSet(LAMBDA k : count[k], Nodes)

(* Whatever shares a bucket, the search finds the keys that were added and *)
(* not deleted with their counts, and every call returns accordingly.      *)
Bag == INSTANCE Multiset WITH
  Missing <- -1, Answer <- LAMBDA n : 0,
  freq <- [k \in Keys |-> IF HasNode(k) THEN count[k] ELSE 0]

ImplementsBag == Bag!Spec
=============================================================================
