-------------------------- MODULE ContainersProofs --------------------------
(***************************************************************************)
(* Proofs about Containers: what TreeProofs shows of CBSTree, the chains   *)
(* of CHashMap, the nodes of CUrlTrieTree, and the theorems about all of   *)
(* them under the specification of Containers.                             *)
(***************************************************************************)
EXTENDS Containers, ListTheorems

(* CHashMap.                                                               *)

(* What the assumption says of the keys.                                   *)
LEMMA HashKeys == ASSUME Hash!KeysOK PROVE IsFiniteSet(Keys) /\ None \notin Keys
BY DEF Hash!KeysOK, Hash!IsFiniteSet, IsFiniteSet

(* A chain is itself closed, and no larger than any closed set.            *)
LEMMA FromClosed ==
  ASSUME Hash!KeysOK, NEW nx \in [Keys -> Keys \cup {None}], NEW n \in Keys \cup {None}
  PROVE  /\ Hash!From(nx, n) \subseteq Keys
         /\ Hash!Closed(Hash!From(nx, n), nx, n)
         /\ \A C \in SUBSET Keys : Hash!Closed(C, nx, n) => Hash!From(nx, n) \subseteq C
<1>1. Hash!From(nx, n) \subseteq Keys
  BY DEF Hash!From
<1>2. n \in Hash!From(nx, n) \cup {None}
  <2>1. SUFFICES ASSUME n # None PROVE n \in Hash!From(nx, n)
    OBVIOUS
  <2>2. \A C \in SUBSET Keys : Hash!Closed(C, nx, n) => n \in C
    BY <2>1 DEF Hash!Closed
  <2> QED
    BY <2>1, <2>2 DEF Hash!From
<1>3. ASSUME NEW p \in Hash!From(nx, n), nx[p] # None PROVE nx[p] \in Hash!From(nx, n)
  <2>1. p \in Keys /\ nx[p] \in Keys
    BY <1>1, <1>3
  <2>2. ASSUME NEW C \in SUBSET Keys, Hash!Closed(C, nx, n) PROVE nx[p] \in C
    <3>1. p \in C
      BY <2>2 DEF Hash!From
    <3> QED
      BY <1>3, <2>2, <3>1 DEF Hash!Closed
  <2> QED
    BY <2>1, <2>2 DEF Hash!From
<1>4. \A C \in SUBSET Keys : Hash!Closed(C, nx, n) => Hash!From(nx, n) \subseteq C
  BY DEF Hash!From
<1> QED
  BY <1>1, <1>2, <1>3, <1>4 DEF Hash!Closed

(* A set is the chain if it is closed and within every other closed set.   *)
LEMMA FromIs ==
  ASSUME Hash!KeysOK, NEW nx \in [Keys -> Keys \cup {None}], NEW n \in Keys \cup {None},
         NEW D \in SUBSET Keys, Hash!Closed(D, nx, n),
         \A C \in SUBSET Keys : Hash!Closed(C, nx, n) => D \subseteq C
  PROVE  Hash!From(nx, n) = D
<1>1. Hash!From(nx, n) \subseteq D
  BY FromClosed
<1>2. D \subseteq Hash!From(nx, n)
  BY FromClosed
<1> QED
  BY <1>1, <1>2

(* What happens outside a chain does not matter to it.                     *)
LEMMA FromSame ==
  ASSUME Hash!KeysOK, NEW nx \in [Keys -> Keys \cup {None}], NEW ny \in [Keys -> Keys \cup {None}],
         NEW n \in Keys \cup {None}, \A p \in Hash!From(nx, n) : ny[p] = nx[p]
  PROVE  Hash!From(ny, n) = Hash!From(nx, n)
<1> DEFINE D == Hash!From(nx, n)
<1>1. D \in SUBSET Keys /\ Hash!Closed(D, nx, n)
  BY FromClosed
<1>2. Hash!Closed(D, ny, n)
  BY <1>1 DEF Hash!Closed
<1>3. ASSUME NEW C \in SUBSET Keys, Hash!Closed(C, ny, n) PROVE D \subseteq C
  <2>1. Hash!Closed(C \cap D, nx, n)
    BY <1>1, <1>3 DEF Hash!Closed
  <2>2. C \cap D \in SUBSET Keys
    OBVIOUS
  <2> QED
    BY <2>1, <2>2, FromClosed
<1> HIDE DEF D
<1> QED
  BY <1>1, <1>2, <1>3, FromIs DEF D

(* The node a search meets k after.                                        *)
Before(nx, n, k) == {p \in Hash!From(nx, n) : nx[p] = k}

Single(nx, n) ==
  /\ \A p, q \in Hash!From(nx, n) : nx[p] = nx[q] /\ nx[p] # None => p = q
  /\ \A p \in Hash!From(nx, n) : nx[p] # None => nx[p] # n

(* Only the first node of a chain has none before it, and none is before   *)
(* itself.                                                                 *)
LEMMA FirstHasNoneBefore ==
  ASSUME Hash!KeysOK, NEW nx \in [Keys -> Keys \cup {None}], NEW n \in Keys \cup {None}, Single(nx, n),
         NEW k \in Hash!From(nx, n)
  PROVE  /\ Before(nx, n, k) = {} <=> k = n
         /\ nx[k] # k
<1> DEFINE D == Hash!From(nx, n)
<1>1. D \in SUBSET Keys /\ Hash!Closed(D, nx, n)
  BY FromClosed
<1>2. k \in Keys /\ k # None
  BY <1>1 DEF Hash!KeysOK
<1>3. ASSUME k # n, \A p \in D : nx[p] = k => p = k PROVE FALSE
  <2>1. Hash!Closed(D \ {k}, nx, n)
    BY <1>1, <1>2, <1>3 DEF Hash!Closed
  <2>2. D \ {k} \in SUBSET Keys
    BY <1>1
  <2> QED
    BY <2>1, <2>2, FromClosed
<1>4. nx[k] # k
  <2>1. SUFFICES ASSUME nx[k] = k PROVE FALSE
    OBVIOUS
  <2>2. k # n
    BY <1>2, <2>1 DEF Single
  <2>3. \A p \in D : nx[p] = k => p = k
    BY <1>2, <2>1 DEF Single
  <2> QED
    BY <1>3, <2>2, <2>3
<1>5. k = n => Before(nx, n, k) = {}
  BY <1>2 DEF Before, Single
<1>6. Before(nx, n, k) = {} => k = n
  BY <1>3 DEF Before
<1> QED
  BY <1>4, <1>5, <1>6

(* A node in front of a chain.                                             *)
LEMMA ChainAdd ==
  ASSUME Hash!KeysOK, NEW nx \in [Keys -> Keys \cup {None}], NEW n \in Keys \cup {None}, Single(nx, n),
         NEW k \in Keys, k \notin Hash!From(nx, n)
  PROVE  /\ Hash!From([nx EXCEPT ![k] = n], k) = Hash!From(nx, n) \cup {k}
         /\ Single([nx EXCEPT ![k] = n], k)
<1> DEFINE ny == [nx EXCEPT ![k] = n]
<1> DEFINE D == Hash!From(nx, n)
<1>1. D \in SUBSET Keys /\ Hash!Closed(D, nx, n)
  BY FromClosed
<1>2. ny \in [Keys -> Keys \cup {None}] /\ ny[k] = n /\ \A p \in Keys : p # k => ny[p] = nx[p]
  OBVIOUS
<1>3. k \notin D
  OBVIOUS
<1> HIDE DEF ny
<1>4. Hash!Closed(D \cup {k}, ny, k)
  BY <1>1, <1>2 DEF Hash!Closed
<1>5. ASSUME NEW C \in SUBSET Keys, Hash!Closed(C, ny, k) PROVE D \cup {k} \subseteq C
  <2>1. k \in C
    BY <1>5 DEF Hash!Closed, Hash!KeysOK
  <2>2. Hash!Closed(C \cap D, nx, n)
    BY <1>1, <1>2, <1>3, <1>5, <2>1 DEF Hash!Closed
  <2>3. C \cap D \in SUBSET Keys
    OBVIOUS
  <2>4. D \subseteq C \cap D
    BY <2>2, <2>3, FromClosed
  <2> QED
    BY <2>1, <2>4
<1>6. Hash!From(ny, k) = D \cup {k}
  <2>1. D \cup {k} \in SUBSET Keys /\ k \in Keys \cup {None}
    BY <1>1
  <2> HIDE DEF D
  <2> QED
    BY <1>2, <1>4, <1>5, <2>1, FromIs
<1>7. ASSUME NEW p \in D \cup {k}, NEW q \in D \cup {k}, ny[p] = ny[q], ny[p] # None PROVE p = q
  <2>1. CASE p \in D /\ q \in D
    BY <1>1, <1>2, <1>3, <1>7, <2>1 DEF Single
  <2>2. CASE p = k /\ q \in D
    BY <1>1, <1>2, <1>3, <1>7, <2>2 DEF Single
  <2>3. CASE p \in D /\ q = k
    BY <1>1, <1>2, <1>3, <1>7, <2>3 DEF Single
  <2> QED
    BY <2>1, <2>2, <2>3
<1>8. ASSUME NEW p \in D \cup {k}, ny[p] # None PROVE ny[p] # k
  <2>1. CASE p = k
    BY <1>1, <1>2, <1>3, <1>8, <2>1 DEF Hash!Closed
  <2>2. CASE p \in D /\ p # k
    BY <1>1, <1>2, <1>3, <1>8, <2>2 DEF Hash!Closed
  <2> QED
    BY <2>1, <2>2
<1>9. Hash!From(ny, k) = Hash!From(nx, n) \cup {k} /\ Single(ny, k)
  BY <1>6, <1>7, <1>8 DEF Single
<1> QED
  BY <1>9 DEF ny

(* A node taken out of the chain, the first one or another one.            *)
LEMMA ChainRemoveFirst ==
  ASSUME Hash!KeysOK, NEW nx \in [Keys -> Keys \cup {None}], NEW k \in Keys, Single(nx, k),
         NEW ny, ny = [nx EXCEPT ![k] = None]
  PROVE  Hash!From(ny, nx[k]) = Hash!From(nx, k) \ {k} /\ Single(ny, nx[k])
<1> DEFINE D == Hash!From(nx, k)
           m == nx[k]
<1>1. D \in SUBSET Keys /\ Hash!Closed(D, nx, k)
  BY FromClosed
<1>2. /\ ny \in [Keys -> Keys \cup {None}] /\ ny[k] = None
      /\ \A p \in Keys : p # k => ny[p] = nx[p]
      /\ m \in Keys \cup {None}
  OBVIOUS
<1>3. k \in D /\ m # k /\ \A p \in D : nx[p] # k
  <2>1. k \in D
    BY <1>1 DEF Hash!Closed, Hash!KeysOK
  <2> QED
    BY <2>1, FirstHasNoneBefore DEF Before
<1>4. Hash!Closed(D \ {k}, ny, m)
  BY <1>1, <1>2, <1>3 DEF Hash!Closed
<1>5. ASSUME NEW C \in SUBSET Keys, Hash!Closed(C, ny, m) PROVE D \ {k} \subseteq C
  <2>1. Hash!Closed((C \cap D) \cup {k}, nx, k)
    BY <1>1, <1>2, <1>3, <1>5 DEF Hash!Closed
  <2>2. (C \cap D) \cup {k} \in SUBSET Keys
    OBVIOUS
  <2>3. D \subseteq (C \cap D) \cup {k}
    BY <2>1, <2>2, FromClosed
  <2> QED
    BY <2>3
<1>6. Hash!From(ny, m) = D \ {k}
  <2>1. D \ {k} \in SUBSET Keys
    BY <1>1
  <2> HIDE DEF D, m
  <2> QED
    BY <1>2, <1>4, <1>5, <2>1, FromIs
<1>7. ASSUME NEW p \in D \ {k} PROVE p \in Keys /\ ny[p] = nx[p]
  BY <1>1, <1>2
<1>8. ASSUME NEW p \in D \ {k}, ny[p] # None PROVE ny[p] # m
  BY <1>3, <1>7, <1>8 DEF Single
<1>9. \A p, q \in D \ {k} : ny[p] = ny[q] /\ ny[p] # None => p = q
  BY <1>7 DEF Single
<1> QED
  BY <1>6, <1>8, <1>9 DEF Single

LEMMA ChainRemoveLater ==
  ASSUME Hash!KeysOK, NEW nx \in [Keys -> Keys \cup {None}], NEW n \in Keys \cup {None}, Single(nx, n),
         NEW k \in Hash!From(nx, n), Before(nx, n, k) # {},
         NEW ny, ny = [p \in Keys |-> IF p \in Before(nx, n, k) THEN nx[k]
                                      ELSE IF p = k THEN None ELSE nx[p]]
  PROVE  Hash!From(ny, n) = Hash!From(nx, n) \ {k} /\ Single(ny, n)
<1> DEFINE D == Hash!From(nx, n)
<1>1. D \in SUBSET Keys /\ Hash!Closed(D, nx, n)
  BY FromClosed
<1>2. PICK p \in D : nx[p] = k
  BY DEF Before
<1>3. k # n /\ k # None /\ nx[k] # k /\ k \in Keys
  BY <1>1, FirstHasNoneBefore DEF Hash!KeysOK
<1>4. p # k /\ \A q \in D : nx[q] = k => q = p
  BY <1>2, <1>3 DEF Single
<1>5. Before(nx, n, k) = {p}
  BY <1>2, <1>4 DEF Before
<1>6. /\ ny \in [Keys -> Keys \cup {None}] /\ ny[p] = nx[k] /\ ny[k] = None
      /\ \A q \in Keys : q # p /\ q # k => ny[q] = nx[q]
  <2>1. p \in Keys /\ nx[k] \in Keys \cup {None}
    BY <1>1, <1>3
  <2> QED
    BY <1>3, <1>4, <1>5, <2>1
<1>7. Hash!Closed(D \ {k}, ny, n)
  <2>1. n \in (D \ {k}) \cup {None}
    BY <1>1, <1>3 DEF Hash!Closed
  <2>2. ASSUME NEW q \in D \ {k} PROVE ny[q] \in (D \ {k}) \cup {None}
    <3>1. CASE q = p
      BY <1>1, <1>3, <1>6, <3>1 DEF Hash!Closed
    <3>2. CASE q # p
      BY <1>1, <1>4, <1>6, <3>2 DEF Hash!Closed
    <3> QED
      BY <3>1, <3>2
  <2> QED
    BY <2>1, <2>2 DEF Hash!Closed
<1>8. ASSUME NEW C \in SUBSET Keys, Hash!Closed(C, ny, n) PROVE D \ {k} \subseteq C
  <2>1. CASE p \in C
    <3>1. Hash!Closed((C \cap D) \cup {k}, nx, n)
      <4>1. n \in (C \cap D) \cup {k} \cup {None}
        BY <1>1, <1>8 DEF Hash!Closed
      <4>2. ASSUME NEW q \in (C \cap D) \cup {k}
            PROVE  nx[q] \in (C \cap D) \cup {k} \cup {None}
        <5>1. CASE q = k
          <6>1. nx[k] \in C \cup {None}
            BY <1>6, <1>8, <2>1 DEF Hash!Closed
          <6>2. nx[k] \in D \cup {None}
            BY <1>1 DEF Hash!Closed
          <6> QED
            BY <5>1, <6>1, <6>2
        <5>2. CASE q = p
          BY <1>2, <5>2
        <5>3. CASE q # k /\ q # p
          <6>1. q \in C /\ q \in D /\ q \in Keys
            BY <1>1, <5>3
          <6>2. nx[q] \in D \cup {None} /\ nx[q] \in C \cup {None}
            BY <1>1, <1>6, <1>8, <5>3, <6>1 DEF Hash!Closed
          <6> QED
            BY <6>2
        <5> QED
          BY <5>1, <5>2, <5>3
      <4> QED
        BY <4>1, <4>2 DEF Hash!Closed
    <3>2. (C \cap D) \cup {k} \in SUBSET Keys
      BY <1>3
    <3>3. D \subseteq (C \cap D) \cup {k}
      BY <3>1, <3>2, FromClosed
    <3> QED
      BY <3>3
  <2>2. CASE p \notin C
    <3>1. Hash!Closed((C \cap D) \ {k}, nx, n)
      <4>1. n \in ((C \cap D) \ {k}) \cup {None}
        BY <1>1, <1>3, <1>8 DEF Hash!Closed
      <4>2. ASSUME NEW q \in (C \cap D) \ {k}
            PROVE  nx[q] \in ((C \cap D) \ {k}) \cup {None}
        <5>1. q # p /\ q # k /\ q \in Keys
          BY <2>2
        <5>2. nx[q] \in D \cup {None} /\ nx[q] \in C \cup {None}
          BY <1>1, <1>6, <1>8, <5>1 DEF Hash!Closed
        <5>3. nx[q] # k
          BY <1>4, <5>1
        <5> QED
          BY <5>2, <5>3
      <4> QED
        BY <4>1, <4>2 DEF Hash!Closed
    <3>2. (C \cap D) \ {k} \in SUBSET Keys
      OBVIOUS
    <3>3. D \subseteq (C \cap D) \ {k}
      BY <3>1, <3>2, FromClosed
    <3> QED
      BY <1>2, <2>2, <3>3
  <2> QED
    BY <2>1, <2>2
<1>9. Hash!From(ny, n) = D \ {k}
  <2>1. D \ {k} \in SUBSET Keys
    BY <1>1
  <2> HIDE DEF D
  <2> QED
    BY <1>6, <1>7, <1>8, <2>1, FromIs
<1>10. ASSUME NEW q \in D \ {k} PROVE ny[q] = IF q = p THEN nx[k] ELSE nx[q]
  BY <1>1, <1>6
<1>11. ASSUME NEW q \in D \ {k}, NEW r \in D \ {k}, ny[q] = ny[r], ny[q] # None PROVE q = r
  <2>1. CASE q = p /\ r # p
    BY <1>10, <1>11, <2>1 DEF Single
  <2>2. CASE q # p /\ r = p
    BY <1>10, <1>11, <2>2 DEF Single
  <2>3. CASE q # p /\ r # p
    BY <1>10, <1>11, <2>3 DEF Single
  <2> QED
    BY <2>1, <2>2, <2>3
<1>12. ASSUME NEW q \in D \ {k}, ny[q] # None PROVE ny[q] # n
  BY <1>10, <1>12 DEF Single
<1> QED
  BY <1>9, <1>11, <1>12 DEF Single

(* The inductive invariant: every key is in the chain of its bucket or in  *)
(* none, and has a count exactly when it is.                               *)
ChainOK(b) ==
  /\ Single(next, head[b])
  /\ \A k \in Hash!Chain(b) : Bucket(k) = b

HInv ==
  /\ head \in [Buckets -> Keys \cup {None}]
  /\ next \in [Keys -> Keys \cup {None}]
  /\ count \in [Keys -> Nat]
  /\ \A b \in Buckets : ChainOK(b)
  /\ \A k \in Keys : count[k] > 0 <=> Hash!HasNode(k)

LEMMA InitHInv == ASSUME Hash!KeysOK, Hash!Init PROVE HInv
<1>1. /\ head \in [Buckets -> Keys \cup {None}]
      /\ next \in [Keys -> Keys \cup {None}]
      /\ count \in [Keys -> Nat]
      /\ \A k \in Keys : count[k] = 0
      /\ \A b \in Buckets : head[b] = None
  BY DEF Hash!Init
<1>2. ASSUME NEW b \in Buckets PROVE Hash!Chain(b) = {}
  <2>1. Hash!Closed({}, next, None)
    BY DEF Hash!Closed
  <2>2. Hash!From(next, None) \subseteq {}
    BY <1>1, <2>1, FromClosed
  <2> QED
    BY <1>1, <2>2 DEF Hash!Chain
<1>3. \A b \in Buckets : ChainOK(b)
  BY <1>2 DEF ChainOK, Single, Hash!Chain
<1>4. \A k \in Keys : ~ Hash!HasNode(k)
  BY <1>2 DEF Hash!HasNode, Hash!KeysOK
<1> QED
  BY <1>1, <1>3, <1>4 DEF HInv

(* What an action does to the chain of one bucket it does not do to those  *)
(* of the others.                                                          *)
LEMMA OtherChains ==
  ASSUME Hash!KeysOK, HInv, next' \in [Keys -> Keys \cup {None}], NEW b \in Buckets,
         head'[b] = head[b],
         \A p \in Hash!Chain(b) : next'[p] = next[p]
  PROVE  Hash!Chain(b)' = Hash!Chain(b) /\ ChainOK(b)'
<1>1. head[b] \in Keys \cup {None} /\ next \in [Keys -> Keys \cup {None}] /\ ChainOK(b)
  BY DEF HInv
<1>2. Hash!From(next', head[b]) = Hash!From(next, head[b])
  BY <1>1, FromSame DEF Hash!Chain
<1>3. Hash!Chain(b)' = Hash!Chain(b)
  BY <1>2 DEF Hash!Chain
<1>4. Single(next', head[b])
  BY <1>1, <1>2 DEF ChainOK, Single, Hash!Chain
<1> QED
  BY <1>1, <1>3, <1>4 DEF ChainOK

LEMMA UnlinkStep ==
  ASSUME Hash!KeysOK, HInv, NEW k \in Keys, Hash!HasNode(k), Hash!Unlink(k)
  PROVE  HInv' /\ count' = [count EXCEPT ![k] = 0]
<1> DEFINE h == Bucket(k)
<1>1. /\ h \in Buckets /\ head[h] \in Keys \cup {None} /\ ChainOK(h)
      /\ head \in [Buckets -> Keys \cup {None}]
      /\ next \in [Keys -> Keys \cup {None}] /\ count \in [Keys -> Nat]
      /\ k \in Hash!Chain(h) /\ \A b \in Buckets : ChainOK(b)
  BY DEF HInv, Hash!KeysOK, Hash!HasNode
<1>2. Before(next, head[h], k) = {p \in Hash!Chain(h) : next[p] = k}
  BY DEF Before, Hash!Chain
<1>3. Single(next, head[h]) /\ k \in Hash!From(next, head[h]) /\ Hash!From(next, head[h]) \subseteq Keys
  BY <1>1, FromClosed DEF ChainOK, Hash!Chain
<1>4. count' = [count EXCEPT ![k] = 0]
  BY DEF Hash!Unlink
<1>5. /\ head' \in [Buckets -> Keys \cup {None}]
      /\ next' \in [Keys -> Keys \cup {None}]
      /\ Hash!From(next', head'[h]) = Hash!Chain(h) \ {k}
      /\ Single(next', head'[h])
      /\ \A b \in Buckets : b # h => head'[b] = head[b]
      /\ \A p \in Keys : p \notin Hash!Chain(h) => next'[p] = next[p]
  <2>1. CASE Before(next, head[h], k) = {}
    <3>1. k = head[h]
      BY <1>1, <1>3, <2>1, FirstHasNoneBefore
    <3>2. head' = [head EXCEPT ![h] = next[k]] /\ next' = [next EXCEPT ![k] = None]
      BY <1>2, <2>1 DEF Hash!Unlink
    <3>3. Hash!From(next', next[k]) = Hash!From(next, k) \ {k} /\ Single(next', next[k])
      BY <1>1, <1>3, <3>1, <3>2, ChainRemoveFirst
    <3>4. next[k] \in Keys \cup {None} /\ head'[h] = next[k]
      BY <1>1, <3>2
    <3> HIDE DEF h
    <3> QED
      BY <1>1, <3>1, <3>2, <3>3, <3>4 DEF Hash!Chain
  <2>2. CASE Before(next, head[h], k) # {}
    <3>1. /\ next' = [p \in Keys |-> IF p \in Before(next, head[h], k) THEN next[k]
                                     ELSE IF p = k THEN None ELSE next[p]]
          /\ head' = head
      BY <1>2, <2>2 DEF Hash!Unlink
    <3>2. Hash!From(next', head[h]) = Hash!From(next, head[h]) \ {k} /\ Single(next', head[h])
      BY <1>1, <1>3, <2>2, <3>1, ChainRemoveLater
    <3>3. Before(next, head[h], k) \subseteq Hash!Chain(h)
      BY <1>2
    <3>4. next' \in [Keys -> Keys \cup {None}]
      BY <1>1, <3>1
    <3>5. \A p \in Keys : p \notin Hash!Chain(h) => next'[p] = next[p]
      BY <1>1, <3>1, <3>3
    <3> QED
      BY <1>1, <3>1, <3>2, <3>4, <3>5 DEF Hash!Chain
  <2> QED
    BY <2>1, <2>2
<1>6. Hash!Chain(h)' = Hash!Chain(h) \ {k} /\ ChainOK(h)'
  BY <1>1, <1>5 DEF ChainOK, Hash!Chain
<1>7. ASSUME NEW b \in Buckets, b # h PROVE Hash!Chain(b)' = Hash!Chain(b) /\ ChainOK(b)'
  <2>1. \A p \in Hash!Chain(b) : p \in Keys /\ Bucket(p) = b
    BY <1>1, FromClosed DEF ChainOK, Hash!Chain
  <2>2. \A p \in Hash!Chain(h) : Bucket(p) = h
    BY <1>1 DEF ChainOK
  <2>3. \A p \in Hash!Chain(b) : next'[p] = next[p]
    BY <1>5, <1>7, <2>1, <2>2
  <2> QED
    BY <1>5, <1>7, <2>3, OtherChains
<1>8. \A b \in Buckets : Hash!Chain(b)' = Hash!Chain(b) \ {k} /\ ChainOK(b)'
  <2>1. ASSUME NEW b \in Buckets, b # h PROVE k \notin Hash!Chain(b)
    BY <1>1, <2>1 DEF ChainOK
  <2> QED
    BY <1>6, <1>7, <2>1
<1>9. ASSUME NEW p \in Keys PROVE count'[p] > 0 <=> Hash!HasNode(p)'
  <2>1. Hash!HasNode(p)' <=> Hash!HasNode(p) /\ p # k
    BY <1>8 DEF Hash!HasNode, Hash!KeysOK
  <2>2. count[p] > 0 <=> Hash!HasNode(p)
    BY DEF HInv
  <2> QED
    BY <1>1, <1>4, <2>1, <2>2
<1>10. count' \in [Keys -> Nat]
  BY <1>1, <1>4
<1> QED
  BY <1>4, <1>5, <1>8, <1>9, <1>10 DEF HInv

LEMMA AddStep ==
  ASSUME Hash!KeysOK, HInv, NEW k \in Keys, Hash!AddNode(k)
  PROVE  HInv' /\ count' = [count EXCEPT ![k] = @ + 1]
<1> DEFINE h == Bucket(k)
<1>1. /\ h \in Buckets /\ head[h] \in Keys \cup {None}
      /\ head \in [Buckets -> Keys \cup {None}]
      /\ next \in [Keys -> Keys \cup {None}] /\ count \in [Keys -> Nat]
      /\ \A b \in Buckets : ChainOK(b)
      /\ \A p \in Keys : count[p] > 0 <=> Hash!HasNode(p)
  BY DEF HInv, Hash!KeysOK
<1>2. count' = [count EXCEPT ![k] = @ + 1] /\ count' \in [Keys -> Nat]
  BY <1>1 DEF Hash!AddNode
<1>3. CASE Hash!HasNode(k)
  <2>1. UNCHANGED <<head, next>>
    BY <1>3 DEF Hash!AddNode
  <2>2. \A b \in Buckets : Hash!Chain(b)' = Hash!Chain(b) /\ ChainOK(b)'
    BY <1>1, <2>1 DEF Hash!Chain, ChainOK, Single, Hash!From, Hash!Closed
  <2>3. \A p \in Keys : Hash!HasNode(p)' <=> Hash!HasNode(p)
    BY <2>2 DEF Hash!HasNode, Hash!KeysOK
  <2>4. \A p \in Keys : count'[p] > 0 <=> Hash!HasNode(p)'
    BY <1>1, <1>2, <1>3, <2>3
  <2> QED
    BY <1>1, <1>2, <2>1, <2>2, <2>4 DEF HInv
<1>4. CASE ~ Hash!HasNode(k)
  <2>1. head' = [head EXCEPT ![h] = k] /\ next' = [next EXCEPT ![k] = head[h]]
    BY <1>4 DEF Hash!AddNode
  <2>2. /\ head' \in [Buckets -> Keys \cup {None}]
        /\ next' \in [Keys -> Keys \cup {None}]
        /\ head'[h] = k
        /\ \A b \in Buckets : b # h => head'[b] = head[b]
        /\ \A p \in Keys : p # k => next'[p] = next[p]
    BY <1>1, <2>1
  <2>3. Hash!From(next', k) = Hash!Chain(h) \cup {k} /\ Single(next', k)
    <3>1. Single(next, head[h]) /\ k \notin Hash!From(next, head[h])
      BY <1>1, <1>4 DEF ChainOK, Hash!HasNode, Hash!Chain
    <3>2. Hash!From(next', k) = Hash!From(next, head[h]) \cup {k} /\ Single(next', k)
      <4> DEFINE n == head[h]
      <4>1. next' = [next EXCEPT ![k] = n] /\ n \in Keys \cup {None} /\ Single(next, n)
            /\ k \notin Hash!From(next, n) /\ next \in [Keys -> Keys \cup {None}]
        BY <1>1, <2>1, <3>1
      <4> HIDE DEF n
      <4>2. /\ Hash!From([next EXCEPT ![k] = n], k) = Hash!From(next, n) \cup {k}
            /\ Single([next EXCEPT ![k] = n], k)
        BY <4>1, ChainAdd, ZenonT(20)
      <4> QED
        BY <4>1, <4>2 DEF n
    <3> QED
      BY <3>2 DEF Hash!Chain
  <2>4. Hash!Chain(h)' = Hash!Chain(h) \cup {k} /\ ChainOK(h)'
    BY <1>1, <2>2, <2>3 DEF ChainOK, Hash!Chain
  <2>5. ASSUME NEW b \in Buckets, b # h PROVE Hash!Chain(b)' = Hash!Chain(b) /\ ChainOK(b)' /\ k \notin Hash!Chain(b)
    <3>1. \A p \in Hash!Chain(b) : p \in Keys /\ Bucket(p) = b
      BY <1>1, FromClosed DEF ChainOK, Hash!Chain
    <3>2. k \notin Hash!Chain(b)
      BY <2>5, <3>1
    <3>3. \A p \in Hash!Chain(b) : next'[p] = next[p]
      BY <2>2, <3>1, <3>2
    <3> QED
      BY <2>2, <2>5, <3>2, <3>3, OtherChains
  <2>6. ASSUME NEW p \in Keys PROVE count'[p] > 0 <=> Hash!HasNode(p)'
    <3>1. Hash!HasNode(p)' <=> Hash!HasNode(p) \/ p = k
      BY <2>4, <2>5 DEF Hash!HasNode, Hash!KeysOK
    <3> QED
      BY <1>1, <1>2, <3>1
  <2>7. \A b \in Buckets : ChainOK(b)'
    BY <2>4, <2>5
  <2> QED
    BY <1>2, <2>2, <2>6, <2>7 DEF HInv
<1> QED
  BY <1>3, <1>4

LEMMA SameHInv ==
  ASSUME HInv, UNCHANGED <<head, next>>, count' \in [Keys -> Nat], Hash!KeysOK,
         \A p \in Keys : count'[p] > 0 <=> count[p] > 0
  PROVE  HInv'
<1>1. \A b \in Buckets : Hash!Chain(b)' = Hash!Chain(b) /\ ChainOK(b)'
  BY DEF HInv, Hash!Chain, ChainOK, Single, Hash!From, Hash!Closed
<1>2. \A p \in Keys : Hash!HasNode(p)' <=> Hash!HasNode(p)
  BY <1>1 DEF Hash!HasNode, Hash!KeysOK
<1> QED
  BY <1>1, <1>2 DEF HInv

(* Every step keeps the invariant and is a step of the multiset.           *)
HashFreq == [k \in Keys |-> IF Hash!HasNode(k) THEN count[k] ELSE 0]

LEMMA FreqIsCount == ASSUME HInv PROVE HashFreq = count
<1>1. ASSUME NEW k \in Keys PROVE count[k] \in Nat /\ (count[k] > 0 <=> Hash!HasNode(k))
  BY DEF HInv
<1>2. ASSUME NEW k \in Keys PROVE HashFreq[k] = count[k]
  <2>1. CASE Hash!HasNode(k)
    BY <2>1 DEF HashFreq
  <2>2. CASE ~ Hash!HasNode(k)
    <3>1. count[k] = 0
      BY <1>1, <2>2
    <3> QED
      BY <2>2, <3>1 DEF HashFreq
  <2> QED
    BY <2>1, <2>2
<1> QED
  BY <1>2 DEF HInv, HashFreq

LEMMA HashStepRefines ==
  ASSUME Hash!KeysOK, HInv, [Hash!Next]_hashVars
  PROVE  HInv' /\ [Hash!Bag!Next]_<<HashFreq, hashResult>>
<1>1. HashFreq = count /\ count \in [Keys -> Nat] /\ \A k \in Keys : count[k] > 0 <=> Hash!HasNode(k)
  BY FreqIsCount DEF HInv
<1>2. ASSUME HInv' PROVE HashFreq' = count'
  <2>1. count' \in [Keys -> Nat] /\ \A k \in Keys : count'[k] > 0 <=> Hash!HasNode(k)'
    BY <1>2 DEF HInv
  <2>2. \A k \in Keys : HashFreq'[k] = count'[k]
    BY <2>1 DEF HashFreq
  <2>3. HashFreq' = [k \in Keys |-> HashFreq'[k]]
    BY DEF HashFreq
  <2> QED
    BY <2>1, <2>2, <2>3
<1>3. ASSUME NEW k \in Keys, Hash!AddNode(k) PROVE HInv' /\ Hash!Bag!AddValue(k)
  <2>1. HInv' /\ count' = [count EXCEPT ![k] = @ + 1] /\ hashResult' = count'[k]
    BY <1>3, AddStep DEF Hash!AddNode
  <2>2. HashFreq' = [HashFreq EXCEPT ![k] = @ + 1] /\ hashResult' = HashFreq'[k]
    BY <1>1, <1>2, <2>1
  <2> QED
    BY <2>1, <2>2 DEF Hash!Bag!AddValue, HashFreq
<1>4. ASSUME NEW k \in Keys, Hash!Absent(k) PROVE HInv' /\ Hash!Bag!DelValue(k)
  <2>1. UNCHANGED <<head, next, count>> /\ hashResult' = -1 /\ count[k] = 0
    BY <1>1, <1>4 DEF Hash!Absent
  <2>2. HInv'
    BY <1>1, <2>1, SameHInv
  <2>3. HashFreq' = HashFreq /\ HashFreq[k] = 0
    BY <1>1, <1>2, <2>1, <2>2
  <2> QED
    BY <2>1, <2>2, <2>3 DEF Hash!Bag!DelValue, HashFreq
<1>5. ASSUME NEW k \in Keys, Hash!RemoveNode(k), ~ Hash!Absent(k) PROVE HInv' /\ Hash!Bag!RemoveValue(k)
  <2>1. Hash!HasNode(k) /\ Hash!Unlink(k) /\ hashResult' = 0
    BY <1>5 DEF Hash!RemoveNode
  <2>2. HInv' /\ count' = [count EXCEPT ![k] = 0]
    BY <2>1, UnlinkStep
  <2>3. HashFreq' = [HashFreq EXCEPT ![k] = 0] /\ HashFreq[k] > 0
    BY <1>1, <1>2, <2>1, <2>2
  <2> QED
    BY <2>1, <2>2, <2>3 DEF Hash!Bag!RemoveValue, HashFreq
<1>6. ASSUME NEW k \in Keys, Hash!DelNode(k), ~ Hash!Absent(k) PROVE HInv' /\ Hash!Bag!DelValue(k)
  <2>1. Hash!HasNode(k) /\ hashResult' = count'[k] /\ count[k] > 0
    BY <1>1, <1>6 DEF Hash!DelNode
  <2>2. CASE count[k] = 1
    <3>1. Hash!Unlink(k)
      BY <1>6, <2>2 DEF Hash!DelNode
    <3>2. HInv' /\ count' = [count EXCEPT ![k] = 0]
      BY <2>1, <3>1, UnlinkStep
    <3>3. count' = [count EXCEPT ![k] = @ - 1]
      BY <2>2, <3>2
    <3>4. HashFreq' = [HashFreq EXCEPT ![k] = @ - 1] /\ HashFreq[k] > 0 /\ hashResult' = HashFreq'[k]
      BY <1>1, <1>2, <2>1, <3>2, <3>3
    <3> QED
      BY <3>2, <3>4 DEF Hash!Bag!DelValue, HashFreq
  <2>3. CASE count[k] # 1
    <3>1. count' = [count EXCEPT ![k] = @ - 1] /\ UNCHANGED <<head, next>> /\ count[k] > 1
      BY <1>6, <2>3 DEF Hash!DelNode
    <3>2. count' \in [Keys -> Nat] /\ \A p \in Keys : count'[p] > 0 <=> count[p] > 0
      BY <1>1, <3>1
    <3>3. HInv'
      BY <3>1, <3>2, SameHInv
    <3>4. HashFreq' = [HashFreq EXCEPT ![k] = @ - 1] /\ HashFreq[k] > 0 /\ hashResult' = HashFreq'[k]
      BY <1>1, <1>2, <2>1, <3>1, <3>3
    <3> QED
      BY <3>3, <3>4 DEF Hash!Bag!DelValue, HashFreq
  <2> QED
    BY <2>2, <2>3
<1>7. CASE UNCHANGED hashVars
  <2>1. UNCHANGED <<head, next, count, hashResult>>
    BY <1>7 DEF hashVars
  <2>2. HInv'
    BY <1>1, <2>1, SameHInv
  <2> QED
    BY <1>1, <1>2, <2>1, <2>2
<1> QED
  BY <1>3, <1>4, <1>5, <1>6, <1>7 DEF Hash!Next, Hash!Bag!Next

(* What the specification of CHashMap says, in these terms.                *)
LEMMA HashSteps ==
  /\ Hash!KeysOK /\ Hash!Init =>
       HInv /\ Hash!Bag!Init
  /\ Hash!KeysOK /\ HInv /\ [Hash!Next]_hashVars =>
       HInv' /\ [Hash!Bag!Next]_<<[k \in Keys |-> IF Hash!HasNode(k) THEN count[k] ELSE 0], hashResult>>
<1>1. ASSUME Hash!KeysOK, Hash!Init PROVE HInv /\ Hash!Bag!Init
  <2>1. HInv /\ HashFreq = count
    BY <1>1, InitHInv, FreqIsCount
  <2> QED
    BY <1>1, <2>1 DEF Hash!Init, Hash!Bag!Init, HashFreq
<1>2. ASSUME Hash!KeysOK, HInv, [Hash!Next]_hashVars
      PROVE  HInv' /\ [Hash!Bag!Next]_<<HashFreq, hashResult>>
  BY <1>2, HashStepRefines
<1> QED
  BY <1>1, <1>2 DEF HashFreq

LEMMA HashNodesAreCounted ==
  ASSUME Hash!KeysOK, HInv
  PROVE  /\ Hash!Nodes \in SUBSET Keys
         /\ \A k \in Keys \ Hash!Nodes : count[k] = 0
<1>1. Hash!Nodes \in SUBSET Keys
  BY DEF Hash!Nodes, Hash!Chain, Hash!From
<1>2. ASSUME NEW k \in Keys, k \notin Hash!Nodes PROVE count[k] = 0
  <2>1. ~ Hash!HasNode(k)
    BY <1>2 DEF Hash!HasNode, Hash!Nodes, Hash!KeysOK
  <2> QED
    BY <2>1 DEF HInv
<1> QED
  BY <1>1, <1>2

(* The property, in terms of the counts of all keys.                       *)
HashAgree == hashNodes = SumOf(count, Keys)

LEMMA HashAgreeIs == ASSUME Hash!KeysOK, HInv PROVE Hash!CountsAgree <=> HashAgree
<1>1. SumOf(count, Hash!Nodes) = SumOf(count, Keys)
  BY HashKeys, HashNodesAreCounted, SumOfPart DEF HInv
<1>2. Hash!CountsAgree <=> hashNodes = SumOf(count, Hash!Nodes)
  BY DEF Hash!CountsAgree, SumOf, MapThenSumSet, MapThenFoldSet, Hash!MapThenSumSet, Hash!MapThenFoldSet
<1> QED
  BY <1>1, <1>2 DEF HashAgree

LEMMA HashStepCounts ==
  ASSUME Hash!KeysOK, HInv, HashAgree, [Hash!Next]_hashVars
  PROVE  HashAgree'
<1>1. count \in [Keys -> Nat] /\ \A k \in Keys : count[k] > 0 <=> Hash!HasNode(k)
  BY DEF HInv
<1>2. ASSUME NEW k \in Keys, NEW e \in Nat, count' = [count EXCEPT ![k] = e],
             hashNodes' = hashNodes + (e - count[k])
      PROVE  HashAgree'
  <2>1. count \in [Keys -> Int] /\ e \in Int /\ IsFiniteSet(Keys)
    BY <1>1, HashKeys
  <2>2. SumOf([count EXCEPT ![k] = e], Keys) = SumOf(count, Keys) + (e - count[k])
    BY <2>1, SumOfChange
  <2> QED
    BY <1>2, <2>2 DEF HashAgree, SumOf, MapThenSumSet, MapThenFoldSet
<1>3. ASSUME UNCHANGED <<count, hashNodes>> PROVE HashAgree'
  BY <1>3 DEF HashAgree, SumOf, MapThenSumSet, MapThenFoldSet
<1>4. hashNodes \in Int
  BY <1>1, HashKeys, SumOfType DEF HashAgree
<1>5. ASSUME NEW k \in Keys, Hash!AddNode(k) PROVE HashAgree'
  <2>1. /\ count' = [count EXCEPT ![k] = count[k] + 1] /\ hashNodes' = hashNodes + 1
        /\ count[k] \in Nat
    BY <1>1, <1>5 DEF Hash!AddNode
  <2>2. hashNodes' = hashNodes + ((count[k] + 1) - count[k]) /\ count[k] + 1 \in Nat
    BY <1>4, <2>1
  <2> QED
    BY <1>2, <2>1, <2>2
<1>6. ASSUME NEW k \in Keys, Hash!RemoveNode(k) PROVE HashAgree'
  <2>1. CASE Hash!Absent(k)
    BY <1>3, <2>1 DEF Hash!Absent
  <2>2. CASE ~ Hash!Absent(k)
    <3>1. count' = [count EXCEPT ![k] = 0] /\ hashNodes' = hashNodes - count[k] /\ count[k] \in Nat
      BY <1>1, <1>6, <2>2 DEF Hash!RemoveNode, Hash!Unlink
    <3>2. hashNodes' = hashNodes + (0 - count[k])
      BY <1>4, <3>1
    <3> QED
      BY <1>2, <3>1, <3>2
  <2> QED
    BY <2>1, <2>2
<1>7. ASSUME NEW k \in Keys, Hash!DelNode(k) PROVE HashAgree'
  <2>1. CASE Hash!Absent(k)
    BY <1>3, <2>1 DEF Hash!Absent
  <2>2. CASE ~ Hash!Absent(k)
    <3>1. /\ count' = [count EXCEPT ![k] = count[k] - 1] /\ hashNodes' = hashNodes - 1
          /\ count[k] \in Nat /\ count[k] > 0
      BY <1>1, <1>7, <2>2 DEF Hash!DelNode, Hash!Unlink
    <3>2. hashNodes' = hashNodes + ((count[k] - 1) - count[k]) /\ count[k] - 1 \in Nat
      BY <1>4, <3>1
    <3> QED
      BY <1>2, <3>1, <3>2
  <2> QED
    BY <2>1, <2>2
<1>8. CASE UNCHANGED hashVars
  BY <1>3, <1>8 DEF hashVars
<1> QED
  BY <1>5, <1>6, <1>7, <1>8 DEF Hash!Next

LEMMA InitHashCounts == ASSUME Hash!KeysOK, Hash!Init PROVE HashAgree
<1>1. count \in [Keys -> Int] /\ \A x \in Keys : count[x] = 0
  BY DEF Hash!Init
<1>2. SumOf(count, Keys) = 0
  BY <1>1, HashKeys, SumOfNothing
<1> QED
  BY <1>2 DEF Hash!Init, HashAgree
-----------------------------------------------------------------------------
(* CUrlTrieTree.                                                           *)

(* What the assumption says of the urls.                                   *)
LEMMA TrieUrls == ASSUME Trie!UrlsOK PROVE IsFiniteSet(Urls) /\ Urls \subseteq Trie!Words
BY DEF Trie!UrlsOK, Trie!IsFiniteSet, IsFiniteSet

(* The beginnings of a word: the word is one of them, and the beginnings   *)
(* of a beginning are among them.                                          *)
LEMMA PathWords ==
  ASSUME Trie!UrlsOK, NEW u \in Trie!Words
  PROVE  /\ u \in Trie!Path(u)
         /\ \A p \in Trie!Path(u) : p \in Trie!Words /\ Trie!Path(p) \subseteq Trie!Path(u)
<1>1. u \in Seq(Trie!Chars) /\ u # << >>
  BY DEF Trie!Words
<1>2. Len(u) \in Nat \ {0}
  BY <1>1
<1>3. u = SubSeq(u, 1, Len(u))
  BY <1>1
<1>4. u \in Trie!Path(u)
  <2>1. Len(u) \in 1 .. Len(u)
    BY <1>2
  <2> QED
    BY <1>3, <2>1 DEF Trie!Path
<1>5. ASSUME NEW p \in Trie!Path(u)
      PROVE  p \in Trie!Words /\ Trie!Path(p) \subseteq Trie!Path(u)
  <2>1. PICK i \in 1 .. Len(u) : p = SubSeq(u, 1, i)
    BY DEF Trie!Path
  <2>2. p \in Seq(Trie!Chars) /\ Len(p) = i /\ \A n \in 1 .. i : p[n] = u[n]
    BY <1>1, <1>2, <2>1
  <2>3. p \in Trie!Words
    BY <2>2 DEF Trie!Words
  <2>4. ASSUME NEW j \in 1 .. i PROVE SubSeq(p, 1, j) = SubSeq(u, 1, j)
    BY <1>1, <1>2, <2>2
  <2>5. Trie!Path(p) \subseteq Trie!Path(u)
    BY <1>2, <2>2, <2>4 DEF Trie!Path
  <2> QED
    BY <2>3, <2>5
<1> QED
  BY <1>4, <1>5

(* A node has all the nodes on its way above it, and a node that does not  *)
(* have its character was never added, or deleted since.                   *)
NodeOK(n, p) ==
  /\ p \in Trie!Words
  /\ Trie!Path(p) \subseteq DOMAIN n
  /\ n[p].freq \in Nat
  /\ n[p].char # Trie!Last(p) => n[p].freq = 0

TrieInv == \A p \in DOMAIN node : NodeOK(node, p)

(* Under that, a url is found with its count exactly when it has a node.   *)
LEMMA CountIsFreq ==
  ASSUME Trie!UrlsOK, NEW n, \A p \in DOMAIN n : NodeOK(n, p), NEW u \in Trie!Words
  PROVE  /\ Trie!GetUrlCount(n, u) \in Nat
         /\ Trie!GetUrlCount(n, u) = IF u \in DOMAIN n THEN n[u].freq ELSE 0
<1>1. u \in Trie!Path(u)
  BY PathWords
<1>2. CASE u \in DOMAIN n
  <2>1. NodeOK(n, u)
    BY <1>2
  <2> QED
    BY <1>2, <2>1 DEF Trie!GetUrlCount, Trie!Found, NodeOK
<1>3. CASE u \notin DOMAIN n
  BY <1>1, <1>3 DEF Trie!GetUrlCount, Trie!Found
<1> QED
  BY <1>2, <1>3

LEMMA InitTrieInv == Trie!Init => TrieInv
<1>1. DOMAIN << >> = {}
  OBVIOUS
<1> QED
  BY <1>1 DEF Trie!Init, TrieInv

LEMMA AddTrieInv ==
  ASSUME Trie!UrlsOK, TrieInv, NEW u \in Trie!Words, node' = Trie!Grown(u)
  PROVE  /\ TrieInv'
         /\ \A v \in Trie!Words : Trie!GetUrlCount(node', v) =
              Trie!GetUrlCount(node, v) + (IF v = u THEN 1 ELSE 0)
<1>1. DOMAIN node' = DOMAIN node \cup Trie!Path(u)
  BY DEF Trie!Grown
<1>2. u \in Trie!Path(u) /\ \A p \in Trie!Path(u) : p \in Trie!Words /\ Trie!Path(p) \subseteq Trie!Path(u)
  BY PathWords
<1>3. ASSUME NEW p \in DOMAIN node'
      PROVE  /\ node'[p].char = IF p \in Trie!Path(u) THEN Trie!Last(p) ELSE node[p].char
             /\ node'[p].freq = (IF p \in DOMAIN node THEN node[p].freq ELSE 0)
                                  + (IF p = u THEN 1 ELSE 0)
  BY <1>1 DEF Trie!Grown
<1>4. ASSUME NEW p \in DOMAIN node' PROVE NodeOK(node', p)
  <2>1. CASE p \in DOMAIN node
    <3>1. NodeOK(node, p)
      BY <2>1 DEF TrieInv
    <3> QED
      BY <1>1, <1>2, <1>3, <2>1, <3>1 DEF NodeOK
  <2>2. CASE p \notin DOMAIN node
    <3>1. p \in Trie!Path(u)
      BY <1>1, <2>2
    <3> QED
      BY <1>1, <1>2, <1>3, <2>2, <3>1 DEF NodeOK
  <2> QED
    BY <2>1, <2>2
<1>5. ASSUME NEW v \in Trie!Words
      PROVE  Trie!GetUrlCount(node', v) = Trie!GetUrlCount(node, v) + (IF v = u THEN 1 ELSE 0)
  <2>1. Trie!GetUrlCount(node, v) = IF v \in DOMAIN node THEN node[v].freq ELSE 0
    BY CountIsFreq DEF TrieInv
  <2>2. Trie!GetUrlCount(node', v) = IF v \in DOMAIN node' THEN node'[v].freq ELSE 0
    BY <1>4, CountIsFreq
  <2>3. CASE v \in DOMAIN node
    <3>1. node[v].freq \in Nat
      BY <2>3 DEF TrieInv, NodeOK
    <3> QED
      BY <1>1, <1>3, <2>1, <2>2, <2>3, <3>1
  <2>4. CASE v \notin DOMAIN node
    BY <1>1, <1>2, <1>3, <2>1, <2>2, <2>4
  <2> QED
    BY <2>3, <2>4
<1> QED
  BY <1>4, <1>5 DEF TrieInv

LEMMA DelTrieInv ==
  ASSUME Trie!UrlsOK, TrieInv, NEW u \in Trie!Words, u \in DOMAIN node,
         node' = [node EXCEPT ![u] = [char |-> 0, freq |-> 0]]
  PROVE  /\ TrieInv'
         /\ \A v \in Trie!Words : Trie!GetUrlCount(node', v) =
              IF v = u THEN 0 ELSE Trie!GetUrlCount(node, v)
<1>1. DOMAIN node' = DOMAIN node
  OBVIOUS
<1>2. ASSUME NEW p \in DOMAIN node'
      PROVE  IF p = u THEN node'[p].freq = 0 ELSE node'[p] = node[p]
  BY <1>1
<1>3. ASSUME NEW p \in DOMAIN node' PROVE NodeOK(node', p)
  <2>1. NodeOK(node, p)
    BY <1>1 DEF TrieInv
  <2> QED
    BY <1>1, <1>2, <2>1 DEF NodeOK
<1>4. ASSUME NEW v \in Trie!Words
      PROVE  Trie!GetUrlCount(node', v) = IF v = u THEN 0 ELSE Trie!GetUrlCount(node, v)
  <2>1. Trie!GetUrlCount(node, v) = IF v \in DOMAIN node THEN node[v].freq ELSE 0
    BY CountIsFreq DEF TrieInv
  <2>2. Trie!GetUrlCount(node', v) = IF v \in DOMAIN node' THEN node'[v].freq ELSE 0
    BY <1>3, CountIsFreq
  <2> QED
    BY <1>1, <1>2, <2>1, <2>2
<1> QED
  BY <1>3, <1>4 DEF TrieInv

(* Every step keeps the invariant and is a step of the multiset.           *)
LEMMA TrieStepRefines ==
  ASSUME Trie!UrlsOK, TrieInv, [Trie!Next]_trieVars
  PROVE  TrieInv' /\ [Trie!Bag!Next]_<<[u \in Urls |-> Trie!GetUrlCount(node, u)], trieResult>>
<1> DEFINE f == [u \in Urls |-> Trie!GetUrlCount(node, u)]
<1>1. Urls \subseteq Trie!Words
  BY DEF Trie!UrlsOK
<1>2. ASSUME NEW u \in Trie!Words PROVE Trie!GetUrlCount(node, u) \in Nat
  BY CountIsFreq DEF TrieInv
<1>3. ASSUME NEW u \in Urls, Trie!AddUrl(u) PROVE TrieInv' /\ Trie!Bag!AddValue(u)
  <2>1. node' = Trie!Grown(u) /\ trieResult' = node'[u].freq
    BY <1>3 DEF Trie!AddUrl
  <2>2. TrieInv' /\ \A v \in Trie!Words : Trie!GetUrlCount(node', v) =
                   Trie!GetUrlCount(node, v) + (IF v = u THEN 1 ELSE 0)
    BY <1>1, <2>1, AddTrieInv
  <2>3. trieResult' = Trie!GetUrlCount(node', u)
    <3>1. u \in DOMAIN node'
      BY <1>1, <2>1, PathWords DEF Trie!Grown
    <3>2. \A p \in DOMAIN node' : NodeOK(node', p)
      BY <2>2 DEF TrieInv
    <3> QED
      BY <1>1, <2>1, <3>1, <3>2, CountIsFreq
  <2>4. f' = [f EXCEPT ![u] = @ + 1]
    <3>1. f' = [v \in Urls |-> Trie!GetUrlCount(node', v)]
      OBVIOUS
    <3> HIDE DEF f
    <3>2. \A v \in Urls : f[v] = Trie!GetUrlCount(node, v)
      BY DEF f
    <3>3. \A v \in Urls : f'[v] = [f EXCEPT ![u] = @ + 1][v]
      BY <1>1, <1>2, <2>2, <3>1, <3>2 DEF f
    <3> QED
      BY <3>1, <3>3 DEF f
  <2> QED
    BY <2>2, <2>3, <2>4 DEF Trie!Bag!AddValue
<1>4. ASSUME NEW u \in Urls, Trie!DelUrl(u)
      PROVE  /\ TrieInv'
             /\ Trie!Bag!RemoveValue(u)
  <2>1. CASE Trie!Found(node, u)
    <3>1. u \in DOMAIN node
      BY <1>1, <2>1, PathWords DEF Trie!Found
    <3>2. /\ node' = [node EXCEPT ![u] = [char |-> 0, freq |-> 0]]
          /\ trieResult' = Trie!GetUrlCount(node', u)
      BY <1>4, <2>1 DEF Trie!DelUrl
    <3>3. TrieInv' /\ \A v \in Trie!Words : Trie!GetUrlCount(node', v) =
                     IF v = u THEN 0 ELSE Trie!GetUrlCount(node, v)
      BY <1>1, <3>1, <3>2, DelTrieInv
    <3>4. f' = [f EXCEPT ![u] = 0]
      <4>1. f' = [v \in Urls |-> IF v = u THEN 0 ELSE f[v]]
        BY <1>1, <3>3
      <4> QED
        BY <4>1
    <3>5. trieResult' = 0
      BY <1>1, <3>2, <3>3
    <3>6. CASE f[u] = 0
      <4>1. f' = f
        BY <3>4, <3>6
      <4> QED
        BY <3>3, <3>5, <3>6, <4>1 DEF Trie!Bag!RemoveValue
    <3>7. CASE f[u] # 0
      <4>1. f[u] > 0
        BY <1>1, <1>2, <3>7
      <4> QED
        BY <3>3, <3>4, <3>5, <4>1 DEF Trie!Bag!RemoveValue
    <3> QED
      BY <3>6, <3>7
  <2>2. CASE ~ Trie!Found(node, u)
    <3>1. UNCHANGED node /\ trieResult' = Trie!GetUrlCount(node', u)
      BY <1>4, <2>2 DEF Trie!DelUrl
    <3>2. f[u] = 0 /\ trieResult' = 0
      BY <2>2, <3>1 DEF Trie!GetUrlCount
    <3>3. f' = f
      BY <3>1
    <3>4. TrieInv'
      BY <3>1 DEF TrieInv
    <3> QED
      BY <3>2, <3>3, <3>4 DEF Trie!Bag!RemoveValue
  <2> QED
    BY <2>1, <2>2
<1>5. ASSUME Trie!Clear PROVE TrieInv' /\ Trie!Bag!Clear
  <2>1. DOMAIN node' = {} /\ UNCHANGED trieResult
    BY <1>5 DEF Trie!Clear
  <2>2. TrieInv'
    BY <2>1 DEF TrieInv
  <2>3. \A u \in Urls : Trie!GetUrlCount(node', u) = 0
    BY <1>1, <2>1, <2>2, CountIsFreq DEF TrieInv
  <2>4. f' = [u \in Urls |-> 0]
    BY <2>3
  <2> QED
    BY <2>1, <2>2, <2>4 DEF Trie!Bag!Clear
<1>6. CASE UNCHANGED trieVars
  <2>1. UNCHANGED <<node, trieResult>>
    BY <1>6 DEF trieVars
  <2>2. TrieInv' /\ f' = f
    BY <2>1 DEF TrieInv
  <2> QED
    BY <2>1, <2>2
<1> QED
  BY <1>3, <1>4, <1>5, <1>6 DEF Trie!Next, Trie!Bag!Next

(* What the specification of CUrlTrieTree says, in these terms.            *)
LEMMA TrieSteps ==
  /\ Trie!UrlsOK /\ Trie!Init => TrieInv /\ Trie!Bag!Init
  /\ Trie!UrlsOK /\ TrieInv /\ [Trie!Next]_trieVars =>
       TrieInv' /\ [Trie!Bag!Next]_<<[u \in Urls |-> Trie!GetUrlCount(node, u)], trieResult>>
<1>1. ASSUME Trie!UrlsOK, Trie!Init PROVE TrieInv /\ Trie!Bag!Init
  <2>1. TrieInv
    BY <1>1, InitTrieInv
  <2>2. Urls \subseteq Trie!Words
    BY <1>1 DEF Trie!UrlsOK
  <2>3. DOMAIN node = {}
    BY <1>1 DEF Trie!Init
  <2>4. \A u \in Urls : Trie!GetUrlCount(node, u) = 0
    BY <1>1, <2>1, <2>2, <2>3, CountIsFreq DEF TrieInv
  <2> QED
    BY <1>1, <2>1, <2>4 DEF Trie!Init, Trie!Bag!Init
<1>2. ASSUME Trie!UrlsOK, TrieInv, [Trie!Next]_trieVars
      PROVE  TrieInv' /\ [Trie!Bag!Next]_<<[u \in Urls |-> Trie!GetUrlCount(node, u)], trieResult>>
  BY <1>2, TrieStepRefines
<1> QED
  BY <1>1, <1>2

(* The sum of the counts of all urls, and how many urls have one.          *)
UrlTotal(n) == MapThenSumSet(LAMBDA u : Trie!GetUrlCount(n, u), Urls)

UrlsThere(n) == {u \in Urls : Trie!GetUrlCount(n, u) > 0}

UrlCounts(n) == [u \in Urls |-> Trie!GetUrlCount(n, u)]

LEMMA UrlTotalIsSum ==
  ASSUME Trie!UrlsOK, NEW n
  PROVE  \E a : SumsOver(a, UrlCounts(n), Urls) /\ UrlTotal(n) = a[Urls]
<1> DEFINE E(u) == Trie!GetUrlCount(n, u)
           a == CHOOSE a : a = [s \in SUBSET Urls |->
                  IF s = {} THEN 0
                  ELSE E(CHOOSE x \in s : TRUE) + a[s \ {CHOOSE x \in s : TRUE}]]
<1>1. PICK g : SumsOver(g, UrlCounts(n), Urls)
  BY TrieUrls, SetSumsExist
<1>2. ASSUME NEW s \in SUBSET Urls, s # {} PROVE E(Pick(s)) = UrlCounts(n)[Pick(s)]
  <2>1. Pick(s) \in Urls
    BY <1>2, PickIn
  <2> QED
    BY <2>1 DEF UrlCounts
<1>3. UrlTotal(n) = a[Urls]
  BY DEF UrlTotal, MapThenSumSet, MapThenFoldSet
<1> HIDE DEF E
<1>4. g = [s \in SUBSET Urls |->
             IF s = {} THEN 0 ELSE E(Pick(s)) + g[s \ {Pick(s)}]]
  BY <1>1, <1>2 DEF SumsOver
<1>5. a = [s \in SUBSET Urls |->
             IF s = {} THEN 0 ELSE E(Pick(s)) + a[s \ {Pick(s)}]]
  BY <1>4 DEF Pick
<1> HIDE DEF a
<1>6. SumsOver(a, UrlCounts(n), Urls)
  BY <1>2, <1>5 DEF SumsOver
<1> QED
  BY <1>3, <1>6

LEMMA UrlTotalChanges ==
  ASSUME Trie!UrlsOK, NEW n, NEW m, NEW u \in Urls,
         \A v \in Urls : Trie!GetUrlCount(n, v) \in Nat /\ Trie!GetUrlCount(m, v) \in Nat,
         \A v \in Urls : v # u => Trie!GetUrlCount(m, v) = Trie!GetUrlCount(n, v)
  PROVE  /\ UrlTotal(n) \in Int
         /\ UrlTotal(m) = UrlTotal(n) + (Trie!GetUrlCount(m, u) - Trie!GetUrlCount(n, u))
<1>1. PICK a : SumsOver(a, UrlCounts(n), Urls) /\ UrlTotal(n) = a[Urls]
  BY UrlTotalIsSum
<1>2. PICK b : SumsOver(b, UrlCounts(m), Urls) /\ UrlTotal(m) = b[Urls]
  BY UrlTotalIsSum
<1>3. UrlCounts(n) \in [Urls -> Int] /\ UrlCounts(m) \in [Urls -> Int]
  BY DEF UrlCounts
<1>4. \A v \in Urls : v # u => UrlCounts(m)[v] = UrlCounts(n)[v]
  BY DEF UrlCounts
<1>5. IsFiniteSet(Urls)
  BY TrieUrls
<1>6. a[Urls] \in Int /\ b[Urls] = a[Urls] + (UrlCounts(m)[u] - UrlCounts(n)[u])
  BY <1>1, <1>2, <1>3, <1>4, <1>5, SetSumsChange
<1> QED
  BY <1>1, <1>2, <1>6 DEF UrlCounts

LEMMA UrlTotalOfNothing ==
  ASSUME Trie!UrlsOK, NEW n, \A v \in Urls : Trie!GetUrlCount(n, v) = 0
  PROVE  UrlTotal(n) = 0
<1>1. PICK a : SumsOver(a, UrlCounts(n), Urls) /\ UrlTotal(n) = a[Urls]
  BY UrlTotalIsSum
<1>2. UrlCounts(n) \in [Urls -> Int] /\ \A x \in Urls \ {} : UrlCounts(n)[x] = 0
  BY DEF UrlCounts
<1>3. a[{}] = a[Urls]
  <2>1. {} \in SUBSET Urls /\ IsFiniteSet(Urls)
    BY TrieUrls
  <2> QED
    BY <1>1, <1>2, <2>1, SetSumsZero
<1>4. a[{}] = 0
  BY <1>1 DEF SumsOver
<1> QED
  BY <1>1, <1>3, <1>4

(* The property, in terms of these.                                        *)
TrieAgree == tidy => urlCount = Cardinality(UrlsThere(node)) /\ urlFreq = UrlTotal(node)

LEMMA TrieAgreeIs == Trie!CountsAgree <=> TrieAgree
BY DEF Trie!CountsAgree, TrieAgree, UrlsThere, UrlTotal, MapThenSumSet, MapThenFoldSet,
       Trie!MapThenSumSet, Trie!MapThenFoldSet, Trie!Cardinality, Cardinality

LEMMA TrieStepCounts ==
  ASSUME Trie!UrlsOK, TrieInv, TrieAgree, [Trie!Next]_trieVars
  PROVE  TrieAgree'
<1>1. Urls \subseteq Trie!Words /\ IsFiniteSet(Urls)
  BY TrieUrls
<1>2. \A u \in Trie!Words : Trie!GetUrlCount(node, u) \in Nat
  BY CountIsFreq DEF TrieInv
<1>3. IsFiniteSet(UrlsThere(node)) /\ Cardinality(UrlsThere(node)) \in Nat
  BY <1>1, FS_Subset, FS_CardinalityType DEF UrlsThere
<1>4. ASSUME NEW u \in Urls, Trie!AddUrl(u) PROVE TrieAgree'
  <2>1. node' = Trie!Grown(u) /\ UNCHANGED tidy /\ urlFreq' = urlFreq + 1
        /\ urlCount' = urlCount + (IF node'[u].freq = 1 THEN 1 ELSE 0)
    BY <1>4 DEF Trie!AddUrl
  <2>2. TrieInv' /\ \A v \in Trie!Words : Trie!GetUrlCount(node', v) =
                   Trie!GetUrlCount(node, v) + (IF v = u THEN 1 ELSE 0)
    BY <1>1, <2>1, AddTrieInv
  <2>3. node'[u].freq = Trie!GetUrlCount(node', u)
    <3>1. u \in DOMAIN node'
      BY <1>1, <2>1, PathWords DEF Trie!Grown
    <3>2. \A p \in DOMAIN node' : NodeOK(node', p)
      BY <2>2 DEF TrieInv
    <3> QED
      BY <1>1, <3>1, <3>2, CountIsFreq
  <2>4. /\ \A v \in Urls : Trie!GetUrlCount(node, v) \in Nat /\ Trie!GetUrlCount(node', v) \in Nat
        /\ \A v \in Urls : v # u => Trie!GetUrlCount(node', v) = Trie!GetUrlCount(node, v)
        /\ Trie!GetUrlCount(node', u) = Trie!GetUrlCount(node, u) + 1
    BY <1>1, <1>2, <2>2
  <2>5. UrlTotal(node) \in Int /\ UrlTotal(node') = UrlTotal(node) + 1
    BY <2>4, UrlTotalChanges
  <2>6. UrlsThere(node') = UrlsThere(node) \cup {u}
    BY <2>4 DEF UrlsThere
  <2>7. u \in UrlsThere(node) <=> node'[u].freq # 1
    BY <2>3, <2>4 DEF UrlsThere
  <2>8. Cardinality(UrlsThere(node')) =
          Cardinality(UrlsThere(node)) + (IF node'[u].freq = 1 THEN 1 ELSE 0)
    BY <1>3, <2>6, <2>7, FS_AddElement
  <2> QED
    BY <2>1, <2>5, <2>8 DEF TrieAgree
<1>5. ASSUME NEW u \in Urls, Trie!DelUrl(u) PROVE TrieAgree'
  <2>1. CASE Trie!Found(node, u)
    <3>1. u \in DOMAIN node
      BY <1>1, <2>1, PathWords DEF Trie!Found
    <3>2. /\ node' = [node EXCEPT ![u] = [char |-> 0, freq |-> 0]]
          /\ urlFreq' = urlFreq - node[u].freq
          /\ urlCount' = urlCount - 1
          /\ tidy' = (tidy /\ node[u].freq > 0)
      BY <1>5, <2>1 DEF Trie!DelUrl
    <3>3. TrieInv' /\ \A v \in Trie!Words : Trie!GetUrlCount(node', v) =
                     IF v = u THEN 0 ELSE Trie!GetUrlCount(node, v)
      BY <1>1, <3>1, <3>2, DelTrieInv
    <3>4. /\ \A v \in Urls : Trie!GetUrlCount(node, v) \in Nat /\ Trie!GetUrlCount(node', v) \in Nat
          /\ \A v \in Urls : v # u => Trie!GetUrlCount(node', v) = Trie!GetUrlCount(node, v)
          /\ Trie!GetUrlCount(node', u) = 0
          /\ Trie!GetUrlCount(node, u) = node[u].freq
      BY <1>1, <1>2, <2>1, <3>3 DEF Trie!GetUrlCount
    <3>5. UrlTotal(node) \in Int /\ UrlTotal(node') = UrlTotal(node) - node[u].freq
      <4>1. UrlTotal(node') = UrlTotal(node) + (0 - node[u].freq) /\ UrlTotal(node) \in Int
        BY <3>4, UrlTotalChanges
      <4>2. node[u].freq \in Nat
        BY <3>4
      <4> QED
        BY <4>1, <4>2
    <3>6. SUFFICES ASSUME tidy' PROVE TrieAgree'
      BY DEF TrieAgree
    <3>7. tidy /\ node[u].freq > 0
      BY <3>2, <3>6
    <3>8. u \in UrlsThere(node) /\ UrlsThere(node') = UrlsThere(node) \ {u}
      BY <3>4, <3>7 DEF UrlsThere
    <3>9. Cardinality(UrlsThere(node')) = Cardinality(UrlsThere(node)) - 1
      BY <1>3, <3>8, FS_RemoveElement
    <3> QED
      BY <3>2, <3>5, <3>7, <3>9 DEF TrieAgree
  <2>2. CASE ~ Trie!Found(node, u)
    <3>1. UNCHANGED <<node, urlCount, urlFreq, tidy>>
      BY <1>5, <2>2 DEF Trie!DelUrl
    <3> QED
      BY <3>1 DEF TrieAgree, UrlsThere, UrlTotal, MapThenSumSet, MapThenFoldSet
  <2> QED
    BY <2>1, <2>2
<1>6. ASSUME Trie!Clear PROVE TrieAgree'
  BY <1>6 DEF Trie!Clear, TrieAgree
<1>7. CASE UNCHANGED trieVars
  <2>1. UNCHANGED <<node, urlCount, urlFreq, tidy>>
    BY <1>7 DEF trieVars
  <2> QED
    BY <2>1 DEF TrieAgree, UrlsThere, UrlTotal, MapThenSumSet, MapThenFoldSet
<1> QED
  BY <1>4, <1>5, <1>6, <1>7 DEF Trie!Next

LEMMA InitTrieCounts == ASSUME Trie!UrlsOK, Trie!Init PROVE TrieAgree
<1>1. TrieInv
  BY InitTrieInv
<1>2. Urls \subseteq Trie!Words
  BY DEF Trie!UrlsOK
<1>3. DOMAIN node = {}
  BY DEF Trie!Init
<1>4. \A u \in Urls : Trie!GetUrlCount(node, u) = 0
  BY <1>1, <1>2, <1>3, CountIsFreq DEF TrieInv
<1>5. UrlTotal(node) = 0
  BY <1>4, UrlTotalOfNothing
<1>6. UrlsThere(node) = {}
  BY <1>4 DEF UrlsThere
<1> QED
  BY <1>5, <1>6, FS_EmptySet DEF Trie!Init, TrieAgree
-----------------------------------------------------------------------------
(* TreeProofs proves its theorems of SearchTree with variables of its own; *)
(* with those of Containers in their place it speaks of the same formulas. *)
TreeP == INSTANCE TreeProofs WITH
  nodesCount <- treeNodes, freqCount <- treeFreq, result <- treeResult

LEMMA SameKeys == TreeP!KeysOK
BY TreeAssumption DEF Tree!KeysOK, TreeP!KeysOK, Tree!IsFiniteSet, TreeP!IsFiniteSet

LEMMA SameInit == Tree!Init <=> TreeP!Init
BY DEF Tree!Init, TreeP!Init, Tree!All, TreeP!All

LEMMA SameHasNode == ASSUME NEW t, NEW n PROVE Tree!HasNode(t, n) <=> TreeP!HasNode(t, n)
BY DEF Tree!HasNode, TreeP!HasNode, Tree!Visited, TreeP!Visited, Tree!Reached, TreeP!Reached,
       Tree!At, TreeP!At, Tree!Way, TreeP!Way

LEMMA SameWithNode == ASSUME NEW t, NEW n PROVE Tree!WithNode(t, n) = TreeP!WithNode(t, n)
BY DEF Tree!WithNode, TreeP!WithNode, Tree!Attached, TreeP!Attached, Tree!ParentFor, TreeP!ParentFor,
       Tree!Visited, TreeP!Visited, Tree!Reached, TreeP!Reached, Tree!At, TreeP!At, Tree!Way, TreeP!Way

LEMMA SameAdjustHeights ==
  ASSUME NEW t, NEW n PROVE Tree!AdjustHeights(t, n) = TreeP!AdjustHeights(t, n)
BY DEF Tree!AdjustHeights, TreeP!AdjustHeights, Tree!Notifying, TreeP!Notifying,
       Tree!Reached, TreeP!Reached, Tree!Grows, TreeP!Grows

LEMMA SameChildsHeight ==
  ASSUME NEW t, NEW n PROVE Tree!ChildsHeight(t, n) = TreeP!ChildsHeight(t, n)
BY DEF Tree!ChildsHeight, TreeP!ChildsHeight, Tree!Max, TreeP!Max

LEMMA SameMostRight == ASSUME NEW t, NEW n PROVE Tree!MostRight(t, n) = TreeP!MostRight(t, n)
BY DEF Tree!MostRight, TreeP!MostRight, Tree!Reached, TreeP!Reached, Tree!At, TreeP!At

LEMMA SameMostLeft == ASSUME NEW t, NEW n PROVE Tree!MostLeft(t, n) = TreeP!MostLeft(t, n)
BY DEF Tree!MostLeft, TreeP!MostLeft, Tree!Reached, TreeP!Reached, Tree!At, TreeP!At

LEMMA SameRelinked == ASSUME NEW t, NEW n, NEW m PROVE Tree!Relinked(t, n, m) = TreeP!Relinked(t, n, m)
BY SameMostLeft DEF Tree!Relinked, TreeP!Relinked

LEMMA SameFreed == ASSUME NEW t, NEW m PROVE Tree!Freed(t, m) = TreeP!Freed(t, m)
BY DEF Tree!Freed, TreeP!Freed

LEMMA SameReplacement == ASSUME NEW t, NEW n PROVE Tree!Replacement(t, n) = TreeP!Replacement(t, n)
BY SameMostRight, SameRelinked, SameFreed DEF Tree!Replacement, TreeP!Replacement

(* The tree when x has taken the place of n, given what became of it.      *)
Replaced(t, n, x, a) ==
  LET up == t.parent[n]
      b == IF up = None THEN [a EXCEPT !.root = x]
           ELSE IF a.left[up] = n THEN [a EXCEPT !.left[up] = x]
           ELSE [a EXCEPT !.right[up] = x]
      c == IF x = None THEN b ELSE [b EXCEPT !.parent[x] = up]
  IN  [c EXCEPT !.left[n] = None, !.right[n] = None, !.parent[n] = None, !.red[n] = TRUE,
                !.freq[n] = 0, !.lHeight[n] = 0, !.rHeight[n] = 0]

LEMMA SameRemoved == ASSUME NEW t, NEW n PROVE Tree!Removed(t, n) = TreeP!Removed(t, n)
<1>1. Tree!Removed(t, n) = Replaced(t, n, IF t.left[n] # None THEN Tree!MostRight(t, t.left[n]) ELSE t.right[n],
                                          IF t.left[n] # None THEN Tree!Replacement(t, n) ELSE t)
  BY DEF Tree!Removed, Replaced
<1>2. TreeP!Removed(t, n) = Replaced(t, n, IF t.left[n] # None THEN TreeP!MostRight(t, t.left[n]) ELSE t.right[n],
                                           IF t.left[n] # None THEN TreeP!Replacement(t, n) ELSE t)
  BY DEF TreeP!Removed, Replaced
<1> QED
  BY <1>1, <1>2, SameMostRight, SameReplacement

LEMMA SameNext == Tree!Next <=> TreeP!Next
BY SameHasNode, SameWithNode, SameAdjustHeights, SameChildsHeight, SameRemoved
   DEF Tree!Next, TreeP!Next, Tree!AddValue, TreeP!AddValue, Tree!AddValueBy, TreeP!AddValueBy,
       Tree!Absent, TreeP!Absent, Tree!DelValue, TreeP!DelValue, Tree!RemoveValue, TreeP!RemoveValue

LEMMA SameNodes == Tree!Nodes = TreeP!Nodes
BY DEF Tree!Nodes, TreeP!Nodes, Tree!Under, TreeP!Under, Tree!Reached, TreeP!Reached,
       Tree!Children, TreeP!Children, Tree!At, TreeP!At

LEMMA SameLinks == Tree!LinksAgree <=> TreeP!LinksAgree
BY SameNodes DEF Tree!LinksAgree, TreeP!LinksAgree

LEMMA SameCounts == Tree!CountsAgree <=> TreeP!CountsAgree
BY SameNodes DEF Tree!CountsAgree, TreeP!CountsAgree, Tree!Cardinality, TreeP!Cardinality,
       Tree!MapThenSumSet, TreeP!MapThenSumSet, Tree!MapThenFoldSet, TreeP!MapThenFoldSet

LEMMA SameHeight == ASSUME NEW t, NEW n PROVE Tree!Height(t, n) = TreeP!Height(t, n)
BY DEF Tree!Height, TreeP!Height, Tree!Max, TreeP!Max

LEMMA SameHeights == Tree!HeightsExact <=> TreeP!HeightsExact
BY SameNodes, SameHeight DEF Tree!HeightsExact, TreeP!HeightsExact

LEMMA SameFreqs ==
  /\ [k \in Keys |-> IF Tree!HasNode(tree, k) THEN tree.freq[k] ELSE 0] =
       [k \in Keys |-> IF TreeP!HasNode(tree, k) THEN tree.freq[k] ELSE 0]
  /\ [k \in Keys |-> IF Tree!HasNode(tree, k)' THEN tree'.freq[k] ELSE 0] =
       [k \in Keys |-> IF TreeP!HasNode(tree, k)' THEN tree'.freq[k] ELSE 0]
<1>1. \A k \in Keys : Tree!HasNode(tree, k) <=> TreeP!HasNode(tree, k)
  BY SameHasNode
<1>2. \A k \in Keys : Tree!HasNode(tree', k) <=> TreeP!HasNode(tree', k)
  BY SameHasNode
<1> QED
  BY <1>1, <1>2, Zenon

LEMMA SameBag ==
  /\ Tree!Bag!Init <=> TreeP!Bag!Init
  /\ [Tree!Bag!Next]_<<[k \in Keys |-> IF Tree!HasNode(tree, k) THEN tree.freq[k] ELSE 0], treeResult>>
       <=> [TreeP!Bag!Next]_<<[k \in Keys |-> IF TreeP!HasNode(tree, k) THEN tree.freq[k] ELSE 0],
                              treeResult>>
<1>1. Tree!Bag!Init <=> TreeP!Bag!Init
  BY SameFreqs, Zenon DEF Tree!Bag!Init, TreeP!Bag!Init
<1>2. ASSUME NEW k \in Keys PROVE Tree!Bag!AddValue(k) <=> TreeP!Bag!AddValue(k)
  BY SameFreqs, Zenon DEF Tree!Bag!AddValue, TreeP!Bag!AddValue
<1>3. ASSUME NEW k \in Keys PROVE Tree!Bag!DelValue(k) <=> TreeP!Bag!DelValue(k)
  BY SameFreqs, Zenon DEF Tree!Bag!DelValue, TreeP!Bag!DelValue
<1>4. ASSUME NEW k \in Keys PROVE Tree!Bag!RemoveValue(k) <=> TreeP!Bag!RemoveValue(k)
  BY SameFreqs, Zenon DEF Tree!Bag!RemoveValue, TreeP!Bag!RemoveValue
<1>5. Tree!Bag!Clear <=> TreeP!Bag!Clear
  BY SameFreqs, Zenon DEF Tree!Bag!Clear, TreeP!Bag!Clear
<1>6. Tree!Bag!Next <=> TreeP!Bag!Next
  BY <1>2, <1>3, <1>4, <1>5 DEF Tree!Bag!Next, TreeP!Bag!Next
<1> QED
  BY <1>1, <1>6, SameFreqs

(* A step of Containers is, for each container, one of its own or none.    *)
LEMMA StepsApart ==
  [Next]_vars => /\ [TreeP!Next]_treeVars
                 /\ [Hash!Next]_hashVars
                 /\ [Trie!Next]_trieVars
BY SameNext DEF Next, UseTree, UseHash, UseTrie, UseHeap, UseArray, vars, treeVars, hashVars, trieVars

LEMMA TreeSpec == Spec => TreeP!Spec
<1>1. Init => TreeP!Init
  BY SameInit DEF Init
<1>2. [Next]_vars => [TreeP!Next]_TreeP!vars
  BY StepsApart DEF treeVars, TreeP!vars
<1> QED
  BY <1>1, <1>2, PTL DEF Spec, TreeP!Spec
-----------------------------------------------------------------------------
(* All of them.                                                            *)

(* The parent links of CBSTree, which removeValue and adjust follow        *)
(* upwards, are the child links turned round, for every finite set of      *)
(* integer keys and every sequence of calls.                               *)
THEOREM LinksCorrect == Spec => []LinksAgree
<1>1. TreeP!Spec => []TreeP!LinksAgree
  BY SameKeys, TreeP!LinksCorrect
<1>2. TreeP!LinksAgree => LinksAgree
  BY SameLinks DEF LinksAgree
<1> QED
  BY <1>1, <1>2, TreeSpec, PTL

(* While nodes are only added, CBSTree::adjust keeps the exact heights     *)
(* although it stops at the first node that does not grow.                 *)
THEOREM HeightsCorrect == Spec => []HeightsExact
<1>1. TreeP!Spec => []TreeP!HeightsExact
  BY SameKeys, TreeP!HeightsCorrect
<1>2. TreeP!HeightsExact => HeightsExact
  BY SameHeights DEF HeightsExact
<1> QED
  BY <1>1, <1>2, TreeSpec, PTL

(* What the counters of CBSTree, CHashMap and CUrlTrieTree return agrees   *)
(* with the nodes there are, for all finite sets of keys and urls, every   *)
(* hash function and every mix of deletions (of the trie while nothing is  *)
(* cleared or deleted that only begins another url).                       *)
THEOREM CountsCorrect == Spec => []CountsAgree
<1>1. TreeP!Spec => []TreeP!CountsAgree
  BY SameKeys, TreeP!CountsCorrect
<1> DEFINE I == HInv /\ HashAgree /\ TrieInv /\ TrieAgree
<1>2. Init => I
  BY KeysAssumption, UrlsAssumption, HashSteps, InitHashCounts, TrieSteps, InitTrieCounts DEF Init
<1>3. I /\ [Next]_vars => I'
  BY KeysAssumption, UrlsAssumption, StepsApart, HashSteps, HashStepCounts, TrieSteps, TrieStepCounts
<1>4. I /\ TreeP!CountsAgree => CountsAgree
  BY KeysAssumption, SameCounts, HashAgreeIs, TrieAgreeIs DEF CountsAgree
<1> HIDE DEF I
<1> QED
  BY <1>1, <1>2, <1>3, <1>4, TreeSpec, PTL DEF Spec

(* CBSTree, CHashMap and CUrlTrieTree implement the multiset, for all      *)
(* finite sets of keys and urls and every hash function: after any calls a *)
(* search finds what was added and not deleted, as often as it was, and    *)
(* every call returns accordingly.                                         *)
THEOREM BagsImplemented == Spec => ImplementsBag
<1>1. TreeP!Spec => TreeP!ImplementsBag
  BY SameKeys, TreeP!Refinement
<1>2. Init => HInv /\ Hash!Bag!Init /\ TrieInv /\ Trie!Bag!Init
  BY KeysAssumption, UrlsAssumption, HashSteps, TrieSteps DEF Init
<1>3. HInv /\ [Next]_vars =>
        HInv' /\ [Hash!Bag!Next]_<<[k \in Keys |-> IF Hash!HasNode(k) THEN count[k] ELSE 0], hashResult>>
  BY KeysAssumption, StepsApart, HashSteps
<1>4. TrieInv /\ [Next]_vars =>
        TrieInv' /\ [Trie!Bag!Next]_<<[u \in Urls |-> Trie!GetUrlCount(node, u)], trieResult>>
  BY UrlsAssumption, StepsApart, TrieSteps
<1>5. TreeP!ImplementsBag => Tree!ImplementsBag
  BY SameBag, PTL DEF TreeP!ImplementsBag, TreeP!Bag!Spec, Tree!ImplementsBag, Tree!Bag!Spec
<1> QED
  BY <1>1, <1>2, <1>3, <1>4, <1>5, TreeSpec, PTL
     DEF Spec, ImplementsBag, Hash!ImplementsBag, Hash!Bag!Spec, Trie!ImplementsBag, Trie!Bag!Spec
=============================================================================
