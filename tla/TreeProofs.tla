----------------------------- MODULE TreeProofs -----------------------------
(***************************************************************************)
(* CBSTree for every finite set of keys: its links agree, its order makes  *)
(* the search find what is there, its heights are exact while it grows,    *)
(* and it implements the multiset of Multiset, through every rearrangement *)
(* by removeValue.                                                         *)
(***************************************************************************)
EXTENDS SearchTree, ListTheorems

-----------------------------------------------------------------------------
(* What is reached is the least set that holds S and is closed under f.    *)
Graph(f) == f \in [Keys -> SUBSET Keys]

ClosedUnder(f, C) == \A p \in C : f[p] \subseteq C

Least(f, S) == {k \in Keys : \A C \in SUBSET Keys : S \subseteq C /\ ClosedUnder(f, C) => k \in C}

More(f, C) == C \cup UNION {f[p] : p \in C}

IsReach(g, f) == g = [C \in SUBSET Keys |-> IF More(f, C) = C THEN C ELSE g[More(f, C)]]

LEMMA MoreIs ==
  ASSUME NEW f, Graph(f), NEW C \in SUBSET Keys
  PROVE  /\ More(f, C) \in SUBSET Keys /\ C \subseteq More(f, C)
         /\ More(f, C) = C <=> ClosedUnder(f, C)
         /\ Least(f, More(f, C)) = Least(f, C)
         /\ ClosedUnder(f, C) => Least(f, C) = C
<1>1. More(f, C) \in SUBSET Keys /\ C \subseteq More(f, C)
  BY DEF More, Graph
<1>2. More(f, C) = C <=> ClosedUnder(f, C)
  BY DEF More, ClosedUnder
<1>3. ASSUME NEW D \in SUBSET Keys, ClosedUnder(f, D) PROVE C \subseteq D <=> More(f, C) \subseteq D
  BY <1>3 DEF More, ClosedUnder
<1>4. Least(f, More(f, C)) = Least(f, C)
  BY <1>3 DEF Least
<1>5. ASSUME ClosedUnder(f, C) PROVE Least(f, C) = C
  BY <1>5 DEF Least
<1> QED
  BY <1>1, <1>2, <1>4, <1>5

LEMMA ReachedIsLeast ==
  ASSUME KeysOK, NEW f, Graph(f), NEW S \in SUBSET Keys
  PROVE  Reached(f, S) = Least(f, S)
<1> DEFINE w == [C \in SUBSET Keys |-> Least(f, C)]
           g == CHOOSE g : IsReach(g, f)
<1>1. IsReach(w, f)
  <2>1. ASSUME NEW C \in SUBSET Keys
        PROVE  Least(f, C) = IF More(f, C) = C THEN C ELSE w[More(f, C)]
    BY MoreIs
  <2> QED
    BY <2>1 DEF IsReach
<1>2. IsReach(g, f)
  BY <1>1
<1>3. Reached(f, S) = g[S]
  <2>1. DOMAIN f = Keys
    BY DEF Graph
  <2> QED
    BY <2>1 DEF Reached, IsReach, More
<1> HIDE DEF g, w
<1> DEFINE B == {D \in SUBSET Keys : g[Keys \ D] # Least(f, Keys \ D)}
<1>4. ASSUME B # {} PROVE FALSE
  <2>1. IsFiniteSet(Keys) /\ B \in SUBSET SUBSET Keys
    BY DEF KeysOK
  <2>2. PICK m \in {Cardinality(D) : D \in B} : \A p \in {Cardinality(D) : D \in B} : m <= p
    <3> DEFINE N == {Cardinality(D) : D \in B}
    <3>1. \A D \in B : IsFiniteSet(D) /\ Cardinality(D) \in Nat
      BY <2>1, FS_Subset, FS_CardinalityType
    <3>2. N \in SUBSET Nat /\ N # {}
      BY <1>4, <3>1
    <3> HIDE DEF N
    <3>3. \E m \in N : \A p \in N : m <= p
      BY <3>2, LeastExists
    <3> QED
      BY <3>3 DEF N
  <2>3. PICK D \in B : m = Cardinality(D)
    BY <2>2
  <2> DEFINE C == Keys \ D
             M == More(f, C)
  <2>4. /\ C \in SUBSET Keys /\ M \in SUBSET Keys /\ C \subseteq M
        /\ Least(f, M) = Least(f, C) /\ (M = C => Least(f, C) = C)
    BY MoreIs
  <2>5. g[C] = IF M = C THEN C ELSE g[M]
    BY <1>2, <2>4 DEF IsReach
  <2>6. g[C] # Least(f, C)
    BY <2>3
  <2>7. M # C /\ g[M] # Least(f, M)
    BY <2>4, <2>5, <2>6
  <2> DEFINE E == Keys \ M
  <2>8. E \in B
    <3>1. Keys \ E = M /\ E \in SUBSET Keys
      BY <2>4
    <3> QED
      BY <2>7, <3>1
  <2>9. E \subseteq D /\ E # D
    BY <2>3, <2>4, <2>7
  <2>10. IsFiniteSet(D)
    BY <2>1, <2>3, FS_Subset
  <2> HIDE DEF B, C, M, E
  <2>11. Cardinality(E) < Cardinality(D)
    <3>1. Cardinality(E) <= Cardinality(D) /\ (Cardinality(E) = Cardinality(D) => E = D)
      BY <2>9, <2>10, FS_Subset
    <3>2. Cardinality(E) \in Nat /\ Cardinality(D) \in Nat
      BY <2>9, <2>10, FS_Subset, FS_CardinalityType
    <3> QED
      BY <2>9, <3>1, <3>2
  <2>12. Cardinality(D) <= Cardinality(E)
    BY <2>2, <2>3, <2>8
  <2>13. Cardinality(E) \in Nat /\ Cardinality(D) \in Nat
    BY <2>9, <2>10, FS_Subset, FS_CardinalityType
  <2> QED
    BY <2>11, <2>12, <2>13
<1>5. Keys \ S \in SUBSET Keys /\ Keys \ (Keys \ S) = S
  OBVIOUS
<1> QED
  BY <1>3, <1>4, <1>5

LEMMA ReachedIs ==
  ASSUME KeysOK, NEW f, Graph(f), NEW S \in SUBSET Keys
  PROVE  /\ Reached(f, S) \in SUBSET Keys /\ S \subseteq Reached(f, S)
         /\ ClosedUnder(f, Reached(f, S))
         /\ \A C \in SUBSET Keys : S \subseteq C /\ ClosedUnder(f, C) => Reached(f, S) \subseteq C
<1>1. Reached(f, S) = Least(f, S)
  BY ReachedIsLeast
<1>2. Least(f, S) \in SUBSET Keys /\ S \subseteq Least(f, S)
  BY DEF Least
<1>3. \A C \in SUBSET Keys : S \subseteq C /\ ClosedUnder(f, C) => Least(f, S) \subseteq C
  BY DEF Least
<1>4. ClosedUnder(f, Least(f, S))
  <2> SUFFICES ASSUME NEW p \in Least(f, S), NEW c \in f[p], NEW C \in SUBSET Keys,
                      S \subseteq C, ClosedUnder(f, C)
               PROVE  c \in C
    BY <1>2 DEF ClosedUnder, Least, Graph
  <2>1. p \in C
    BY DEF Least
  <2> QED
    BY <2>1 DEF ClosedUnder
<1> QED
  BY <1>1, <1>2, <1>3, <1>4

-----------------------------------------------------------------------------
(* What lies below a node of a graph, with the node; below NULL is nothing.*)
Below(f, n) == Reached(f, At(n))

LEMMA BelowIs ==
  ASSUME KeysOK, NEW f, Graph(f), NEW n \in Keys
  PROVE  /\ Below(f, n) \in SUBSET Keys /\ n \in Below(f, n)
         /\ ClosedUnder(f, Below(f, n))
         /\ \A C \in SUBSET Keys : n \in C /\ ClosedUnder(f, C) => Below(f, n) \subseteq C
<1>1. At(n) = {n} /\ {n} \in SUBSET Keys
  BY DEF At, KeysOK
<1> QED
  BY <1>1, ReachedIs DEF Below

LEMMA BelowNone ==
  ASSUME KeysOK, NEW f, Graph(f)
  PROVE  Below(f, None) = {}
<1>1. At(None) = {} /\ {} \in SUBSET Keys /\ ClosedUnder(f, {})
  BY DEF At, ClosedUnder
<1>2. Reached(f, {}) \subseteq {}
  BY <1>1, ReachedIs
<1> QED
  BY <1>1, <1>2 DEF Below

LEMMA BelowType ==
  ASSUME KeysOK, NEW f, Graph(f), NEW n \in Keys \cup {None}
  PROVE  Below(f, n) \in SUBSET Keys
BY BelowIs, BelowNone

LEMMA BelowBelow ==
  ASSUME KeysOK, NEW f, Graph(f), NEW n \in Keys \cup {None}, NEW y \in Below(f, n)
  PROVE  /\ y \in Keys /\ Below(f, y) \subseteq Below(f, n)
         /\ \A c \in f[y] : c \in Below(f, n) /\ Below(f, c) \subseteq Below(f, n)
<1>1. n \in Keys
  BY BelowNone
<1>2. Below(f, n) \in SUBSET Keys /\ ClosedUnder(f, Below(f, n))
  BY <1>1, BelowIs
<1>3. ASSUME NEW z \in Below(f, n) PROVE Below(f, z) \subseteq Below(f, n)
  BY <1>2, BelowIs
<1> QED
  BY <1>2, <1>3 DEF ClosedUnder

(* The last link on the way to y.                                          *)
LEMMA LastLink ==
  ASSUME KeysOK, NEW f, Graph(f), NEW n \in Keys \cup {None}, NEW y \in Below(f, n), y # n
  PROVE  \E m \in Below(f, n) : y \in f[m]
<1> SUFFICES ASSUME ~ \E m \in Below(f, n) : y \in f[m] PROVE FALSE
  OBVIOUS
<1>1. n \in Keys
  BY BelowNone
<1> DEFINE C == Below(f, n) \ {y}
<1>2. C \in SUBSET Keys /\ n \in C
  BY <1>1, BelowIs
<1>3. ClosedUnder(f, C)
  BY <1>1, BelowIs DEF ClosedUnder
<1>4. Below(f, n) \subseteq C
  BY <1>1, <1>2, <1>3, BelowIs
<1> QED
  BY <1>4

LEMMA FirstLink ==
  ASSUME KeysOK, NEW f, Graph(f), NEW n \in Keys
  PROVE  Below(f, n) = {n} \cup UNION {Below(f, c) : c \in f[n]}
<1> DEFINE C == {n} \cup UNION {Below(f, c) : c \in f[n]}
<1>1. f[n] \subseteq Keys
  BY DEF Graph
<1>2. C \subseteq Below(f, n)
  BY BelowIs, BelowBelow
<1>3. C \in SUBSET Keys /\ n \in C
  BY <1>2, BelowIs
<1>4. ClosedUnder(f, C)
  <2> SUFFICES ASSUME NEW p \in C, NEW d \in f[p] PROVE d \in C
    BY DEF ClosedUnder
  <2>1. CASE p = n
    <3>1. d \in Below(f, d)
      BY <1>1, <2>1, BelowIs
    <3> QED
      BY <2>1, <3>1
  <2>2. CASE p # n
    <3>1. PICK c \in f[n] : p \in Below(f, c)
      BY <2>2
    <3>2. d \in Below(f, c)
      BY <1>1, <3>1, BelowBelow
    <3> QED
      BY <3>2
  <2> QED
    BY <2>1, <2>2
<1>5. Below(f, n) \subseteq C
  BY <1>3, <1>4, BelowIs
<1> QED
  BY <1>2, <1>5

(* One more link, from m to x.                                             *)
LEMMA AddLink ==
  ASSUME KeysOK, NEW f, Graph(f), NEW m \in Keys, NEW x \in Keys, NEW y \in Keys \cup {None}
  PROVE  /\ Graph([f EXCEPT ![m] = f[m] \cup {x}])
         /\ Below([f EXCEPT ![m] = f[m] \cup {x}], y)
              = Below(f, y) \cup (IF m \in Below(f, y) THEN Below(f, x) ELSE {})
<1> DEFINE g == [f EXCEPT ![m] = f[m] \cup {x}]
           C == Below(f, y) \cup (IF m \in Below(f, y) THEN Below(f, x) ELSE {})
<1>1. Graph(g) /\ g[m] = f[m] \cup {x} /\ \A p \in Keys : p # m => g[p] = f[p]
  BY DEF Graph
<1> HIDE DEF g
<1>2. CASE y = None
  <2>1. Below(f, y) = {} /\ Below(g, y) = {}
    BY <1>1, <1>2, BelowNone
  <2> QED
    BY <1>1, <2>1 DEF g
<1>3. CASE y # None
  <2>1. y \in Keys
    BY <1>3
  <2>2. /\ Below(f, y) \in SUBSET Keys /\ y \in Below(f, y) /\ ClosedUnder(f, Below(f, y))
        /\ Below(f, x) \in SUBSET Keys /\ x \in Below(f, x) /\ ClosedUnder(f, Below(f, x))
    BY <2>1, BelowIs
  <2>3. C \in SUBSET Keys /\ y \in C
    BY <2>2
  <2>4. ClosedUnder(g, C)
    BY <1>1, <2>2 DEF ClosedUnder
  <2>5. Below(g, y) \subseteq C
    BY <1>1, <2>1, <2>3, <2>4, BelowIs
  <2>6. ASSUME NEW z \in Keys PROVE Below(f, z) \subseteq Below(g, z)
    <3>1. ClosedUnder(f, Below(g, z)) /\ Below(g, z) \in SUBSET Keys /\ z \in Below(g, z)
      BY <1>1, BelowIs DEF ClosedUnder
    <3> QED
      BY <3>1, BelowIs
  <2>7. m \in Below(f, y) => x \in Below(g, y) /\ Below(g, x) \subseteq Below(g, y)
    BY <1>1, <2>1, <2>6, BelowBelow
  <2>8. C \subseteq Below(g, y)
    BY <2>1, <2>6, <2>7
  <2> QED
    BY <1>1, <2>5, <2>8 DEF g
<1> QED
  BY <1>2, <1>3

OneParent(f) == \A a, b, c \in Keys : c \in f[a] /\ c \in f[b] => a = b

(* What is not below x and has something below x in common with it is      *)
(* above x.                                                                *)
LEMMA MeetAbove ==
  ASSUME KeysOK, NEW f, Graph(f), OneParent(f), NEW x \in Keys, NEW y \in Keys \cup {None},
         NEW z, z \in Below(f, x), z \in Below(f, y), y \notin Below(f, x)
  PROVE  x \in Below(f, y)
<1> SUFFICES ASSUME x \notin Below(f, y) PROVE FALSE
  OBVIOUS
<1> DEFINE C == Below(f, x) \ Below(f, y)
<1>1. C \in SUBSET Keys /\ x \in C
  BY BelowIs
<1>2. ClosedUnder(f, C)
  <2> SUFFICES ASSUME NEW p \in C, NEW c \in f[p], c \in Below(f, y) PROVE FALSE
    BY BelowBelow DEF ClosedUnder
  <2>1. c \in Below(f, x) /\ c # y
    BY BelowBelow
  <2>2. PICK q \in Below(f, y) : c \in f[q]
    BY <2>1, LastLink
  <2>3. q \in Keys /\ p \in Keys /\ c \in Keys
    BY <2>1, BelowBelow
  <2>4. p = q
    BY <2>2, <2>3 DEF OneParent
  <2> QED
    BY <2>2, <2>4
<1>3. Below(f, x) \subseteq C
  BY <1>1, <1>2, BelowIs
<1> QED
  BY <1>3

(* What is below y in g, which is f without the link from m to x.          *)
Narrower(g, f, m, x, y) ==
  /\ Below(g, y) \subseteq Below(f, y)
  /\ y \notin Below(f, x) => Below(g, y) = Below(f, y) \ Below(f, x)
  /\ m \notin Below(f, y) => Below(g, y) = Below(f, y)

LEMMA CutLink ==
  ASSUME KeysOK, NEW f, Graph(f), OneParent(f), NEW m \in Keys, NEW x \in Keys, x \in f[m],
         NEW y \in Keys \cup {None}
  PROVE  /\ Graph([f EXCEPT ![m] = f[m] \ {x}])
         /\ Narrower([f EXCEPT ![m] = f[m] \ {x}], f, m, x, y)
<1> DEFINE g == [f EXCEPT ![m] = f[m] \ {x}]
<1>1. Graph(g) /\ g[m] = f[m] \ {x} /\ \A p \in Keys : p # m => g[p] = f[p]
  BY DEF Graph
<1> HIDE DEF g
<1>2. CASE y = None
  <2>1. Below(f, y) = {} /\ Below(g, y) = {}
    BY <1>1, <1>2, BelowNone
  <2> QED
    BY <1>1, <2>1 DEF g, Narrower
<1>3. CASE y # None
  <2>1. y \in Keys
    BY <1>3
  <2>2. /\ Below(f, y) \in SUBSET Keys /\ y \in Below(f, y) /\ ClosedUnder(f, Below(f, y))
        /\ Below(f, x) \in SUBSET Keys /\ x \in Below(f, x) /\ ClosedUnder(f, Below(f, x))
        /\ Below(g, y) \in SUBSET Keys /\ y \in Below(g, y) /\ ClosedUnder(g, Below(g, y))
    BY <1>1, <2>1, BelowIs
  <2>3. Below(g, y) \subseteq Below(f, y)
    <3>1. ClosedUnder(g, Below(f, y))
      BY <1>1, <2>2 DEF ClosedUnder
    <3> QED
      BY <1>1, <2>1, <2>2, <3>1, BelowIs
  <2>4. ASSUME y \notin Below(f, x) PROVE Below(g, y) = Below(f, y) \ Below(f, x)
    <3> DEFINE C == Below(f, y) \ Below(f, x)
               D == Below(g, y) \cup Below(f, x)
    <3>1. C \in SUBSET Keys /\ y \in C
      BY <2>2, <2>4
    <3>2. ClosedUnder(g, C)
      <4> SUFFICES ASSUME NEW p \in C, NEW c \in g[p], c \in Below(f, x) PROVE FALSE
        BY <1>1, <2>2 DEF ClosedUnder
      <4>1. c \in f[p] /\ p \in Keys /\ c \in Keys
        BY <1>1, <2>2
      <4>2. CASE c = x
        <5>1. p = m
          BY <4>1, <4>2 DEF OneParent
        <5> QED
          BY <1>1, <4>2, <5>1
      <4>3. CASE c # x
        <5>1. PICK q \in Below(f, x) : c \in f[q]
          BY <4>3, LastLink
        <5>2. q = p
          BY <2>2, <4>1, <5>1 DEF OneParent
        <5> QED
          BY <5>1, <5>2
      <4> QED
        BY <4>2, <4>3
    <3>3. Below(g, y) \subseteq C
      BY <1>1, <2>1, <3>1, <3>2, BelowIs
    <3>4. D \in SUBSET Keys /\ y \in D
      BY <2>2
    <3>5. ClosedUnder(f, D)
      BY <1>1, <2>2 DEF ClosedUnder
    <3>6. Below(f, y) \subseteq D
      BY <2>1, <3>4, <3>5, BelowIs
    <3> QED
      BY <3>3, <3>6
  <2>5. ASSUME m \notin Below(f, y) PROVE Below(g, y) = Below(f, y)
    <3>1. ClosedUnder(f, Below(g, y))
      BY <1>1, <2>2, <2>3, <2>5 DEF ClosedUnder
    <3>2. Below(f, y) \subseteq Below(g, y)
      BY <2>1, <2>2, <3>1, BelowIs
    <3> QED
      BY <2>3, <3>2
  <2> QED
    BY <1>1, <2>3, <2>4, <2>5 DEF g, Narrower
<1> QED
  BY <1>2, <1>3

(* In a graph without cycles every set has a lowest node.                  *)
LEMMA Lowest ==
  ASSUME KeysOK, NEW f, Graph(f), \A m \in Keys : \A c \in f[m] : m \notin Below(f, c),
         NEW S \in SUBSET Keys, S # {}
  PROVE  \E y \in S : f[y] \cap S = {}
<1> DEFINE N == {Cardinality(Below(f, y)) : y \in S}
<1>1. ASSUME NEW y \in Keys PROVE IsFiniteSet(Below(f, y)) /\ Cardinality(Below(f, y)) \in Nat
  BY BelowIs, FS_Subset, FS_CardinalityType DEF KeysOK
<1>2. N \in SUBSET Nat /\ N # {}
  BY <1>1
<1> HIDE DEF N
<1>3. PICK m \in N : \A p \in N : m <= p
  BY <1>2, LeastExists
<1>4. PICK y \in S : m = Cardinality(Below(f, y))
  BY DEF N
<1>5. ASSUME NEW c \in f[y], c \in S PROVE FALSE
  <2>1. Below(f, c) \subseteq Below(f, y) /\ y \in Below(f, y) /\ y \notin Below(f, c)
    BY <1>5, BelowIs, BelowBelow
  <2>2. Cardinality(Below(f, c)) <= Cardinality(Below(f, y)) /\ Cardinality(Below(f, c)) # Cardinality(Below(f, y))
    BY <1>1, <2>1, FS_Subset
  <2>3. Cardinality(Below(f, c)) \in N
    BY <1>5 DEF N
  <2> QED
    BY <1>1, <1>3, <1>4, <1>5, <2>2, <2>3
<1> QED
  BY <1>5

-----------------------------------------------------------------------------
(* Left and right links l and r with the parent links par: the parent      *)
(* links are the others turned round, and every node is after all that is  *)
(* below its left link and before all that is below its right one.         *)
Kids(l, r) == [p \in Keys |-> At(l[p]) \cup At(r[p])]

Pointers(l) == l \in [Keys -> Keys \cup {None}]

Linked(l, r, par) == \A a, c \in Keys : par[c] = a <=> c \in Kids(l, r)[a]

InOrder(l, r) ==
  \A m \in Keys : /\ \A x \in Below(Kids(l, r), l[m]) : x < m
                  /\ \A x \in Below(Kids(l, r), r[m]) : m < x

Forest(l, r, par) ==
  /\ Pointers(l) /\ Pointers(r) /\ Pointers(par)
  /\ Linked(l, r, par)
  /\ InOrder(l, r)

LEMMA KidsGraph ==
  ASSUME KeysOK, NEW l, NEW r, Pointers(l), Pointers(r)
  PROVE  /\ Graph(Kids(l, r))
         /\ \A m \in Keys : Kids(l, r)[m] = {l[m], r[m]} \ {None}
BY DEF Kids, Pointers, Graph, At, KeysOK

LEMMA ForestGraph ==
  ASSUME KeysOK, NEW l, NEW r, NEW par, Forest(l, r, par)
  PROVE  /\ Graph(Kids(l, r)) /\ OneParent(Kids(l, r))
         /\ \A m \in Keys : Kids(l, r)[m] = {l[m], r[m]} \ {None}
         /\ \A m \in Keys : \A c \in Kids(l, r)[m] : m \notin Below(Kids(l, r), c)
         /\ \A m \in Keys : l[m] # None => l[m] # r[m]
<1> DEFINE f == Kids(l, r)
<1>1. Graph(f) /\ \A m \in Keys : f[m] = {l[m], r[m]} \ {None}
  BY KidsGraph DEF Forest
<1>2. Pointers(l) /\ Pointers(r) /\ Linked(l, r, par) /\ InOrder(l, r)
  BY DEF Forest
<1>3. OneParent(f)
  BY <1>2 DEF Linked, OneParent
<1>4. ASSUME NEW m \in Keys, NEW c \in f[m], m \in Below(f, c) PROVE FALSE
  <2>1. m < m
    BY <1>1, <1>2, <1>4 DEF InOrder
  <2>2. m \in Int
    BY DEF KeysOK
  <2> QED
    BY <2>1, <2>2
<1>5. ASSUME NEW m \in Keys, l[m] # None, l[m] = r[m] PROVE FALSE
  <2>1. l[m] \in Keys
    BY <1>2, <1>5 DEF Pointers
  <2>2. l[m] \in Below(f, l[m])
    BY <1>1, <2>1, BelowIs
  <2>3. l[m] < m /\ m < l[m]
    BY <1>2, <1>5, <2>2 DEF InOrder
  <2>4. l[m] \in Int /\ m \in Int
    BY <2>1 DEF KeysOK
  <2> QED
    BY <2>3, <2>4
<1> QED
  BY <1>1, <1>3, <1>4, <1>5

(* What is below x fits below m for all the nodes above m.                 *)
Fits(l, r, m, x) ==
  \A y \in Keys : \A z \in Below(Kids(l, r), x) :
    /\ m \in Below(Kids(l, r), l[y]) => z < y
    /\ m \in Below(Kids(l, r), r[y]) => y < z

(* What is below in g, which is f with a link from m to x.                 *)
Widened(g, f, m, x) ==
  \A y \in Keys \cup {None} :
    Below(g, y) = Below(f, y) \cup (IF m \in Below(f, y) THEN Below(f, x) ELSE {})

(* Linking x to the left of m.                                             *)
LEMMA PutLeft ==
  ASSUME KeysOK, NEW l, NEW r, NEW par, Forest(l, r, par), NEW m \in Keys, l[m] = None,
         NEW x \in Keys \cup {None}, x # None => par[x] = None,
         \A z \in Below(Kids(l, r), x) : z < m, Fits(l, r, m, x)
  PROVE  /\ Forest([l EXCEPT ![m] = x], r, [par EXCEPT ![x] = m])
         /\ Widened(Kids([l EXCEPT ![m] = x], r), Kids(l, r), m, x)
<1> DEFINE k == [l EXCEPT ![m] = x]
           q == [par EXCEPT ![x] = m]
           f == Kids(l, r)
           g == Kids(k, r)
<1>1. /\ Graph(f) /\ Pointers(l) /\ Pointers(r) /\ Pointers(par) /\ Linked(l, r, par) /\ InOrder(l, r)
      /\ \A y \in Keys : f[y] = {l[y], r[y]} \ {None}
  BY ForestGraph DEF Forest
<1>2. CASE x = None
  <2>1. k = l /\ q = par
    BY <1>1, <1>2 DEF Pointers, KeysOK
  <2>2. Below(f, x) = {}
    BY <1>1, <1>2, BelowNone
  <2> HIDE DEF k, q
  <2>3. /\ Forest(k, r, q)
        /\ Widened(Kids(k, r), f, m, x)
    BY <2>1, <2>2 DEF Widened
  <2> QED
    BY <2>3 DEF k, q
<1>3. CASE x # None
  <2>0. x \in Keys /\ None \notin Keys
    BY <1>3 DEF KeysOK
  <2>1. Pointers(k) /\ Pointers(q) /\ k[m] = x /\ \A y \in Keys : y # m => k[y] = l[y]
    BY <1>1, <2>0 DEF Pointers
  <2>2. q[x] = m /\ \A y \in Keys : y # x => q[y] = par[y]
    BY <1>1, <2>0 DEF Pointers
  <2> HIDE DEF k, q
  <2>3. Graph(g) /\ \A y \in Keys : g[y] = {k[y], r[y]} \ {None}
    BY <1>1, <2>1, KidsGraph
  <2>4. g = [f EXCEPT ![m] = f[m] \cup {x}]
    <3> HIDE DEF f, g
    <3>1. ASSUME NEW y \in Keys, y # m PROVE g[y] = f[y]
      <4>1. k[y] = l[y]
        BY <2>1, <3>1
      <4>2. g[y] = {k[y], r[y]} \ {None}
        BY <2>3
      <4>3. f[y] = {l[y], r[y]} \ {None}
        BY <1>1
      <4> QED
        BY <4>1, <4>2, <4>3
    <3>2. g[m] = {x, r[m]} \ {None} /\ f[m] = {None, r[m]} \ {None}
      BY <1>1, <2>1, <2>3
    <3>3. g[m] = f[m] \cup {x}
      BY <2>0, <3>2
    <3> QED
      BY <1>1, <2>3, <3>1, <3>3 DEF Graph
  <2>5. ASSUME NEW y \in Keys \cup {None}
        PROVE  Below(g, y) = Below(f, y) \cup (IF m \in Below(f, y) THEN Below(f, x) ELSE {})
    <3> HIDE DEF f, g
    <3>1. Below([f EXCEPT ![m] = f[m] \cup {x}], y) = Below(f, y) \cup (IF m \in Below(f, y) THEN Below(f, x) ELSE {})
      BY <1>1, <2>0, AddLink
    <3> QED
      BY <2>4, <3>1
  <2>6. Linked(k, r, q)
    <3> SUFFICES ASSUME NEW a \in Keys, NEW c \in Keys PROVE q[c] = a <=> c \in g[a]
      BY DEF Linked
    <3>1. par[c] = a <=> c \in f[a]
      BY <1>1 DEF Linked
    <3>2. x \notin f[a]
      BY <1>1, <1>3, <2>0 DEF Linked
    <3> QED
      BY <1>1, <2>0, <2>1, <2>2, <2>3, <3>1, <3>2
  <2>7. InOrder(k, r)
    <3> SUFFICES ASSUME NEW y \in Keys
                 PROVE  (\A z \in Below(g, k[y]) : z < y) /\ (\A z \in Below(g, r[y]) : y < z)
      BY DEF InOrder
    <3>0. y \in Int /\ m \in Int
      BY DEF KeysOK
    <3>1. /\ k[y] \in Keys \cup {None} /\ r[y] \in Keys \cup {None} /\ l[y] \in Keys \cup {None}
          /\ (\A z \in Below(f, l[y]) : z < y) /\ (\A z \in Below(f, r[y]) : y < z)
      BY <1>1, <2>1 DEF Pointers, InOrder
    <3>2. /\ m \in Below(f, l[y]) => \A z \in Below(f, x) : z < y
          /\ m \in Below(f, r[y]) => \A z \in Below(f, x) : y < z
      BY DEF Fits
    <3>3. \A z \in Below(g, r[y]) : y < z
      BY <2>5, <3>1, <3>2
    <3>4. CASE y # m
      BY <2>1, <2>5, <3>1, <3>2, <3>3, <3>4
    <3>5. CASE y = m
      <4>1. Below(g, k[y]) = Below(f, x)
        BY <2>0, <2>1, <2>5, <3>5
      <4> QED
        BY <3>3, <3>5, <4>1
    <3> QED
      BY <3>4, <3>5
  <2> QED
    BY <1>1, <2>1, <2>5, <2>6, <2>7 DEF Forest, Widened, k, q
<1> QED
  BY <1>2, <1>3

(* Linking x to the right of m.                                            *)
LEMMA PutRight ==
  ASSUME KeysOK, NEW l, NEW r, NEW par, Forest(l, r, par), NEW m \in Keys, r[m] = None,
         NEW x \in Keys \cup {None}, x # None => par[x] = None,
         \A z \in Below(Kids(l, r), x) : m < z, Fits(l, r, m, x)
  PROVE  /\ Forest(l, [r EXCEPT ![m] = x], [par EXCEPT ![x] = m])
         /\ Widened(Kids(l, [r EXCEPT ![m] = x]), Kids(l, r), m, x)
<1> DEFINE k == [r EXCEPT ![m] = x]
           q == [par EXCEPT ![x] = m]
           f == Kids(l, r)
           g == Kids(l, k)
<1>1. /\ Graph(f) /\ Pointers(l) /\ Pointers(r) /\ Pointers(par) /\ Linked(l, r, par) /\ InOrder(l, r)
      /\ \A y \in Keys : f[y] = {l[y], r[y]} \ {None}
  BY ForestGraph DEF Forest
<1>2. CASE x = None
  <2>1. k = r /\ q = par
    BY <1>1, <1>2 DEF Pointers, KeysOK
  <2>2. Below(f, x) = {}
    BY <1>1, <1>2, BelowNone
  <2> HIDE DEF k, q
  <2>3. /\ Forest(l, k, q)
        /\ Widened(Kids(l, k), f, m, x)
    BY <2>1, <2>2 DEF Widened
  <2> QED
    BY <2>3 DEF k, q
<1>3. CASE x # None
  <2>0. x \in Keys /\ None \notin Keys
    BY <1>3 DEF KeysOK
  <2>1. Pointers(k) /\ Pointers(q) /\ k[m] = x /\ \A y \in Keys : y # m => k[y] = r[y]
    BY <1>1, <2>0 DEF Pointers
  <2>2. q[x] = m /\ \A y \in Keys : y # x => q[y] = par[y]
    BY <1>1, <2>0 DEF Pointers
  <2> HIDE DEF k, q
  <2>3. Graph(g) /\ \A y \in Keys : g[y] = {l[y], k[y]} \ {None}
    BY <1>1, <2>1, KidsGraph
  <2>4. g = [f EXCEPT ![m] = f[m] \cup {x}]
    <3> HIDE DEF f, g
    <3>1. ASSUME NEW y \in Keys, y # m PROVE g[y] = f[y]
      <4>1. k[y] = r[y]
        BY <2>1, <3>1
      <4>2. g[y] = {l[y], k[y]} \ {None}
        BY <2>3
      <4>3. f[y] = {l[y], r[y]} \ {None}
        BY <1>1
      <4> QED
        BY <4>1, <4>2, <4>3
    <3>2. g[m] = {l[m], x} \ {None} /\ f[m] = {l[m], None} \ {None}
      BY <1>1, <2>1, <2>3
    <3>3. g[m] = f[m] \cup {x}
      BY <2>0, <3>2
    <3> QED
      BY <1>1, <2>3, <3>1, <3>3 DEF Graph
  <2>5. ASSUME NEW y \in Keys \cup {None}
        PROVE  Below(g, y) = Below(f, y) \cup (IF m \in Below(f, y) THEN Below(f, x) ELSE {})
    <3> HIDE DEF f, g
    <3>1. Below([f EXCEPT ![m] = f[m] \cup {x}], y) = Below(f, y) \cup (IF m \in Below(f, y) THEN Below(f, x) ELSE {})
      BY <1>1, <2>0, AddLink
    <3> QED
      BY <2>4, <3>1
  <2>6. Linked(l, k, q)
    <3> SUFFICES ASSUME NEW a \in Keys, NEW c \in Keys PROVE q[c] = a <=> c \in g[a]
      BY DEF Linked
    <3>1. par[c] = a <=> c \in f[a]
      BY <1>1 DEF Linked
    <3>2. x \notin f[a]
      BY <1>1, <1>3, <2>0 DEF Linked
    <3> QED
      BY <1>1, <2>0, <2>1, <2>2, <2>3, <3>1, <3>2
  <2>7. InOrder(l, k)
    <3> SUFFICES ASSUME NEW y \in Keys
                 PROVE  (\A z \in Below(g, l[y]) : z < y) /\ (\A z \in Below(g, k[y]) : y < z)
      BY DEF InOrder
    <3>0. y \in Int /\ m \in Int
      BY DEF KeysOK
    <3>1. /\ k[y] \in Keys \cup {None} /\ r[y] \in Keys \cup {None} /\ l[y] \in Keys \cup {None}
          /\ (\A z \in Below(f, l[y]) : z < y) /\ (\A z \in Below(f, r[y]) : y < z)
      BY <1>1, <2>1 DEF Pointers, InOrder
    <3>2. /\ m \in Below(f, l[y]) => \A z \in Below(f, x) : z < y
          /\ m \in Below(f, r[y]) => \A z \in Below(f, x) : y < z
      BY DEF Fits
    <3>3. \A z \in Below(g, l[y]) : z < y
      BY <2>5, <3>1, <3>2
    <3>4. CASE y # m
      BY <2>1, <2>5, <3>1, <3>2, <3>3, <3>4
    <3>5. CASE y = m
      <4>1. Below(g, k[y]) = Below(f, x)
        BY <2>0, <2>1, <2>5, <3>5
      <4> QED
        BY <3>3, <3>5, <4>1
    <3> QED
      BY <3>4, <3>5
  <2> QED
    BY <1>1, <2>1, <2>5, <2>6, <2>7 DEF Forest, Widened, k, q
<1> QED
  BY <1>2, <1>3

(* Cutting the left link of m.                                             *)
LEMMA CutLeft ==
  ASSUME KeysOK, NEW l, NEW r, NEW par, Forest(l, r, par), NEW m \in Keys
  PROVE  /\ Forest([l EXCEPT ![m] = None], r, [par EXCEPT ![l[m]] = None])
         /\ \A y \in Keys \cup {None} : Narrower(Kids([l EXCEPT ![m] = None], r), Kids(l, r), m, l[m], y)
<1> DEFINE x == l[m]
           k == [l EXCEPT ![m] = None]
           q == [par EXCEPT ![x] = None]
           f == Kids(l, r)
           g == Kids(k, r)
<1>1. /\ Graph(f) /\ Pointers(l) /\ Pointers(r) /\ Pointers(par) /\ Linked(l, r, par) /\ InOrder(l, r)
      /\ OneParent(f) /\ \A y \in Keys : f[y] = {l[y], r[y]} \ {None}
  BY ForestGraph DEF Forest
<1>2. CASE x = None
  <2>1. k = l /\ q = par
    BY <1>1, <1>2 DEF Pointers, KeysOK
  <2>2. Below(f, x) = {}
    BY <1>1, <1>2, BelowNone
  <2> HIDE DEF k, q, x
  <2>3. Forest(k, r, q) /\ \A y \in Keys \cup {None} : Narrower(g, f, m, x, y)
    BY <2>1, <2>2 DEF Narrower
  <2> QED
    BY <2>3 DEF k, q, x
<1>3. CASE x # None
  <2>0. x \in Keys /\ None \notin Keys /\ x # r[m]
    BY <1>1, <1>3, ForestGraph DEF KeysOK, Pointers
  <2>1. Pointers(k) /\ Pointers(q) /\ k[m] = None /\ \A y \in Keys : y # m => k[y] = l[y]
    BY <1>1, <2>0 DEF Pointers
  <2>2. q[x] = None /\ \A y \in Keys : y # x => q[y] = par[y]
    BY <1>1, <2>0 DEF Pointers
  <2>x. x = l[m]
    OBVIOUS
  <2> HIDE DEF k, q, x
  <2>3. Graph(g) /\ \A y \in Keys : g[y] = {k[y], r[y]} \ {None}
    BY <1>1, <2>1, KidsGraph
  <2>4. g = [f EXCEPT ![m] = f[m] \ {x}] /\ x \in f[m]
    <3> HIDE DEF f, g
    <3>1. ASSUME NEW y \in Keys, y # m PROVE g[y] = f[y]
      <4>1. k[y] = l[y]
        BY <2>1, <3>1
      <4>2. g[y] = {k[y], r[y]} \ {None}
        BY <2>3
      <4>3. f[y] = {l[y], r[y]} \ {None}
        BY <1>1
      <4> QED
        BY <4>1, <4>2, <4>3
    <3>2. g[m] = {None, r[m]} \ {None} /\ f[m] = {x, r[m]} \ {None}
      BY <1>1, <2>1, <2>3, <2>x
    <3>3. g[m] = f[m] \ {x} /\ x \in f[m]
      BY <2>0, <3>2
    <3> QED
      BY <1>1, <2>3, <3>1, <3>3 DEF Graph
  <2>5. ASSUME NEW y \in Keys \cup {None} PROVE Narrower(g, f, m, x, y)
    <3> HIDE DEF f, g
    <3>1. Narrower([f EXCEPT ![m] = f[m] \ {x}], f, m, x, y)
      BY <1>1, <2>0, <2>4, CutLink
    <3> QED
      BY <2>4, <3>1
  <2>6. Linked(k, r, q)
    <3> SUFFICES ASSUME NEW a \in Keys, NEW c \in Keys PROVE q[c] = a <=> c \in g[a]
      BY DEF Linked
    <3>1. par[c] = a <=> c \in f[a]
      BY <1>1 DEF Linked
    <3>2. x \in f[a] <=> a = m
      BY <1>1, <2>0, <2>4 DEF OneParent
    <3>3. g[a] = IF a = m THEN f[m] \ {x} ELSE f[a]
      <4> HIDE DEF f, g
      <4> QED
        BY <1>1, <2>4 DEF Graph
    <3> QED
      BY <2>0, <2>2, <3>1, <3>2, <3>3
  <2>7. InOrder(k, r)
    <3> SUFFICES ASSUME NEW y \in Keys
                 PROVE  (\A z \in Below(g, k[y]) : z < y) /\ (\A z \in Below(g, r[y]) : y < z)
      BY DEF InOrder
    <3>1. /\ k[y] \in Keys \cup {None} /\ r[y] \in Keys \cup {None} /\ l[y] \in Keys \cup {None}
          /\ (\A z \in Below(f, l[y]) : z < y) /\ (\A z \in Below(f, r[y]) : y < z)
      BY <1>1, <2>1 DEF Pointers, InOrder
    <3>2. Below(g, r[y]) \subseteq Below(f, r[y]) /\ Below(g, k[y]) \subseteq Below(f, k[y])
      BY <2>5, <3>1 DEF Narrower
    <3>3. k[y] = l[y] \/ Below(g, k[y]) = {}
      BY <2>1, <2>3, BelowNone
    <3> QED
      BY <3>1, <3>2, <3>3
  <2>8. Forest(k, r, q) /\ \A y \in Keys \cup {None} : Narrower(g, f, m, x, y)
    BY <1>1, <2>1, <2>5, <2>6, <2>7 DEF Forest
  <2> QED
    BY <2>8 DEF k, q, x
<1> QED
  BY <1>2, <1>3

(* Cutting the right link of m.                                            *)
LEMMA CutRight ==
  ASSUME KeysOK, NEW l, NEW r, NEW par, Forest(l, r, par), NEW m \in Keys
  PROVE  /\ Forest(l, [r EXCEPT ![m] = None], [par EXCEPT ![r[m]] = None])
         /\ \A y \in Keys \cup {None} : Narrower(Kids(l, [r EXCEPT ![m] = None]), Kids(l, r), m, r[m], y)
<1> DEFINE x == r[m]
           k == [r EXCEPT ![m] = None]
           q == [par EXCEPT ![x] = None]
           f == Kids(l, r)
           g == Kids(l, k)
<1>1. /\ Graph(f) /\ Pointers(l) /\ Pointers(r) /\ Pointers(par) /\ Linked(l, r, par) /\ InOrder(l, r)
      /\ OneParent(f) /\ \A y \in Keys : f[y] = {l[y], r[y]} \ {None}
  BY ForestGraph DEF Forest
<1>2. CASE x = None
  <2>1. k = r /\ q = par
    BY <1>1, <1>2 DEF Pointers, KeysOK
  <2>2. Below(f, x) = {}
    BY <1>1, <1>2, BelowNone
  <2> HIDE DEF k, q, x
  <2>3. Forest(l, k, q) /\ \A y \in Keys \cup {None} : Narrower(g, f, m, x, y)
    BY <2>1, <2>2 DEF Narrower
  <2> QED
    BY <2>3 DEF k, q, x
<1>3. CASE x # None
  <2>0. x \in Keys /\ None \notin Keys /\ x # l[m]
    BY <1>1, <1>3, ForestGraph DEF KeysOK, Pointers
  <2>1. Pointers(k) /\ Pointers(q) /\ k[m] = None /\ \A y \in Keys : y # m => k[y] = r[y]
    BY <1>1, <2>0 DEF Pointers
  <2>2. q[x] = None /\ \A y \in Keys : y # x => q[y] = par[y]
    BY <1>1, <2>0 DEF Pointers
  <2>x. x = r[m]
    OBVIOUS
  <2> HIDE DEF k, q, x
  <2>3. Graph(g) /\ \A y \in Keys : g[y] = {l[y], k[y]} \ {None}
    BY <1>1, <2>1, KidsGraph
  <2>4. g = [f EXCEPT ![m] = f[m] \ {x}] /\ x \in f[m]
    <3> HIDE DEF f, g
    <3>1. ASSUME NEW y \in Keys, y # m PROVE g[y] = f[y]
      <4>1. k[y] = r[y]
        BY <2>1, <3>1
      <4>2. g[y] = {l[y], k[y]} \ {None}
        BY <2>3
      <4>3. f[y] = {l[y], r[y]} \ {None}
        BY <1>1
      <4> QED
        BY <4>1, <4>2, <4>3
    <3>2. g[m] = {l[m], None} \ {None} /\ f[m] = {l[m], x} \ {None}
      BY <1>1, <2>1, <2>3, <2>x
    <3>3. g[m] = f[m] \ {x} /\ x \in f[m]
      BY <2>0, <3>2
    <3> QED
      BY <1>1, <2>3, <3>1, <3>3 DEF Graph
  <2>5. ASSUME NEW y \in Keys \cup {None} PROVE Narrower(g, f, m, x, y)
    <3> HIDE DEF f, g
    <3>1. Narrower([f EXCEPT ![m] = f[m] \ {x}], f, m, x, y)
      BY <1>1, <2>0, <2>4, CutLink
    <3> QED
      BY <2>4, <3>1
  <2>6. Linked(l, k, q)
    <3> SUFFICES ASSUME NEW a \in Keys, NEW c \in Keys PROVE q[c] = a <=> c \in g[a]
      BY DEF Linked
    <3>1. par[c] = a <=> c \in f[a]
      BY <1>1 DEF Linked
    <3>2. x \in f[a] <=> a = m
      BY <1>1, <2>0, <2>4 DEF OneParent
    <3>3. g[a] = IF a = m THEN f[m] \ {x} ELSE f[a]
      <4> HIDE DEF f, g
      <4> QED
        BY <1>1, <2>4 DEF Graph
    <3> QED
      BY <2>0, <2>2, <3>1, <3>2, <3>3
  <2>7. InOrder(l, k)
    <3> SUFFICES ASSUME NEW y \in Keys
                 PROVE  (\A z \in Below(g, l[y]) : z < y) /\ (\A z \in Below(g, k[y]) : y < z)
      BY DEF InOrder
    <3>1. /\ k[y] \in Keys \cup {None} /\ r[y] \in Keys \cup {None} /\ l[y] \in Keys \cup {None}
          /\ (\A z \in Below(f, l[y]) : z < y) /\ (\A z \in Below(f, r[y]) : y < z)
      BY <1>1, <2>1 DEF Pointers, InOrder
    <3>2. Below(g, l[y]) \subseteq Below(f, l[y]) /\ Below(g, k[y]) \subseteq Below(f, k[y])
      BY <2>5, <3>1 DEF Narrower
    <3>3. k[y] = r[y] \/ Below(g, k[y]) = {}
      BY <2>1, <2>3, BelowNone
    <3> QED
      BY <3>1, <3>2, <3>3
  <2>8. Forest(l, k, q) /\ \A y \in Keys \cup {None} : Narrower(g, f, m, x, y)
    BY <1>1, <2>1, <2>5, <2>6, <2>7 DEF Forest
  <2> QED
    BY <2>8 DEF k, q, x
<1> QED
  BY <1>2, <1>3

(* A node, what is below its left link, and what is below its right link.  *)
LEMMA Subtrees ==
  ASSUME KeysOK, NEW l, NEW r, NEW par, Forest(l, r, par), NEW n \in Keys
  PROVE  /\ l[n] \in Keys \cup {None} /\ r[n] \in Keys \cup {None}
         /\ Below(Kids(l, r), n) \in SUBSET Keys
         /\ Below(Kids(l, r), n) = {n} \cup Below(Kids(l, r), l[n]) \cup Below(Kids(l, r), r[n])
         /\ n \notin Below(Kids(l, r), l[n]) /\ n \notin Below(Kids(l, r), r[n])
         /\ Below(Kids(l, r), l[n]) \cap Below(Kids(l, r), r[n]) = {}
<1> DEFINE f == Kids(l, r)
<1>1. Graph(f) /\ f[n] = {l[n], r[n]} \ {None} /\ InOrder(l, r)
  BY ForestGraph DEF Forest
<1>2. l[n] \in Keys \cup {None} /\ r[n] \in Keys \cup {None}
  BY DEF Forest, Pointers
<1>3. Below(f, None) = {} /\ Below(f, n) \in SUBSET Keys
  BY <1>1, BelowNone, BelowIs
<1>4. Below(f, n) = {n} \cup UNION {Below(f, c) : c \in f[n]}
  BY <1>1, FirstLink
<1>5. Below(f, n) = {n} \cup Below(f, l[n]) \cup Below(f, r[n])
  <2> HIDE DEF f
  <2> QED
    BY <1>1, <1>3, <1>4
<1>6. ASSUME NEW z \in Keys, z \in Below(f, l[n]) PROVE z # n /\ z \notin Below(f, r[n])
  <2>1. z < n /\ (z \in Below(f, r[n]) => n < z)
    BY <1>1, <1>6 DEF InOrder
  <2>2. z \in Int /\ n \in Int
    BY DEF KeysOK
  <2> QED
    BY <2>1, <2>2
<1>7. n \notin Below(f, r[n])
  <2>1. n \in Below(f, r[n]) => n < n
    BY <1>1 DEF InOrder
  <2>2. n \in Int
    BY DEF KeysOK
  <2> QED
    BY <2>1, <2>2
<1> QED
  BY <1>2, <1>3, <1>5, <1>6, <1>7

(* A node without a parent is below no link.                               *)
LEMMA RootApart ==
  ASSUME KeysOK, NEW l, NEW r, NEW par, Forest(l, r, par), NEW x \in Keys, par[x] = None
  PROVE  /\ \A y \in Keys : /\ x \notin Below(Kids(l, r), l[y]) /\ x \notin Below(Kids(l, r), r[y])
                            /\ x \notin Kids(l, r)[y]
         /\ \A y \in Keys \cup {None} : x \in Below(Kids(l, r), y) => y = x
<1> DEFINE f == Kids(l, r)
<1>1. /\ Graph(f) /\ Linked(l, r, par) /\ None \notin Keys
      /\ \A y \in Keys : f[y] = {l[y], r[y]} \ {None} /\ l[y] \in Keys \cup {None} /\ r[y] \in Keys \cup {None}
  BY ForestGraph DEF Forest, KeysOK, Pointers
<1>2. \A y \in Keys : x \notin f[y]
  BY <1>1 DEF Linked
<1>3. ASSUME NEW y \in Keys \cup {None}, x \in Below(f, y) PROVE y = x
  <2>1. ASSUME y # x PROVE FALSE
    <3>1. PICK m \in Below(f, y) : x \in f[m]
      BY <1>1, <1>3, <2>1, LastLink
    <3>2. m \in Keys
      BY <1>1, BelowType
    <3> QED
      BY <1>2, <3>1, <3>2
  <2> QED
    BY <2>1
<1>4. ASSUME NEW y \in Keys PROVE x # l[y] /\ x # r[y]
  BY <1>1, <1>2
<1> QED
  BY <1>1, <1>2, <1>3, <1>4

(* Cutting both links of n.                                                *)
Split(l, r, par, n, k, s, q) ==
  /\ Forest(k, s, q)
  /\ k[n] = None /\ s[n] = None /\ \A y \in Keys : y # n => k[y] = l[y] /\ s[y] = r[y]
  /\ q[n] = par[n]
  /\ l[n] # None => q[l[n]] = None
  /\ r[n] # None => q[r[n]] = None
  /\ \A y \in Keys : y # l[n] /\ y # r[n] => q[y] = par[y]
  /\ \A y \in Keys \cup {None} : n \notin Below(Kids(l, r), y) => Below(Kids(k, s), y) = Below(Kids(l, r), y)
  /\ \A y \in Keys \ Below(Kids(l, r), n) :
       Below(Kids(k, s), y) = Below(Kids(l, r), y) \ (Below(Kids(l, r), n) \ {n})

LEMMA SplitNode ==
  ASSUME KeysOK, NEW l, NEW r, NEW par, Forest(l, r, par), NEW n \in Keys
  PROVE  Split(l, r, par, n, [l EXCEPT ![n] = None], [r EXCEPT ![n] = None],
               [[par EXCEPT ![l[n]] = None] EXCEPT ![r[n]] = None])
<1> DEFINE f == Kids(l, r)
           k == [l EXCEPT ![n] = None]
           s == [r EXCEPT ![n] = None]
           p == [par EXCEPT ![l[n]] = None]
           q == [p EXCEPT ![r[n]] = None]
           g == Kids(k, r)
           h == Kids(k, s)
<1>1. /\ Forest(k, r, p)
      /\ \A y \in Keys \cup {None} : Narrower(g, f, n, l[n], y)
  BY CutLeft
<1>2. /\ Forest(k, s, q)
      /\ \A y \in Keys \cup {None} : Narrower(h, g, n, r[n], y)
  <2> HIDE DEF k, p
  <2> QED
    BY <1>1, CutRight
<1>3. Pointers(l) /\ Pointers(r) /\ Pointers(par) /\ n \notin {l[n], r[n]}
  <2>1. n \notin Below(f, l[n]) /\ n \notin Below(f, r[n])
    BY Subtrees
  <2>2. Graph(f) /\ n \in Below(f, n)
    BY ForestGraph, BelowIs
  <2> QED
    BY <2>1, <2>2 DEF Forest
<1>4. /\ k[n] = None /\ s[n] = None /\ \A y \in Keys : y # n => k[y] = l[y] /\ s[y] = r[y]
      /\ q[n] = par[n]
      /\ l[n] # None => q[l[n]] = None
      /\ r[n] # None => q[r[n]] = None
      /\ \A y \in Keys : y # l[n] /\ y # r[n] => q[y] = par[y]
  BY <1>3 DEF Pointers
<1>5. /\ Below(f, n) = {n} \cup Below(f, l[n]) \cup Below(f, r[n])
      /\ n \notin Below(f, l[n]) /\ n \notin Below(f, r[n])
      /\ Below(f, l[n]) \cap Below(f, r[n]) = {}
      /\ r[n] \in Keys \cup {None}
  BY Subtrees
<1> HIDE DEF f, g, h
<1>6. ASSUME NEW y \in Keys \cup {None}, n \notin Below(f, y) PROVE Below(h, y) = Below(f, y)
  <2>1. Below(g, y) = Below(f, y)
    BY <1>1, <1>6 DEF Narrower
  <2>2. Below(h, y) = Below(g, y)
    BY <1>2, <1>6, <2>1 DEF Narrower
  <2> QED
    BY <2>1, <2>2
<1>7. ASSUME NEW y \in Keys \ Below(f, n) PROVE Below(h, y) = Below(f, y) \ (Below(f, n) \ {n})
  <2>1. Below(g, y) = Below(f, y) \ Below(f, l[n])
    BY <1>1, <1>5, <1>7 DEF Narrower
  <2>2. Below(g, r[n]) = Below(f, r[n])
    BY <1>1, <1>5 DEF Narrower
  <2>3. Below(h, y) = Below(g, y) \ Below(g, r[n])
    BY <1>2, <1>5, <1>7, <2>2 DEF Narrower
  <2> QED
    BY <1>5, <2>1, <2>2, <2>3
<1> HIDE DEF k, s, q
<1>8. Split(l, r, par, n, k, s, q)
  BY <1>2, <1>4, <1>6, <1>7 DEF Split, f, h
<1> QED
  BY <1>8 DEF k, s, q, p

(* n is left alone, and x is the root of all that was below it.            *)
Merged(l, r, par, n, k, s, q, x) ==
  /\ Forest(k, s, q)
  /\ x \in Keys \cup {None} /\ x # n /\ (x # None => q[x] = None)
  /\ k[n] = None /\ s[n] = None /\ q[n] = par[n]
  /\ Below(Kids(k, s), x) = Below(Kids(l, r), n) \ {n}
  /\ \A y \in Keys \ Below(Kids(l, r), n) :
       /\ k[y] = l[y] /\ s[y] = r[y]
       /\ Below(Kids(k, s), y) = Below(Kids(l, r), y) \ (Below(Kids(l, r), n) \ {n})

LEMMA MergeRight ==
  ASSUME KeysOK, NEW l, NEW r, NEW par, Forest(l, r, par), NEW n \in Keys, l[n] = None,
         NEW k, NEW s, NEW q, Split(l, r, par, n, k, s, q)
  PROVE  Merged(l, r, par, n, k, s, q, r[n])
<1> DEFINE f == Kids(l, r)
           x == r[n]
<1>1. /\ Below(f, n) = {n} \cup Below(f, l[n]) \cup Below(f, r[n])
      /\ n \notin Below(f, x) /\ x \in Keys \cup {None}
  BY Subtrees
<1>2. Graph(f) /\ Below(f, l[n]) = {} /\ n \in Below(f, n) /\ x # n
  BY <1>1, ForestGraph, BelowNone, BelowIs DEF Forest
<1>3. Below(Kids(k, s), x) = Below(f, n) \ {n}
  <2>1. Below(Kids(k, s), x) = Below(f, x)
    BY <1>1 DEF Split
  <2> QED
    BY <1>1, <1>2, <2>1
<1>4. \A y \in Keys \ Below(f, n) : y # n
  BY <1>2
<1> QED
  BY <1>1, <1>2, <1>3, <1>4 DEF Split, Merged

LEMMA MergeLeft ==
  ASSUME KeysOK, NEW l, NEW r, NEW par, Forest(l, r, par), NEW n \in Keys,
         l[n] # None, r[l[n]] = None,
         NEW k, NEW s, NEW q, Split(l, r, par, n, k, s, q)
  PROVE  Merged(l, r, par, n, k, [s EXCEPT ![l[n]] = r[n]], [q EXCEPT ![r[n]] = l[n]], l[n])
<1> DEFINE f == Kids(l, r)
           h == Kids(k, s)
           x == l[n]
           t == [s EXCEPT ![x] = r[n]]
           p == [q EXCEPT ![r[n]] = x]
           g == Kids(k, t)
<1>1. /\ Below(f, n) = {n} \cup Below(f, x) \cup Below(f, r[n])
      /\ n \notin Below(f, x) /\ x \in Keys /\ n \notin Below(f, r[n]) /\ r[n] \in Keys \cup {None}
      /\ Below(f, x) \cap Below(f, r[n]) = {} /\ Below(f, n) \in SUBSET Keys
  <2>1. /\ Below(f, n) = {n} \cup Below(f, l[n]) \cup Below(f, r[n])
        /\ n \notin Below(f, l[n]) /\ n \notin Below(f, r[n])
        /\ Below(f, l[n]) \cap Below(f, r[n]) = {} /\ Below(f, n) \in SUBSET Keys
        /\ l[n] \in Keys \cup {None} /\ r[n] \in Keys \cup {None}
    BY Subtrees
  <2> QED
    BY <2>1
<1>2. Graph(f) /\ n \in Below(f, n) /\ x \in Below(f, x) /\ x # n
  BY <1>1, ForestGraph, BelowIs
<1>3. Forest(k, s, q) /\ s[x] = None /\ q[x] = None /\ k[n] = None /\ s[n] = None /\ q[n] = par[n]
  BY <1>1, <1>2 DEF Split
<1>4. Below(h, x) = Below(f, x) /\ Below(h, r[n]) = Below(f, r[n])
  BY <1>1 DEF Split
<1>5. r[n] # None => q[r[n]] = None
  BY DEF Split
<1>6. \A z \in Below(h, r[n]) : x < z
  <2> SUFFICES ASSUME NEW z \in Below(h, r[n]) PROVE x < z
    OBVIOUS
  <2>1. x < n /\ n < z
    BY <1>2, <1>4 DEF Forest, InOrder
  <2>2. x \in Int /\ n \in Int /\ z \in Int
    BY <1>1, <1>4 DEF KeysOK
  <2> QED
    BY <2>1, <2>2
<1>7. Fits(k, s, x, r[n])
  BY <1>1, <1>3, RootApart DEF Fits
<1>8. /\ Forest(k, t, p)
      /\ Widened(g, h, x, r[n])
  BY <1>1, <1>3, <1>5, <1>6, <1>7, PutRight
<1>9. /\ t[n] = None /\ p[x] = None /\ p[n] = par[n]
      /\ \A y \in Keys \ Below(f, n) : t[y] = s[y] /\ k[y] = l[y] /\ s[y] = r[y]
  <2>1. s \in [Keys -> Keys \cup {None}] /\ q \in [Keys -> Keys \cup {None}]
    BY <1>3 DEF Forest, Pointers
  <2>2. r[n] # x /\ r[n] # n
    <3>1. r[n] # None => r[n] \in Below(f, r[n])
      BY <1>1, <1>2, BelowIs
    <3> QED
      BY <1>1, <1>2, <3>1
  <2>3. \A y \in Keys \ Below(f, n) : y # n /\ y # x
    BY <1>1, <1>2
  <2>4. \A y \in Keys : y # n => k[y] = l[y] /\ s[y] = r[y]
    BY DEF Split
  <2> QED
    BY <1>1, <1>2, <1>3, <2>1, <2>2, <2>3, <2>4
<1> HIDE DEF t, p, g
<1>10. Below(g, x) = Below(f, n) \ {n}
  BY <1>1, <1>2, <1>4, <1>8 DEF Widened
<1>11. ASSUME NEW y \in Keys \ Below(f, n) PROVE Below(g, y) = Below(f, y) \ (Below(f, n) \ {n})
  <2>1. Below(h, y) = Below(f, y) \ (Below(f, n) \ {n})
    BY DEF Split
  <2>2. x \notin Below(h, y)
    BY <1>1, <1>2, <2>1
  <2> QED
    BY <1>8, <2>1, <2>2 DEF Widened
<1>12. Merged(l, r, par, n, k, t, p, x)
  BY <1>1, <1>2, <1>3, <1>8, <1>9, <1>10, <1>11 DEF Merged, f, g
<1> QED
  BY <1>12 DEF t, p, x

(* x is the last node on the left of n, w its parent, p the first node     *)
(* below x.                                                                *)
Deep(l, r, n, x, p, w) ==
  /\ x \in Below(Kids(l, r), l[n]) /\ x # l[n] /\ r[x] = None
  /\ w \in Keys /\ r[w] = x
  /\ p \in Below(Kids(l, r), x) /\ l[p] = None
  /\ \A z \in Below(Kids(l, r), x) : p <= z
  /\ \A z \in Below(Kids(l, r), l[n]) \ Below(Kids(l, r), x) : \A u \in Below(Kids(l, r), x) : z < u

LEMMA MergeDeep ==
  ASSUME KeysOK, NEW l, NEW r, NEW par, Forest(l, r, par), NEW n \in Keys,
         NEW x, NEW p, NEW w, Deep(l, r, n, x, p, w),
         NEW k, NEW s, NEW q, Split(l, r, par, n, k, s, q)
  PROVE  Merged(l, r, par, n, [k EXCEPT ![p] = l[n]],
                [[s EXCEPT ![w] = None] EXCEPT ![x] = r[n]],
                [[[q EXCEPT ![x] = None] EXCEPT ![l[n]] = p] EXCEPT ![r[n]] = x], x)
<1> DEFINE f == Kids(l, r)
           h == Kids(k, s)
           a == l[n]
           b == r[n]
           s3 == [s EXCEPT ![w] = None]
           q3 == [q EXCEPT ![x] = None]
           g3 == Kids(k, s3)
           k4 == [k EXCEPT ![p] = a]
           q4 == [q3 EXCEPT ![a] = p]
           g4 == Kids(k4, s3)
           s5 == [s3 EXCEPT ![x] = b]
           q5 == [q4 EXCEPT ![b] = x]
           g5 == Kids(k4, s5)
<1>1. /\ Below(f, n) = {n} \cup Below(f, a) \cup Below(f, b)
      /\ n \notin Below(f, a) /\ n \notin Below(f, b)
      /\ Below(f, a) \cap Below(f, b) = {} /\ Below(f, n) \in SUBSET Keys
      /\ a \in Keys \cup {None} /\ b \in Keys \cup {None}
  BY Subtrees
<1>2. /\ Graph(f) /\ OneParent(f) /\ None \notin Keys
      /\ \A y \in Keys : f[y] = {l[y], r[y]} \ {None} /\ \A c \in f[y] : y \notin Below(f, c)
  BY ForestGraph DEF KeysOK
<1>3. /\ x \in Below(f, a) /\ x # a /\ r[x] = None
      /\ w \in Keys /\ r[w] = x
      /\ p \in Below(f, x) /\ l[p] = None
      /\ \A z \in Below(f, x) : p <= z
      /\ \A z \in Below(f, a) \ Below(f, x) : \A u \in Below(f, x) : z < u
  BY DEF Deep
<1>4. a \in Keys /\ x \in Keys /\ p \in Keys /\ Below(f, x) \subseteq Below(f, a) /\ p \in Below(f, a)
  <2>1. a \in Keys
    BY <1>1, <1>2, <1>3, BelowNone
  <2>2. x \in Keys /\ Below(f, x) \subseteq Below(f, a)
    BY <1>1, <1>2, <1>3, BelowBelow
  <2> QED
    BY <1>1, <1>3, <2>1, <2>2
<1>5. w \in Below(f, a) /\ w # n /\ x # n /\ p # n
  <2>1. PICK m \in Below(f, a) : x \in f[m]
    BY <1>1, <1>2, <1>3, LastLink
  <2>2. m \in Keys /\ x \in f[w]
    BY <1>1, <1>2, <1>3, <1>4, <2>1
  <2>3. m = w
    BY <1>2, <1>3, <1>4, <2>1, <2>2 DEF OneParent
  <2> QED
    BY <1>1, <1>3, <1>4, <2>1, <2>3
<1>6. /\ Forest(k, s, q) /\ s[w] = x /\ k[p] = None /\ s[x] = None
      /\ k[n] = None /\ s[n] = None /\ q[n] = par[n] /\ q[a] = None /\ (b # None => q[b] = None)
      /\ Graph(h) /\ OneParent(h)
  <2>1. Forest(k, s, q)
    BY DEF Split
  <2> QED
    BY <1>2, <1>3, <1>4, <1>5, <2>1, ForestGraph DEF Split
<1>7. /\ Below(h, a) = Below(f, a) /\ Below(h, x) = Below(f, x) /\ Below(h, b) = Below(f, b)
      /\ \A y \in Keys \ Below(f, n) : Below(h, y) = Below(f, y) \ (Below(f, n) \ {n})
  BY <1>1, <1>4 DEF Split
<1>8. w \notin Below(f, x)
  <2>1. x \in f[w]
    BY <1>2, <1>3, <1>4
  <2> QED
    BY <1>2, <1>3, <2>1
<1>9. a \notin Below(f, x)
  <2>1. a \in Below(h, x) => x = a
    BY <1>4, <1>6, RootApart
  <2> QED
    BY <1>3, <1>7, <2>1
<1> HIDE DEF f, h
(* x leaves w.                                                             *)
<1>10. Forest(k, s3, q3) /\ \A y \in Keys \cup {None} : Narrower(g3, h, w, x, y)
  <2>1. /\ Forest(k, [s EXCEPT ![w] = None], [q EXCEPT ![s[w]] = None])
        /\ \A y \in Keys \cup {None} : Narrower(Kids(k, [s EXCEPT ![w] = None]), Kids(k, s), w, s[w], y)
    BY <1>3, <1>6, CutRight
  <2> QED
    BY <1>6, <2>1 DEF h
<1>11. /\ Pointers(k) /\ Pointers(s) /\ Pointers(q)
       /\ s3[x] = None /\ s3[n] = None /\ \A y \in Keys : y # w => s3[y] = s[y]
       /\ q3[x] = None /\ q3[a] = None /\ (b # None => q3[b] = None) /\ (x # n => q3[n] = par[n])
  BY <1>3, <1>4, <1>6 DEF Forest, Pointers
<1> HIDE DEF s3, q3, g3
<1>12. /\ Below(g3, x) = Below(f, x) /\ Below(g3, a) = Below(f, a) \ Below(f, x)
       /\ Below(g3, b) = Below(f, b)
       /\ \A y \in Keys \ Below(f, n) : Below(g3, y) = Below(f, y) \ (Below(f, n) \ {n})
  <2>1. Below(g3, x) = Below(f, x)
    BY <1>4, <1>7, <1>8, <1>10 DEF Narrower
  <2>2. Below(g3, a) = Below(f, a) \ Below(f, x)
    BY <1>4, <1>7, <1>9, <1>10 DEF Narrower
  <2>3. Below(g3, b) = Below(f, b)
    BY <1>1, <1>5, <1>7, <1>10 DEF Narrower
  <2>4. ASSUME NEW y \in Keys \ Below(f, n) PROVE Below(g3, y) = Below(f, y) \ (Below(f, n) \ {n})
    <3>1. w \in Below(f, n) \ {n}
      BY <1>1, <1>5
    <3>2. Below(h, y) = Below(f, y) \ (Below(f, n) \ {n})
      BY <1>7
    <3> QED
      BY <1>10, <3>1, <3>2 DEF Narrower
  <2> QED
    BY <2>1, <2>2, <2>3, <2>4
<1>13. \A y, z \in Keys : y < z \/ z < y \/ y = z
  BY DEF KeysOK
(* What was on the left of n goes to the left of p.                        *)
<1>14. \A z \in Below(g3, a) : z < p
  BY <1>3, <1>12
<1>15. Fits(k, s3, p, a)
  <2> SUFFICES ASSUME NEW y \in Keys, NEW z \in Below(g3, a)
               PROVE  /\ p \in Below(g3, k[y]) => z < y
                      /\ p \in Below(g3, s3[y]) => y < z
    BY DEF Fits, g3
  <2>0. /\ Graph(g3) /\ OneParent(g3) /\ g3[y] = {k[y], s3[y]} \ {None} /\ InOrder(k, s3)
        /\ k[y] \in Keys \cup {None} /\ s3[y] \in Keys \cup {None}
        /\ x \notin Below(g3, k[y]) /\ x \notin Below(g3, s3[y]) /\ x \notin g3[y]
        /\ Below(g3, None) = {}
    <3>1. Graph(g3) /\ OneParent(g3) /\ g3[y] = {k[y], s3[y]} \ {None}
      BY <1>10, ForestGraph DEF g3
    <3>2. x \notin Below(g3, k[y]) /\ x \notin Below(g3, s3[y]) /\ x \notin g3[y]
      BY <1>4, <1>10, <1>11, RootApart DEF g3
    <3>3. InOrder(k, s3) /\ k[y] \in Keys \cup {None} /\ s3[y] \in Keys \cup {None}
      BY <1>10 DEF Forest, Pointers
    <3> QED
      BY <3>1, <3>2, <3>3, BelowNone
  <2>1. ASSUME NEW c \in {k[y], s3[y]}, p \in Below(g3, c) PROVE y \in Below(f, x)
    <3>1. c \in g3[y] /\ c \in Keys /\ c # x /\ x \notin Below(g3, c)
      BY <2>0, <2>1
    <3>2. p \in Below(g3, x)
      BY <1>3, <1>12
    <3>3. c \in Below(g3, x)
      BY <1>4, <2>0, <2>1, <3>1, <3>2, MeetAbove
    <3>4. PICK m \in Below(g3, x) : c \in g3[m]
      BY <1>4, <2>0, <3>1, <3>3, LastLink
    <3>5. m \in Keys
      BY <1>4, <2>0, BelowType
    <3>6. m = y
      BY <2>0, <3>1, <3>4, <3>5 DEF OneParent
    <3> QED
      BY <1>12, <3>4, <3>6
  <2>2. p \in Below(g3, k[y]) => z < y
    BY <1>3, <1>12, <2>1
  <2>3. p \notin Below(g3, s3[y])
    <3>1. SUFFICES ASSUME p \in Below(g3, s3[y]) PROVE FALSE
      OBVIOUS
    <3>2. y < p
      BY <2>0, <3>1 DEF InOrder, g3
    <3>3. p <= y
      BY <1>3, <2>1, <3>1
    <3>4. p \in Int /\ y \in Int
      BY <1>4 DEF KeysOK
    <3> QED
      BY <3>2, <3>3, <3>4
  <2> QED
    BY <2>2, <2>3
<1>16. Forest(k4, s3, q4) /\ Widened(g4, g3, p, a)
  <2>1. \A z \in Below(Kids(k, s3), a) : z < p
    BY <1>14 DEF g3
  <2>2. /\ Forest([k EXCEPT ![p] = a], s3, [q3 EXCEPT ![a] = p])
        /\ Widened(Kids([k EXCEPT ![p] = a], s3), Kids(k, s3), p, a)
    BY <1>4, <1>6, <1>10, <1>11, <1>15, <2>1, PutLeft
  <2> QED
    BY <2>2 DEF g3
<1>17. a # x /\ a # n /\ b # a /\ b # x /\ b # n
  <2>1. b # None => b \in Below(f, b)
    BY <1>1, <1>2, BelowIs
  <2>2. a \in Below(f, a)
    BY <1>2, <1>4, BelowIs
  <2> QED
    BY <1>1, <1>2, <1>3, <1>4, <2>1, <2>2
<1>18. /\ k4[n] = None /\ q4[x] = None /\ q4[n] = par[n] /\ (b # None => q4[b] = None)
       /\ \A y \in Keys : y # p => k4[y] = k[y]
  <2>1. Pointers(q3)
    BY <1>10 DEF Forest
  <2> QED
    BY <1>5, <1>6, <1>11, <1>17, <2>1 DEF Pointers
<1> HIDE DEF k4, q4, g4
<1>19. /\ Below(g4, x) = Below(f, a) /\ Below(g4, b) = Below(f, b)
       /\ \A y \in Keys \ Below(f, n) : Below(g4, y) = Below(f, y) \ (Below(f, n) \ {n})
  <2>1. Below(g4, x) = Below(f, a)
    BY <1>3, <1>4, <1>12, <1>16 DEF Widened
  <2>2. Below(g4, b) = Below(f, b)
    BY <1>1, <1>4, <1>12, <1>16 DEF Widened
  <2>3. ASSUME NEW y \in Keys \ Below(f, n) PROVE Below(g4, y) = Below(f, y) \ (Below(f, n) \ {n})
    <3>1. p \in Below(f, n) \ {n}
      BY <1>1, <1>4, <1>5
    <3> QED
      BY <1>12, <1>16, <3>1 DEF Widened
  <2> QED
    BY <2>1, <2>2, <2>3
(* What was on the right of n goes to the right of x.                      *)
<1>20. \A z \in Below(g4, b) : x < z
  <2> SUFFICES ASSUME NEW z \in Below(f, b) PROVE x < z
    BY <1>19
  <2>1. x < n /\ n < z
    BY <1>3 DEF Forest, InOrder, f
  <2>2. x \in Int /\ n \in Int /\ z \in Int
    BY <1>1, <1>4 DEF KeysOK
  <2> QED
    BY <2>1, <2>2
<1>21. Fits(k4, s3, x, b)
  BY <1>4, <1>16, <1>18, RootApart DEF Fits
<1>22. Forest(k4, s5, q5) /\ Widened(g5, g4, x, b)
  <2>1. \A z \in Below(Kids(k4, s3), b) : x < z
    BY <1>20 DEF g4
  <2>2. /\ Forest(k4, [s3 EXCEPT ![x] = b], [q4 EXCEPT ![b] = x])
        /\ Widened(Kids(k4, [s3 EXCEPT ![x] = b]), Kids(k4, s3), x, b)
    BY <1>1, <1>4, <1>11, <1>16, <1>18, <1>21, <2>1, PutRight
  <2> QED
    BY <2>2 DEF g4
<1>23. /\ s5[n] = None /\ q5[x] = None /\ q5[n] = par[n]
       /\ \A y \in Keys : y # x => s5[y] = s3[y]
  <2>1. Pointers(s3) /\ Pointers(q4)
    BY <1>16 DEF Forest
  <2> QED
    BY <1>5, <1>11, <1>17, <1>18, <2>1 DEF Pointers
<1> HIDE DEF s5, q5, g5
<1>24. /\ Below(g5, x) = Below(f, n) \ {n}
       /\ \A y \in Keys \ Below(f, n) : Below(g5, y) = Below(f, y) \ (Below(f, n) \ {n})
  <2>0. x \in Below(f, x)
    BY <1>2, <1>4, BelowIs
  <2>1. Below(g5, x) = Below(f, n) \ {n}
    BY <1>1, <1>3, <1>4, <1>19, <1>22 DEF Widened
  <2>2. ASSUME NEW y \in Keys \ Below(f, n) PROVE Below(g5, y) = Below(f, y) \ (Below(f, n) \ {n})
    <3>1. x \in Below(f, n) \ {n}
      BY <1>1, <1>3, <1>5
    <3> QED
      BY <1>19, <1>22, <3>1 DEF Widened
  <2> QED
    BY <2>1, <2>2
<1>25. ASSUME NEW y \in Keys \ Below(f, n) PROVE k4[y] = l[y] /\ s5[y] = r[y]
  <2>1. y # n /\ y # x /\ y # w /\ y # p
    BY <1>1, <1>3, <1>4, <1>5
  <2>2. k[y] = l[y] /\ s[y] = r[y]
    BY <2>1 DEF Split
  <2> QED
    BY <1>11, <1>18, <1>23, <2>1, <2>2
<1>26. Merged(l, r, par, n, k4, s5, q5, x)
  BY <1>4, <1>5, <1>18, <1>22, <1>23, <1>24, <1>25 DEF Merged, f, g5
<1> QED
  BY <1>26 DEF k4, s5, q5, q4, s3, q3
-----------------------------------------------------------------------------
(* The last node of a chain of left or of right links.                     *)
Chained(l) == [p \in Keys |-> At(l[p])]

LastOf(l, n) == CHOOSE m \in Reached(Chained(l), {n}) : l[m] = None

LEMMA LastExistsOn ==
  ASSUME KeysOK, NEW l, NEW r, NEW par, Forest(l, r, par), NEW e \in {l, r}, NEW n \in Keys
  PROVE  /\ Graph(Chained(e))
         /\ LastOf(e, n) \in Reached(Chained(e), {n}) /\ e[LastOf(e, n)] = None
         /\ Reached(Chained(e), {n}) \subseteq Below(Kids(l, r), n)
<1> DEFINE f == Kids(l, r)
           g == Chained(e)
           S == Reached(g, {n})
<1>1. /\ Graph(f) /\ \A m \in Keys : f[m] = {l[m], r[m]} \ {None}
      /\ \A m \in Keys : \A c \in f[m] : m \notin Below(f, c)
      /\ Pointers(e)
  BY ForestGraph DEF Forest
<1>2. Graph(g) /\ \A m \in Keys : g[m] = {e[m]} \ {None} /\ g[m] \subseteq f[m]
  BY <1>1 DEF Chained, At, Graph, Pointers
<1>3. /\ S \in SUBSET Keys /\ n \in S /\ ClosedUnder(g, S)
      /\ \A C \in SUBSET Keys : n \in C /\ ClosedUnder(g, C) => S \subseteq C
  BY <1>2, ReachedIs
<1>4. S \subseteq Below(f, n)
  <2>1. Below(f, n) \in SUBSET Keys /\ n \in Below(f, n) /\ ClosedUnder(f, Below(f, n))
    BY <1>1, BelowIs
  <2>2. ClosedUnder(g, Below(f, n))
    BY <1>2, <2>1 DEF ClosedUnder
  <2> QED
    BY <1>3, <2>1, <2>2
<1> HIDE DEF f, g, S
<1>5. PICK y \in S : f[y] \cap S = {}
  BY <1>1, <1>3, Lowest
<1>6. e[y] = None
  BY <1>2, <1>3, <1>5 DEF ClosedUnder
<1>7. LastOf(e, n) \in S /\ e[LastOf(e, n)] = None
  BY <1>6 DEF LastOf, S, g
<1> QED
  BY <1>2, <1>4, <1>7 DEF f, g, S

(* The most right node below n has all the others on its left.             *)
LEMMA LastRight ==
  ASSUME KeysOK, NEW l, NEW r, NEW par, Forest(l, r, par), NEW n \in Keys, NEW x, x = LastOf(r, n)
  PROVE  /\ x \in Below(Kids(l, r), n) /\ r[x] = None
         /\ x # n => par[x] \in Keys /\ r[par[x]] = x
         /\ \A z \in Below(Kids(l, r), n) \ Below(Kids(l, r), x) : \A u \in Below(Kids(l, r), x) : z < u
<1> DEFINE f == Kids(l, r)
           g == Chained(r)
           S == Reached(g, {n})
           Good(v) == /\ v # n => par[v] \in Keys /\ r[par[v]] = v
                      /\ \A z \in Below(f, n) \ Below(f, v) : \A u \in Below(f, v) : z < u
           C == {v \in Below(f, n) : Good(v)}
<1>1. Graph(g) /\ x \in S /\ r[x] = None /\ S \subseteq Below(f, n)
  BY LastExistsOn
<1>2. /\ Graph(f) /\ Pointers(r) /\ InOrder(l, r) /\ Linked(l, r, par)
      /\ Below(f, n) \in SUBSET Keys /\ n \in Below(f, n)
      /\ \A m \in Keys : f[m] = {l[m], r[m]} \ {None}
  BY ForestGraph, BelowIs DEF Forest
<1>3. C \in SUBSET Keys /\ n \in C
  BY <1>2
<1>4. ASSUME NEW v \in C, NEW c \in g[v] PROVE c \in C
  <2>1. v \in Keys /\ v \in Below(f, n) /\ Good(v)
    BY <1>2
  <2>2. c = r[v] /\ c \in Keys /\ c \in f[v]
    BY <1>2, <1>4, <2>1 DEF Chained, At, Pointers
  <2>3. c \in Below(f, n) /\ par[c] = v
    BY <1>2, <2>1, <2>2, BelowBelow DEF Linked
  <2>4. /\ Below(f, v) = {v} \cup Below(f, l[v]) \cup Below(f, r[v])
        /\ Below(f, v) \in SUBSET Keys
    BY <2>1, Subtrees
  <2>5. ASSUME NEW z \in Below(f, n) \ Below(f, c), NEW u \in Below(f, c) PROVE z < u
    <3>1. v < u /\ u \in Below(f, v)
      BY <1>2, <2>1, <2>2, <2>4 DEF InOrder
    <3>2. z \in Int /\ u \in Int /\ v \in Int
      BY <1>2, <2>1, <2>4, <3>1 DEF KeysOK
    <3>3. CASE z \notin Below(f, v)
      BY <2>1, <3>1, <3>3
    <3>4. CASE z \in Below(f, v)
      <4>1. z = v \/ z < v
        BY <1>2, <2>1, <2>2, <2>4, <3>4 DEF InOrder
      <4> QED
        BY <3>1, <3>2, <4>1
    <3> QED
      BY <3>3, <3>4
  <2> HIDE DEF f
  <2> QED
    BY <2>1, <2>2, <2>3, <2>5
<1> HIDE DEF C
<1>5. S \subseteq C
  <2>1. ClosedUnder(g, C)
    BY <1>4 DEF ClosedUnder
  <2> QED
    BY <1>1, <1>3, <2>1, ReachedIs
<1>6. x \in C
  BY <1>1, <1>5
<1> QED
  BY <1>1, <1>6 DEF C

(* The most left node below n is the first of them.                        *)
LEMMA LastLeft ==
  ASSUME KeysOK, NEW l, NEW r, NEW par, Forest(l, r, par), NEW n \in Keys, NEW p, p = LastOf(l, n)
  PROVE  /\ p \in Below(Kids(l, r), n) /\ l[p] = None
         /\ \A z \in Below(Kids(l, r), n) : p <= z
<1> DEFINE f == Kids(l, r)
           g == Chained(l)
           S == Reached(g, {n})
           Good(v) == \A z \in Below(f, n) : z \in Below(f, v) \/ v < z
           C == {v \in Below(f, n) : Good(v)}
<1>1. Graph(g) /\ p \in S /\ l[p] = None /\ S \subseteq Below(f, n)
  BY LastExistsOn
<1>2. /\ Graph(f) /\ Pointers(l) /\ InOrder(l, r)
      /\ Below(f, n) \in SUBSET Keys /\ n \in Below(f, n)
      /\ \A m \in Keys : f[m] = {l[m], r[m]} \ {None}
  BY ForestGraph, BelowIs DEF Forest
<1>3. C \in SUBSET Keys /\ n \in C
  BY <1>2
<1>4. ASSUME NEW v \in C, NEW c \in g[v] PROVE c \in C
  <2>1. v \in Keys /\ v \in Below(f, n) /\ Good(v)
    BY <1>2
  <2>2. c = l[v] /\ c \in Keys /\ c \in f[v]
    BY <1>2, <1>4, <2>1 DEF Chained, At, Pointers
  <2>3. c \in Below(f, n) /\ c \in Below(f, c)
    BY <1>2, <2>1, <2>2, BelowBelow, BelowIs
  <2>4. /\ Below(f, v) = {v} \cup Below(f, l[v]) \cup Below(f, r[v])
        /\ Below(f, v) \in SUBSET Keys
    BY <2>1, Subtrees
  <2>5. ASSUME NEW z \in Below(f, n), z \notin Below(f, c) PROVE c < z
    <3>1. c < v
      BY <1>2, <2>1, <2>2, <2>3 DEF InOrder
    <3>2. z \in Int /\ c \in Int /\ v \in Int
      BY <1>2, <2>1, <2>2 DEF KeysOK
    <3>3. z = v \/ v < z
      BY <1>2, <2>1, <2>2, <2>4, <2>5 DEF InOrder
    <3> QED
      BY <3>1, <3>2, <3>3
  <2> HIDE DEF f
  <2> QED
    BY <2>3, <2>5
<1> HIDE DEF C
<1>5. S \subseteq C
  <2>1. ClosedUnder(g, C)
    BY <1>4 DEF ClosedUnder
  <2> QED
    BY <1>1, <1>3, <2>1, ReachedIs
<1>6. p \in C
  BY <1>1, <1>5
<1>7. p \in Keys /\ p \in Below(f, n) /\ Good(p)
  BY <1>2, <1>6 DEF C
<1>8. Below(f, p) = {p} \cup Below(f, r[p])
  <2>1. Below(f, p) = {p} \cup Below(f, l[p]) \cup Below(f, r[p])
    BY <1>7, Subtrees
  <2>2. Below(f, l[p]) = {}
    BY <1>1, <1>2, BelowNone
  <2> QED
    BY <2>1, <2>2
<1>9. ASSUME NEW z \in Below(f, n) PROVE p <= z
  <2>1. z = p \/ p < z
    BY <1>2, <1>7, <1>8 DEF InOrder
  <2>2. z \in Int /\ p \in Int
    BY <1>2, <1>7 DEF KeysOK
  <2> QED
    BY <2>1, <2>2
<1> QED
  BY <1>1, <1>7, <1>9
-----------------------------------------------------------------------------
(* x has taken the place of n.                                             *)
Replaced(l, r, par, n, k, s, q, x) ==
  /\ Forest(k, s, q)
  /\ x \in Keys \cup {None} /\ (x # None => q[x] = par[n])
  /\ k[n] = None /\ s[n] = None
  /\ Below(Kids(k, s), x) = Below(Kids(l, r), n) \ {n}
  /\ \A y \in Keys \ Below(Kids(l, r), n) :
       /\ y # par[n] => k[y] = l[y] /\ s[y] = r[y]
       /\ Below(Kids(k, s), y) = Below(Kids(l, r), y) \ {n}

(* What is above n.                                                        *)
LEMMA AboveNode ==
  ASSUME KeysOK, NEW l, NEW r, NEW par, Forest(l, r, par), NEW n \in Keys, par[n] \in Keys
  PROVE  /\ par[n] \notin Below(Kids(l, r), n) /\ n \in Kids(l, r)[par[n]]
         /\ \A y \in Keys \ Below(Kids(l, r), n) :
              /\ par[n] \in Below(Kids(l, r), y) => Below(Kids(l, r), n) \subseteq Below(Kids(l, r), y)
              /\ par[n] \notin Below(Kids(l, r), y) => Below(Kids(l, r), y) \cap Below(Kids(l, r), n) = {}
<1> DEFINE f == Kids(l, r)
           up == par[n]
<1>1. /\ Graph(f) /\ OneParent(f) /\ Linked(l, r, par)
      /\ \A m \in Keys : \A c \in f[m] : m \notin Below(f, c)
  BY ForestGraph DEF Forest
<1>2. n \in f[up] /\ up \notin Below(f, n) /\ n \in Below(f, n)
  BY <1>1, BelowIs DEF Linked
<1> HIDE DEF f
<1>3. ASSUME NEW y \in Keys, y \notin Below(f, n), up \in Below(f, y)
      PROVE  Below(f, n) \subseteq Below(f, y)
  BY <1>1, <1>2, <1>3, BelowBelow
<1>4. ASSUME NEW y \in Keys, y \notin Below(f, n), up \notin Below(f, y),
             NEW z \in Below(f, y), z \in Below(f, n)
      PROVE  FALSE
  <2>1. n \in Below(f, y)
    BY <1>1, <1>4, MeetAbove
  <2>2. y # n
    BY <1>2, <1>4
  <2>3. PICK m \in Below(f, y) : n \in f[m]
    BY <1>1, <2>1, <2>2, LastLink
  <2>4. m \in Keys
    BY <1>1, BelowIs
  <2> QED
    BY <1>1, <1>2, <1>4, <2>3, <2>4 DEF OneParent
<1>5. \A y \in Keys \ Below(f, n) :
        /\ up \in Below(f, y) => Below(f, n) \subseteq Below(f, y)
        /\ up \notin Below(f, y) => Below(f, y) \cap Below(f, n) = {}
  BY <1>3, <1>4
<1> QED
  BY <1>2, <1>5 DEF f

(* The graph g of the children after n left the place below m, where the   *)
(* subtree of x fits.                                                      *)
Cleared(l, r, n, m, k, s, x) ==
  /\ Below(Kids(k, s), x) = Below(Kids(l, r), n) \ {n}
  /\ m \notin Below(Kids(k, s), x)
  /\ \A y \in Keys \ Below(Kids(l, r), n) :
       Below(Kids(k, s), y) = Below(Kids(l, r), y) \ Below(Kids(l, r), n)
  /\ Fits(k, s, m, x)

LEMMA ClearedIs ==
  ASSUME KeysOK, NEW l, NEW r, NEW par, Forest(l, r, par), NEW n \in Keys, par[n] \in Keys,
         NEW k, NEW s, NEW q, NEW x, Merged(l, r, par, n, k, s, q, x),
         NEW a, NEW b, NEW p, Forest(a, b, p),
         \A y \in Keys : a[y] \in {k[y], None} /\ b[y] \in {s[y], None},
         a[par[n]] # n, b[par[n]] # n,
         \A y \in Keys \cup {None} : Narrower(Kids(a, b), Kids(k, s), par[n], n, y)
  PROVE  Cleared(l, r, n, par[n], a, b, x)
<1> DEFINE f == Kids(l, r)
           h == Kids(k, s)
           g == Kids(a, b)
           m == par[n]
<1>1. /\ Graph(f) /\ OneParent(f) /\ InOrder(l, r) /\ Graph(h) /\ Graph(g)
      /\ Forest(k, s, q)
      /\ \A y \in Keys : f[y] = {l[y], r[y]} \ {None} /\ h[y] = {k[y], s[y]} \ {None}
      /\ \A y \in Keys : a[y] \in Keys \cup {None} /\ b[y] \in Keys \cup {None}
      /\ None \notin Keys
  <2>1. Forest(k, s, q)
    BY DEF Merged
  <2> QED
    BY <2>1, ForestGraph DEF Forest, Pointers, KeysOK
<1>2. /\ m \notin Below(f, n) /\ n \in f[m] /\ Below(f, n) \in SUBSET Keys /\ n \in Below(f, n)
      /\ \A y \in Keys \ Below(f, n) :
           /\ m \in Below(f, y) => Below(f, n) \subseteq Below(f, y)
           /\ m \notin Below(f, y) => Below(f, y) \cap Below(f, n) = {}
  BY <1>1, AboveNode, BelowIs
<1>3. /\ x \in Keys \cup {None} /\ k[n] = None /\ s[n] = None
      /\ Below(h, x) = Below(f, n) \ {n}
      /\ \A y \in Keys \ Below(f, n) :
           /\ k[y] = l[y] /\ s[y] = r[y]
           /\ Below(h, y) = Below(f, y) \ (Below(f, n) \ {n})
  BY DEF Merged
<1>4. \A y \in Keys \cup {None} : Narrower(g, h, m, n, y)
  OBVIOUS
<1> HIDE DEF f, h, g
<1>5. Below(h, n) = {n} /\ Below(g, None) = {}
  <2>1. h[n] = {}
    BY <1>1, <1>3
  <2>2. Below(h, n) = {n} \cup UNION {Below(h, c) : c \in h[n]}
    BY <1>1, FirstLink
  <2> QED
    BY <1>1, <2>1, <2>2, BelowNone
<1>6. Below(g, x) = Below(f, n) \ {n} /\ m \notin Below(g, x)
  BY <1>2, <1>3, <1>4 DEF Narrower
<1>7. ASSUME NEW y \in Keys \ Below(f, n) PROVE Below(g, y) = Below(f, y) \ Below(f, n)
  <2>1. y \notin Below(h, n)
    BY <1>2, <1>5
  <2>2. Below(g, y) = Below(h, y) \ {n}
    BY <1>4, <1>5, <2>1 DEF Narrower
  <2> QED
    BY <1>2, <1>3, <2>2
<1>8. ASSUME NEW y \in Keys, NEW z \in Below(g, x), NEW c \in {a[y], b[y]}, m \in Below(g, c)
      PROVE  /\ z \in Below(f, c)
             /\ a[y] = c => l[y] = c
             /\ b[y] = c => r[y] = c
  <2>1. c # None /\ c \in Keys
    BY <1>1, <1>5, <1>8
  <2>2. /\ a[y] = c => k[y] = c
        /\ b[y] = c => s[y] = c
        /\ c \in h[y]
    BY <1>1, <2>1
  <2>3. m \in Below(h, c)
    BY <1>4, <1>8, <2>1 DEF Narrower
  <2>4. y \notin Below(f, n)
    <3>1. y # n
      BY <1>1, <1>3, <2>2
    <3>2. ASSUME y \in Below(h, x) PROVE FALSE
      <4>1. Below(h, c) \subseteq Below(h, x)
        BY <1>1, <1>3, <2>2, <3>2, BelowBelow
      <4> QED
        BY <1>2, <1>3, <2>3, <4>1
    <3> QED
      BY <1>3, <3>1, <3>2
  <2>5. k[y] = l[y] /\ s[y] = r[y]
    BY <1>3, <2>4
  <2>6. c \in f[y]
    BY <1>1, <2>2, <2>5
  <2>7. c \notin Below(f, n)
    <3>1. SUFFICES ASSUME c \in Below(f, n) PROVE FALSE
      OBVIOUS
    <3>2. CASE c = n
      <4>1. y = m
        BY <1>1, <1>2, <2>6, <3>2 DEF OneParent
      <4> QED
        BY <1>8, <3>2, <4>1
    <3>3. CASE c # n
      <4>1. PICK v \in Below(f, n) : c \in f[v]
        BY <1>1, <3>1, <3>3, LastLink
      <4>2. v = y
        BY <1>1, <1>2, <2>1, <2>6, <4>1 DEF OneParent
      <4> QED
        BY <2>4, <4>1, <4>2
    <3> QED
      BY <3>2, <3>3
  <2>8. m \in Below(f, c)
    BY <1>3, <2>1, <2>3, <2>7
  <2>9. z \in Below(f, c)
    BY <1>2, <1>6, <2>1, <2>7, <2>8
  <2> QED
    BY <2>2, <2>5, <2>9
<1>9. Fits(a, b, m, x)
  <2> SUFFICES ASSUME NEW y \in Keys, NEW z \in Below(g, x)
               PROVE  /\ m \in Below(g, a[y]) => z < y
                      /\ m \in Below(g, b[y]) => y < z
    BY DEF Fits, g
  <2>1. ASSUME m \in Below(g, a[y]) PROVE z < y
    <3>1. z \in Below(f, l[y])
      BY <1>8, <2>1
    <3> QED
      BY <1>1, <3>1 DEF InOrder, f
  <2>2. ASSUME m \in Below(g, b[y]) PROVE y < z
    <3>1. z \in Below(f, r[y])
      BY <1>8, <2>2
    <3> QED
      BY <1>1, <3>1 DEF InOrder, f
  <2> QED
    BY <2>1, <2>2
<1> QED
  BY <1>6, <1>7, <1>9 DEF Cleared, f, g

(* n had no parent.                                                        *)
LEMMA ReplaceRoot ==
  ASSUME KeysOK, NEW l, NEW r, NEW par, Forest(l, r, par), NEW n \in Keys, par[n] = None,
         NEW k, NEW s, NEW q, NEW x, Merged(l, r, par, n, k, s, q, x)
  PROVE  Replaced(l, r, par, n, k, s, q, x)
<1> DEFINE f == Kids(l, r)
           h == Kids(k, s)
<1>1. \A y \in Keys \ Below(f, n) : Below(h, y) = Below(f, y) \ {n}
  <2> SUFFICES ASSUME NEW y \in Keys \ Below(f, n) PROVE Below(h, y) = Below(f, y) \ {n}
    OBVIOUS
  <2>1. Graph(f) /\ OneParent(f) /\ n \in Below(f, n)
    BY ForestGraph, BelowIs
  <2>2. n \notin Below(f, y)
    BY <2>1, RootApart
  <2>3. Below(f, y) \cap Below(f, n) = {}
    BY <2>1, <2>2, MeetAbove
  <2>4. Below(h, y) = Below(f, y) \ (Below(f, n) \ {n})
    BY DEF Merged
  <2> QED
    BY <2>2, <2>3, <2>4
<1> QED
  BY <1>1 DEF Replaced, Merged

(* n was on the left of its parent.                                        *)
LEMMA ReplaceLeft ==
  ASSUME KeysOK, NEW l, NEW r, NEW par, Forest(l, r, par), NEW n \in Keys, par[n] \in Keys, l[par[n]] = n,
         NEW k, NEW s, NEW q, NEW x, Merged(l, r, par, n, k, s, q, x)
  PROVE  Replaced(l, r, par, n, [k EXCEPT ![par[n]] = x], s,
                  [[q EXCEPT ![n] = None] EXCEPT ![x] = par[n]], x)
<1> DEFINE f == Kids(l, r)
           h == Kids(k, s)
           m == par[n]
           a == [k EXCEPT ![m] = None]
           p == [q EXCEPT ![n] = None]
           g == Kids(a, s)
           b == [k EXCEPT ![m] = x]
           o == [p EXCEPT ![x] = m]
           e == Kids(b, s)
<1>1. /\ Forest(k, s, q) /\ x \in Keys \cup {None} /\ x # n /\ (x # None => q[x] = None)
      /\ k[n] = None /\ s[n] = None
      /\ \A y \in Keys \ Below(f, n) : k[y] = l[y] /\ s[y] = r[y]
  BY DEF Merged
<1>2. /\ Graph(f) /\ OneParent(f) /\ InOrder(l, r) /\ None \notin Keys /\ Graph(h)
      /\ Pointers(k) /\ Pointers(s) /\ Pointers(q)
      /\ \A y \in Keys : f[y] = {l[y], r[y]} \ {None}
      /\ \A y \in Keys : k[y] # None => k[y] # s[y]
      /\ n \in Below(f, n)
  BY <1>1, ForestGraph, BelowIs DEF KeysOK, Forest
<1>3. /\ m \notin Below(f, n)
      /\ \A y \in Keys \ Below(f, n) :
           /\ m \in Below(f, y) => Below(f, n) \subseteq Below(f, y)
           /\ m \notin Below(f, y) => Below(f, y) \cap Below(f, n) = {}
  BY AboveNode
<1>4. k[m] = n /\ s[m] # n
  BY <1>1, <1>2, <1>3
(* Out with n.                                                             *)
<1>5. /\ Forest(a, s, p)
      /\ \A y \in Keys \cup {None} : Narrower(g, h, m, n, y)
  <2>1. /\ Forest([k EXCEPT ![m] = None], s, [q EXCEPT ![k[m]] = None])
        /\ \A y \in Keys \cup {None} : Narrower(Kids([k EXCEPT ![m] = None], s), Kids(k, s), m, k[m], y)
    BY <1>1, CutLeft
  <2> QED
    BY <1>4, <2>1
<1>6. /\ \A y \in Keys : a[y] \in {k[y], None}
      /\ a[m] = None /\ (x # None => p[x] = None)
      /\ \A y \in Keys : y # m => b[y] = k[y]
      /\ (x # None => o[x] = m)
  BY <1>1, <1>2 DEF Pointers
<1> HIDE DEF p
<1>7. Cleared(l, r, n, m, a, s, x)
  <2> HIDE DEF a
  <2> QED
    BY <1>1, <1>2, <1>4, <1>5, <1>6, ClearedIs
<1>8. \A z \in Below(g, x) : z < m
  <2>1. Below(g, x) \subseteq Below(f, l[m])
    BY <1>7 DEF Cleared
  <2> QED
    BY <1>2, <2>1 DEF InOrder
(* In with x.                                                              *)
<1>9. /\ Forest(b, s, o)
      /\ Widened(e, g, m, x)
  <2>1. /\ Forest([a EXCEPT ![m] = x], s, [p EXCEPT ![x] = m])
        /\ Widened(Kids([a EXCEPT ![m] = x], s), Kids(a, s), m, x)
    <3> HIDE DEF a
    <3>1. Fits(a, s, m, x)
      BY <1>7 DEF Cleared
    <3> QED
      BY <1>1, <1>5, <1>6, <1>8, <3>1, PutLeft
  <2>2. [a EXCEPT ![m] = x] = b
    BY <1>2 DEF Pointers
  <2> HIDE DEF a, b
  <2> QED
    BY <2>1, <2>2
<1>10. b[n] = None
  BY <1>1, <1>2, <1>3, <1>6
<1> HIDE DEF f, g, e
<1>11. Below(e, x) = Below(f, n) \ {n}
  BY <1>1, <1>7, <1>9 DEF Cleared, Widened, f, g
<1>12. ASSUME NEW y \in Keys \ Below(f, n) PROVE Below(e, y) = Below(f, y) \ {n}
  <2>1. Below(g, y) = Below(f, y) \ Below(f, n) /\ Below(g, x) = Below(f, n) \ {n}
    BY <1>7 DEF Cleared, f, g
  <2>2. Below(e, y) = Below(g, y) \cup (IF m \in Below(g, y) THEN Below(g, x) ELSE {})
    BY <1>9 DEF Widened
  <2> QED
    BY <1>2, <1>3, <2>1, <2>2
<1>13. \A y \in Keys \ Below(f, n) : y # m => b[y] = l[y] /\ s[y] = r[y]
  BY <1>1, <1>6 DEF f
<1> HIDE DEF b, o
<1>14. Replaced(l, r, par, n, b, s, o, x)
  BY <1>1, <1>6, <1>9, <1>10, <1>11, <1>12, <1>13 DEF Replaced, f, e
<1> QED
  BY <1>14 DEF b, o, p
(* n was on the right of its parent.                                       *)
LEMMA ReplaceRight ==
  ASSUME KeysOK, NEW l, NEW r, NEW par, Forest(l, r, par), NEW n \in Keys, par[n] \in Keys, r[par[n]] = n,
         NEW k, NEW s, NEW q, NEW x, Merged(l, r, par, n, k, s, q, x)
  PROVE  Replaced(l, r, par, n, k, [s EXCEPT ![par[n]] = x],
                  [[q EXCEPT ![n] = None] EXCEPT ![x] = par[n]], x)
<1> DEFINE f == Kids(l, r)
           h == Kids(k, s)
           m == par[n]
           a == [s EXCEPT ![m] = None]
           p == [q EXCEPT ![n] = None]
           g == Kids(k, a)
           b == [s EXCEPT ![m] = x]
           o == [p EXCEPT ![x] = m]
           e == Kids(k, b)
<1>1. /\ Forest(k, s, q) /\ x \in Keys \cup {None} /\ x # n /\ (x # None => q[x] = None)
      /\ k[n] = None /\ s[n] = None
      /\ \A y \in Keys \ Below(f, n) : k[y] = l[y] /\ s[y] = r[y]
  BY DEF Merged
<1>2. /\ Graph(f) /\ OneParent(f) /\ InOrder(l, r) /\ None \notin Keys /\ Graph(h)
      /\ Pointers(k) /\ Pointers(s) /\ Pointers(q)
      /\ \A y \in Keys : f[y] = {l[y], r[y]} \ {None}
      /\ \A y \in Keys : k[y] # None => k[y] # s[y]
      /\ n \in Below(f, n)
  BY <1>1, ForestGraph, BelowIs DEF KeysOK, Forest
<1>3. /\ m \notin Below(f, n)
      /\ \A y \in Keys \ Below(f, n) :
           /\ m \in Below(f, y) => Below(f, n) \subseteq Below(f, y)
           /\ m \notin Below(f, y) => Below(f, y) \cap Below(f, n) = {}
  BY AboveNode
<1>4. s[m] = n /\ k[m] # n
  BY <1>1, <1>2, <1>3
(* Out with n.                                                             *)
<1>5. /\ Forest(k, a, p)
      /\ \A y \in Keys \cup {None} : Narrower(g, h, m, n, y)
  <2>1. /\ Forest(k, [s EXCEPT ![m] = None], [q EXCEPT ![s[m]] = None])
        /\ \A y \in Keys \cup {None} : Narrower(Kids(k, [s EXCEPT ![m] = None]), Kids(k, s), m, s[m], y)
    BY <1>1, CutRight
  <2> QED
    BY <1>4, <2>1
<1>6. /\ \A y \in Keys : a[y] \in {s[y], None}
      /\ a[m] = None /\ (x # None => p[x] = None)
      /\ \A y \in Keys : y # m => b[y] = s[y]
      /\ (x # None => o[x] = m)
  BY <1>1, <1>2 DEF Pointers
<1> HIDE DEF p
<1>7. Cleared(l, r, n, m, k, a, x)
  <2> HIDE DEF a
  <2> QED
    BY <1>1, <1>2, <1>4, <1>5, <1>6, ClearedIs
<1>8. \A z \in Below(g, x) : m < z
  <2>1. Below(g, x) \subseteq Below(f, r[m])
    BY <1>7 DEF Cleared
  <2> QED
    BY <1>2, <2>1 DEF InOrder
(* In with x.                                                              *)
<1>9. /\ Forest(k, b, o)
      /\ Widened(e, g, m, x)
  <2>1. /\ Forest(k, [a EXCEPT ![m] = x], [p EXCEPT ![x] = m])
        /\ Widened(Kids(k, [a EXCEPT ![m] = x]), Kids(k, a), m, x)
    <3> HIDE DEF a
    <3>1. Fits(k, a, m, x)
      BY <1>7 DEF Cleared
    <3> QED
      BY <1>1, <1>5, <1>6, <1>8, <3>1, PutRight
  <2>2. [a EXCEPT ![m] = x] = b
    BY <1>2 DEF Pointers
  <2> HIDE DEF a, b
  <2> QED
    BY <2>1, <2>2
<1>10. b[n] = None
  BY <1>1, <1>2, <1>3, <1>6
<1> HIDE DEF f, g, e
<1>11. Below(e, x) = Below(f, n) \ {n}
  BY <1>1, <1>7, <1>9 DEF Cleared, Widened, f, g
<1>12. ASSUME NEW y \in Keys \ Below(f, n) PROVE Below(e, y) = Below(f, y) \ {n}
  <2>1. Below(g, y) = Below(f, y) \ Below(f, n) /\ Below(g, x) = Below(f, n) \ {n}
    BY <1>7 DEF Cleared, f, g
  <2>2. Below(e, y) = Below(g, y) \cup (IF m \in Below(g, y) THEN Below(g, x) ELSE {})
    BY <1>9 DEF Widened
  <2> QED
    BY <1>2, <1>3, <2>1, <2>2
<1>13. \A y \in Keys \ Below(f, n) : y # m => k[y] = l[y] /\ b[y] = r[y]
  BY <1>1, <1>6 DEF f
<1> HIDE DEF b, o
<1>14. Replaced(l, r, par, n, k, b, o, x)
  BY <1>1, <1>6, <1>9, <1>10, <1>11, <1>12, <1>13 DEF Replaced, f, e
<1> QED
  BY <1>14 DEF b, o, p
-----------------------------------------------------------------------------
(* The record of the nodes.                                                *)
TreeType(t) ==
  t \in [root : Keys \cup {None},
         left : [Keys -> Keys \cup {None}], right : [Keys -> Keys \cup {None}],
         parent : [Keys -> Keys \cup {None}],
         red : [Keys -> BOOLEAN], freq : [Keys -> Nat],
         lHeight : [Keys -> Nat], rHeight : [Keys -> Nat]]

Shape(t) == Forest(t.left, t.right, t.parent)

(* a is the tree t when n is ready to leave it to x.                       *)
Ready(t, n, a, x) ==
  /\ TreeType(a) /\ a.root = t.root /\ a.freq = t.freq
  /\ Merged(t.left, t.right, t.parent, n, [a.left EXCEPT ![n] = None], [a.right EXCEPT ![n] = None],
            [a.parent EXCEPT ![x] = None], x)

LEMMA ReadyRight ==
  ASSUME KeysOK, NEW t, TreeType(t), Shape(t), NEW n \in Keys, t.left[n] = None
  PROVE  Ready(t, n, t, t.right[n])
<1> DEFINE l == t.left
           r == t.right
           par == t.parent
<1>1. /\ Forest(l, r, par) /\ Pointers(l) /\ Pointers(r) /\ Pointers(par) /\ None \notin Keys
  BY DEF Shape, Forest, KeysOK
<1> HIDE DEF l, r, par
<1>2. Split(l, r, par, n, [l EXCEPT ![n] = None], [r EXCEPT ![n] = None],
            [[par EXCEPT ![l[n]] = None] EXCEPT ![r[n]] = None])
  BY <1>1, SplitNode
<1>3. l[n] = None
  BY DEF l
<1>4. [par EXCEPT ![l[n]] = None] = par
  BY <1>1, <1>3 DEF Pointers
<1>5. Merged(l, r, par, n, [l EXCEPT ![n] = None], [r EXCEPT ![n] = None],
             [par EXCEPT ![r[n]] = None], r[n])
  BY <1>1, <1>2, <1>3, <1>4, MergeRight
<1> QED
  BY <1>5 DEF Ready, l, r, par

(* What Replacement does to the links.                                     *)
LEMMA RelinkedIs ==
  ASSUME KeysOK, NEW t, TreeType(t), NEW n \in Keys, NEW m \in Keys, MostLeft(t, m) \in Keys, t.left[n] \in Keys
  PROVE  LET a == Relinked(t, n, m)
             p == MostLeft(t, m)
         IN  /\ TreeType(a) /\ a.root = t.root /\ a.freq = t.freq
             /\ a.left = [t.left EXCEPT ![p] = t.left[n]]
             /\ a.right = [t.right EXCEPT ![m] = t.right[n]]
             /\ a.parent = [[t.parent EXCEPT ![t.left[n]] = p] EXCEPT ![t.right[n]] = m]
<1> DEFINE a == Relinked(t, n, m)
           p == MostLeft(t, m)
           u == [t EXCEPT !.left[p] = t.left[n], !.parent[t.left[n]] = p]
<1>1. p \in Keys
  OBVIOUS
<1>2. a = [u EXCEPT !.right[m] = t.right[n],
                    !.parent = IF t.right[n] = None THEN @ ELSE [@ EXCEPT ![t.right[n]] = m]]
  BY DEF Relinked
<1> HIDE DEF a, p
<1>3. /\ TreeType(u) /\ u.root = t.root /\ u.freq = t.freq
      /\ u.left = [t.left EXCEPT ![p] = t.left[n]] /\ u.right = t.right
      /\ u.parent = [t.parent EXCEPT ![t.left[n]] = p]
  BY <1>1 DEF TreeType
<1> HIDE DEF u
<1>4. /\ TreeType(a) /\ a.root = t.root /\ a.freq = t.freq
      /\ a.left = u.left /\ a.right = [t.right EXCEPT ![m] = t.right[n]]
      /\ a.parent = [u.parent EXCEPT ![t.right[n]] = m]
  <2>1. t.right[n] \in Keys \cup {None}
    BY DEF TreeType
  <2>2. t.right[n] = None => [u.parent EXCEPT ![t.right[n]] = m] = u.parent
    BY <1>3 DEF TreeType, KeysOK
  <2>3. t.right[n] # None => t.right[n] \in Keys
    BY <2>1
  <2> QED
    BY <1>1, <1>2, <1>3, <2>2, <2>3 DEF TreeType
<1> QED
  BY <1>3, <1>4 DEF a, p

LEMMA FreedIs ==
  ASSUME KeysOK, NEW t, TreeType(t), NEW m \in Keys
  PROVE  LET a == Freed(t, m)
             q == t.parent[m]
         IN  /\ TreeType(a) /\ a.root = t.root /\ a.freq = t.freq /\ a.parent = t.parent
             /\ t.right[q] = m => a.left = t.left /\ a.right = [t.right EXCEPT ![q] = None]
             /\ t.right[q] # m => a.left = [t.left EXCEPT ![q] = None] /\ a.right = t.right
<1> DEFINE a == Freed(t, m)
           q == t.parent[m]
<1>1. a = IF t.right[q] = m THEN [t EXCEPT !.right[q] = None] ELSE [t EXCEPT !.left[q] = None]
  BY DEF Freed
<1>2. q \in Keys \cup {None}
  BY DEF TreeType
<1> HIDE DEF a, q
<1>3. [t.right EXCEPT ![q] = None] \in [Keys -> Keys \cup {None}]
  BY DEF TreeType
<1>4. [t.left EXCEPT ![q] = None] \in [Keys -> Keys \cup {None}]
  BY DEF TreeType
<1>5. CASE t.right[q] = m
  <2>1. a = [t EXCEPT !.right[q] = None]
    BY <1>1, <1>5
  <2> QED
    BY <1>3, <1>5, <2>1 DEF TreeType, a, q
<1>6. CASE t.right[q] # m
  <2>1. a = [t EXCEPT !.left[q] = None]
    BY <1>1, <1>6
  <2> QED
    BY <1>4, <1>6, <2>1 DEF TreeType, a, q
<1> QED
  BY <1>5, <1>6
-----------------------------------------------------------------------------
LEMMA ReadyLeft ==
  ASSUME KeysOK, NEW t, TreeType(t), Shape(t), NEW n \in Keys, t.left[n] # None
  PROVE  Ready(t, n, Replacement(t, n), MostRight(t, t.left[n]))
<1> DEFINE l == t.left
           r == t.right
           par == t.parent
           f == Kids(l, r)
           L == l[n]
           R == r[n]
           x == MostRight(t, L)
           p == MostLeft(t, x)
           b == Relinked(t, n, x)
           a == Replacement(t, n)
<1>1. /\ Forest(l, r, par) /\ Pointers(l) /\ Pointers(r) /\ Pointers(par) /\ None \notin Keys
  BY DEF Shape, Forest, KeysOK
<1>2. /\ L \in Keys /\ R \in Keys \cup {None} /\ L # R /\ R # n /\ L # n
      /\ Graph(f) /\ OneParent(f) /\ Linked(l, r, par)
      /\ \A m \in Keys : f[m] = {l[m], r[m]} \ {None} /\ \A c \in f[m] : m \notin Below(f, c)
  <2>1. L \in Keys /\ R \in Keys \cup {None} /\ L # None
    BY <1>1 DEF Pointers
  <2>2. /\ Graph(f) /\ OneParent(f) /\ Linked(l, r, par) /\ L # R
        /\ \A m \in Keys : f[m] = {l[m], r[m]} \ {None} /\ \A c \in f[m] : m \notin Below(f, c)
    BY <1>1, <2>1, ForestGraph DEF Forest
  <2>3. n \in Below(f, n)
    BY <2>2, BelowIs
  <2> HIDE DEF l, r, f
  <2> QED
    BY <1>1, <2>1, <2>2, <2>3
<1>3. x = LastOf(r, L) /\ p = LastOf(l, x)
  BY DEF MostRight, MostLeft, LastOf, Chained
<1>a. a = Freed(b, x)
  BY DEF Replacement
<1> HIDE DEF l, r, par, f, x, p, b, a
<1>4. /\ x \in Below(f, L) /\ r[x] = None
      /\ x # L => par[x] \in Keys /\ r[par[x]] = x
      /\ \A z \in Below(f, L) \ Below(f, x) : \A u \in Below(f, x) : z < u
  BY <1>1, <1>2, <1>3, LastRight DEF f
<1>5. x \in Keys /\ Below(f, L) \in SUBSET Keys
  BY <1>2, <1>4, BelowIs
<1>6. /\ p \in Below(f, x) /\ l[p] = None
      /\ \A z \in Below(f, x) : p <= z
  BY <1>1, <1>3, <1>5, LastLeft DEF f
<1>7. p \in Keys
  BY <1>2, <1>5, <1>6, BelowIs
<1>8. R # x /\ R # L /\ x # n /\ p # n
  <2>1. /\ n \notin Below(f, L) /\ n \notin Below(f, R) /\ Below(f, L) \cap Below(f, R) = {}
    BY <1>1, Subtrees DEF f
  <2>2. R \in Keys => R \in Below(f, R)
    BY <1>2, BelowIs
  <2>3. Below(f, x) \subseteq Below(f, L)
    BY <1>2, <1>4, BelowBelow
  <2> QED
    BY <1>2, <1>4, <1>5, <1>6, <2>1, <2>2, <2>3
<1>9. /\ TreeType(b) /\ b.root = t.root /\ b.freq = t.freq
      /\ b.left = [l EXCEPT ![p] = L] /\ b.right = [r EXCEPT ![x] = R]
      /\ b.parent = [[par EXCEPT ![L] = p] EXCEPT ![R] = x]
  <2>1. /\ TreeType(Relinked(t, n, x)) /\ Relinked(t, n, x).root = t.root /\ Relinked(t, n, x).freq = t.freq
        /\ Relinked(t, n, x).left = [t.left EXCEPT ![MostLeft(t, x)] = t.left[n]]
        /\ Relinked(t, n, x).right = [t.right EXCEPT ![x] = t.right[n]]
        /\ Relinked(t, n, x).parent = [[t.parent EXCEPT ![t.left[n]] = MostLeft(t, x)] EXCEPT ![t.right[n]] = x]
    <3>1. MostLeft(t, x) \in Keys /\ t.left[n] \in Keys
      BY <1>2, <1>7 DEF p, l
    <3> QED
      BY <1>5, <3>1, RelinkedIs
  <2> QED
    BY <2>1 DEF b, l, r, par, p
<1>10. /\ TreeType(a) /\ a.root = t.root /\ a.freq = t.freq /\ a.parent = b.parent
       /\ b.right[b.parent[x]] = x => a.left = b.left /\ a.right = [b.right EXCEPT ![b.parent[x]] = None]
       /\ b.right[b.parent[x]] # x => a.left = [b.left EXCEPT ![b.parent[x]] = None] /\ a.right = b.right
  <2>1. /\ TreeType(Freed(b, x)) /\ Freed(b, x).root = b.root /\ Freed(b, x).freq = b.freq
        /\ Freed(b, x).parent = b.parent
        /\ b.right[b.parent[x]] = x => Freed(b, x).left = b.left /\ Freed(b, x).right = [b.right EXCEPT ![b.parent[x]] = None]
        /\ b.right[b.parent[x]] # x => Freed(b, x).left = [b.left EXCEPT ![b.parent[x]] = None] /\ Freed(b, x).right = b.right
    BY <1>5, <1>9, FreedIs
  <2> QED
    BY <1>9, <1>a, <2>1
<1> DEFINE k == [l EXCEPT ![n] = None]
           s == [r EXCEPT ![n] = None]
           q == [[par EXCEPT ![L] = None] EXCEPT ![R] = None]
<1>11. Split(l, r, par, n, k, s, q)
  BY <1>1, SplitNode
<1>12. CASE x = L
  <2>1. b.parent[x] = p
    BY <1>1, <1>2, <1>7, <1>8, <1>9, <1>12 DEF Pointers
  <2>2. b.right[p] # x
    <3>1. CASE p = x
      BY <1>1, <1>5, <1>8, <1>9, <3>1 DEF Pointers
    <3>2. CASE p # x
      <4>1. b.right[p] = r[p]
        BY <1>1, <1>5, <1>7, <1>9, <3>2 DEF Pointers
      <4>2. x \notin f[p]
        BY <1>2, <1>6, <1>7
      <4>3. f[p] = {l[p], r[p]} \ {None}
        BY <1>2, <1>7
      <4>4. x # None
        BY <1>1, <1>5
      <4> QED
        BY <4>1, <4>2, <4>3, <4>4
    <3> QED
      BY <3>1, <3>2
  <2>3. a.left = [[l EXCEPT ![p] = L] EXCEPT ![p] = None] /\ a.right = [r EXCEPT ![x] = R]
    BY <1>9, <1>10, <2>1, <2>2
  <2>4. [a.left EXCEPT ![n] = None] = k
    BY <1>1, <1>6, <1>7, <2>3 DEF Pointers
  <2>5. [a.right EXCEPT ![n] = None] = [s EXCEPT ![L] = R]
    BY <1>1, <1>2, <1>12, <2>3 DEF Pointers
  <2>6. [a.parent EXCEPT ![x] = None] = [q EXCEPT ![R] = L]
    <3>1. a.parent = [[par EXCEPT ![L] = p] EXCEPT ![R] = L]
      BY <1>9, <1>10, <1>12
    <3>2. par \in [Keys -> Keys \cup {None}] /\ L \in Keys /\ R # L /\ x = L
      BY <1>1, <1>2, <1>12 DEF Pointers
    <3> HIDE DEF L, R
    <3> QED
      BY <3>1, <3>2
  <2>7. Merged(l, r, par, n, k, [s EXCEPT ![L] = R], [q EXCEPT ![R] = L], L)
    <3>1. l[n] # None /\ r[l[n]] = None
      BY <1>1, <1>2, <1>4, <1>12
    <3> HIDE DEF k, s, q
    <3> QED
      BY <1>1, <1>11, <3>1, MergeLeft
  <2> HIDE DEF k, s, q, L, R
  <2>8. Merged(l, r, par, n, [a.left EXCEPT ![n] = None], [a.right EXCEPT ![n] = None], [a.parent EXCEPT ![x] = None], x)
    BY <1>12, <2>4, <2>5, <2>6, <2>7
  <2> QED
    BY <1>10, <2>8 DEF Ready, a, x, l, r, par, L
<1>13. CASE x # L
  <2> DEFINE w == par[x]
  <2>0. w \in Keys /\ r[w] = x
    BY <1>4, <1>13
  <2>1. b.parent[x] = w
    BY <1>1, <1>2, <1>5, <1>7, <1>8, <1>9, <1>13 DEF Pointers
  <2>2. w # x /\ w # n /\ b.right[w] = x
    <3>1. w # x
      BY <1>1, <1>4, <1>5, <2>0
    <3>2. w # n
      BY <1>8, <2>0
    <3> QED
      BY <1>1, <1>9, <2>0, <3>1, <3>2 DEF Pointers
  <2>3. a.left = [l EXCEPT ![p] = L] /\ a.right = [[r EXCEPT ![x] = R] EXCEPT ![w] = None]
    BY <1>9, <1>10, <2>1, <2>2
  <2>4. [a.left EXCEPT ![n] = None] = [k EXCEPT ![p] = L]
    BY <1>1, <1>2, <1>7, <1>8, <2>3 DEF Pointers
  <2>5. [a.right EXCEPT ![n] = None] = [[s EXCEPT ![w] = None] EXCEPT ![x] = R]
    BY <1>1, <1>2, <1>5, <1>8, <2>0, <2>2, <2>3 DEF Pointers
  <2>6. [a.parent EXCEPT ![x] = None] = [[[q EXCEPT ![x] = None] EXCEPT ![L] = p] EXCEPT ![R] = x]
    BY <1>1, <1>2, <1>5, <1>7, <1>8, <1>9, <1>10, <1>13 DEF Pointers
  <2> HIDE DEF k, s, q, w
  <2>7. Merged(l, r, par, n, [k EXCEPT ![p] = L], [[s EXCEPT ![w] = None] EXCEPT ![x] = R],
               [[[q EXCEPT ![x] = None] EXCEPT ![L] = p] EXCEPT ![R] = x], x)
    <3>1. Deep(l, r, n, x, p, w)
      BY <1>4, <1>6, <1>13, <2>0 DEF Deep, f
    <3> QED
      BY <1>1, <1>11, <3>1, MergeDeep
  <2> HIDE DEF L, R
  <2>8. Merged(l, r, par, n, [a.left EXCEPT ![n] = None], [a.right EXCEPT ![n] = None], [a.parent EXCEPT ![x] = None], x)
    BY <2>4, <2>5, <2>6, <2>7
  <2> QED
    BY <1>10, <2>8 DEF Ready, a, x, l, r, par, L
<1> QED
  BY <1>12, <1>13

(* removeValue puts the replacement in the place of n and clears the node. *)
LEMMA RemovedIs ==
  ASSUME KeysOK, NEW t, TreeType(t), Shape(t), NEW n \in Keys
  PROVE  /\ TreeType(Removed(t, n)) /\ Removed(t, n).freq = [t.freq EXCEPT ![n] = 0]
         /\ \E x \in Keys \cup {None} :
              /\ Removed(t, n).root = IF t.parent[n] = None THEN x ELSE t.root
              /\ Replaced(t.left, t.right, t.parent, n, Removed(t, n).left, Removed(t, n).right,
                          Removed(t, n).parent, x)
<1> DEFINE l == t.left
           r == t.right
           par == t.parent
           f == Kids(l, r)
           up == par[n]
           x == IF t.left[n] # None THEN MostRight(t, t.left[n]) ELSE t.right[n]
           a == IF t.left[n] # None THEN Replacement(t, n) ELSE t
           b == IF up = None THEN [a EXCEPT !.root = x]
                ELSE IF a.left[up] = n THEN [a EXCEPT !.left[up] = x]
                ELSE [a EXCEPT !.right[up] = x]
           c == IF x = None THEN b ELSE [b EXCEPT !.parent[x] = up]
           d == [c EXCEPT !.left[n] = None, !.right[n] = None, !.parent[n] = None, !.red[n] = TRUE,
                          !.freq[n] = 0, !.lHeight[n] = 0, !.rHeight[n] = 0]
<1>1. Removed(t, n) = d
  BY DEF Removed
<1>2. Ready(t, n, a, x)
  BY ReadyLeft, ReadyRight
<1>3. Forest(l, r, par) /\ Pointers(l) /\ Pointers(r) /\ Pointers(par) /\ None \notin Keys
  BY DEF Shape, Forest, KeysOK
<1> HIDE DEF l, r, par, x, a
<1> DEFINE k == [a.left EXCEPT ![n] = None]
           s == [a.right EXCEPT ![n] = None]
           q == [a.parent EXCEPT ![x] = None]
<1>4. TreeType(a) /\ a.root = t.root /\ a.freq = t.freq /\ Merged(l, r, par, n, k, s, q, x)
  BY <1>2 DEF Ready, l, r, par
<1> HIDE DEF k, s, q
<1>5. /\ Forest(k, s, q) /\ x \in Keys \cup {None} /\ x # n /\ (x # None => q[x] = None)
      /\ k[n] = None /\ s[n] = None /\ q[n] = up
      /\ \A y \in Keys \ Below(f, n) : k[y] = l[y] /\ s[y] = r[y]
  BY <1>4 DEF Merged
<1>6. up \in Keys \cup {None}
  BY <1>3 DEF Pointers
<1>7. /\ TreeType(b) /\ b.freq = t.freq /\ b.parent = a.parent
      /\ b.root = IF up = None THEN x ELSE t.root
      /\ b.left = IF up # None /\ a.left[up] = n THEN [a.left EXCEPT ![up] = x] ELSE a.left
      /\ b.right = IF up # None /\ a.left[up] # n THEN [a.right EXCEPT ![up] = x] ELSE a.right
  <2> HIDE DEF up
  <2>1. CASE up = None
    BY <1>4, <1>5, <2>1 DEF TreeType
  <2>2. CASE up # None /\ a.left[up] = n
    BY <1>4, <1>5, <1>6, <2>2 DEF TreeType
  <2>3. CASE up # None /\ a.left[up] # n
    BY <1>4, <1>5, <1>6, <2>3 DEF TreeType
  <2> QED
    BY <2>1, <2>2, <2>3
<1> HIDE DEF b
<1>8. /\ TreeType(c) /\ c.freq = t.freq /\ c.root = b.root /\ c.left = b.left /\ c.right = b.right
      /\ c.parent = [a.parent EXCEPT ![x] = up]
  <2> HIDE DEF up
  <2>1. CASE x = None
    BY <1>3, <1>4, <1>7, <2>1 DEF TreeType
  <2>2. CASE x # None
    BY <1>5, <1>6, <1>7, <2>2 DEF TreeType
  <2> QED
    BY <2>1, <2>2
<1> HIDE DEF c
<1>9. /\ TreeType(d) /\ d.freq = [t.freq EXCEPT ![n] = 0] /\ d.root = b.root
      /\ d.left = [b.left EXCEPT ![n] = None] /\ d.right = [b.right EXCEPT ![n] = None]
      /\ d.parent = [[a.parent EXCEPT ![x] = up] EXCEPT ![n] = None]
  BY <1>8 DEF TreeType
<1> HIDE DEF d
<1>10. Replaced(l, r, par, n, d.left, d.right, d.parent, x)
  <2>1. CASE up = None
    <3>1. d.left = k /\ d.right = s
      BY <1>7, <1>9, <2>1 DEF k, s
    <3>2. d.parent = q
      <4>1. q \in [Keys -> Keys \cup {None}] /\ a.parent \in [Keys -> Keys \cup {None}]
        BY <1>4, <1>5 DEF Forest, Pointers, TreeType
      <4>2. d.parent = [q EXCEPT ![n] = None]
        BY <1>9, <2>1 DEF q
      <4> QED
        BY <1>5, <2>1, <4>1, <4>2
    <3>3. Replaced(l, r, par, n, k, s, q, x)
      BY <1>3, <1>4, <2>1, ReplaceRoot
    <3> QED
      BY <3>1, <3>2, <3>3
  <2>2. CASE up # None
    <3>1. up \in Keys /\ up \notin Below(f, n) /\ n \in f[up] /\ up # n /\ l[up] # r[up] /\ f[up] = {l[up], r[up]} \ {None}
      <4>1. up \in Keys /\ up \notin Below(f, n) /\ n \in f[up]
        BY <1>3, <1>6, <2>2, AboveNode
      <4>2. Graph(f) /\ f[up] = {l[up], r[up]} \ {None} /\ (l[up] # None => l[up] # r[up]) /\ n \in Below(f, n)
        BY <1>3, <4>1, ForestGraph, BelowIs
      <4> HIDE DEF f
      <4> QED
        BY <4>1, <4>2
    <3>2. a.left[up] = l[up] /\ a.right[up] = r[up]
      <4>1. k[up] = a.left[up] /\ s[up] = a.right[up]
        BY <1>4, <3>1 DEF k, s, TreeType
      <4> QED
        BY <1>5, <3>1, <4>1
    <3>3. d.parent = [[q EXCEPT ![n] = None] EXCEPT ![x] = up]
      BY <1>3, <1>4, <1>5, <1>9, <3>1 DEF q, TreeType
    <3>4. CASE l[up] = n
      <4>1. d.left = [k EXCEPT ![up] = x] /\ d.right = s
        BY <1>4, <1>7, <1>9, <2>2, <3>1, <3>2, <3>4 DEF k, s, TreeType
      <4>2. Replaced(l, r, par, n, [k EXCEPT ![par[n]] = x], s, [[q EXCEPT ![n] = None] EXCEPT ![x] = par[n]], x)
        BY <1>3, <1>4, <3>1, <3>4, ReplaceLeft
      <4> QED
        BY <3>3, <4>1, <4>2
    <3>5. CASE l[up] # n
      <4>1. d.left = k /\ d.right = [s EXCEPT ![up] = x]
        BY <1>4, <1>7, <1>9, <2>2, <3>1, <3>2, <3>5 DEF k, s, TreeType
      <4>2. Replaced(l, r, par, n, k, [s EXCEPT ![par[n]] = x], [[q EXCEPT ![n] = None] EXCEPT ![x] = par[n]], x)
        BY <1>3, <1>4, <3>1, <3>5, ReplaceRight
      <4> QED
        BY <3>3, <4>1, <4>2
    <3> QED
      BY <3>4, <3>5
  <2> QED
    BY <2>1, <2>2
<1>11. /\ TreeType(Removed(t, n)) /\ Removed(t, n).freq = [t.freq EXCEPT ![n] = 0]
       /\ x \in Keys \cup {None}
       /\ Removed(t, n).root = IF t.parent[n] = None THEN x ELSE t.root
       /\ Replaced(t.left, t.right, t.parent, n, Removed(t, n).left, Removed(t, n).right, Removed(t, n).parent, x)
  BY <1>1, <1>5, <1>7, <1>9, <1>10 DEF l, r, par
<1> QED
  BY <1>11
-----------------------------------------------------------------------------
(* The invariant of the nodes: those that are not below the root have no   *)
(* links and no frequency.                                                 *)
TreeOK(t) ==
  /\ TreeType(t) /\ Shape(t)
  /\ t.root # None => t.parent[t.root] = None
  /\ \A n \in Under(t, t.root) : t.freq[n] > 0
  /\ \A n \in Keys \ Under(t, t.root) : t.freq[n] = 0 /\ t.left[n] = None /\ t.right[n] = None

LEMMA UnderIs == \A t, n : Under(t, n) = Below(Kids(t.left, t.right), n)
BY DEF Under, Below, Children, Kids

LEMMA TreeOKIs ==
  ASSUME KeysOK, NEW t, TreeOK(t)
  PROVE  /\ t.root \in Keys \cup {None} /\ Under(t, t.root) \in SUBSET Keys
         /\ Pointers(t.left) /\ Pointers(t.right) /\ Pointers(t.parent)
         /\ Graph(Kids(t.left, t.right)) /\ None \notin Keys
         /\ t.root = None => Under(t, t.root) = {}
         /\ t.root # None => t.root \in Under(t, t.root)
<1>1. Graph(Kids(t.left, t.right)) /\ Pointers(t.left) /\ Pointers(t.right) /\ Pointers(t.parent)
  BY ForestGraph DEF TreeOK, Shape, Forest
<1>2. t.root \in Keys \cup {None}
  BY DEF TreeOK, TreeType
<1> QED
  BY <1>1, <1>2, UnderIs, BelowIs, BelowNone, BelowType DEF KeysOK

LEMMA RemovedOK ==
  ASSUME KeysOK, NEW t, TreeOK(t), NEW n \in Under(t, t.root)
  PROVE  /\ TreeOK(Removed(t, n)) /\ Removed(t, n).freq = [t.freq EXCEPT ![n] = 0]
         /\ Under(Removed(t, n), Removed(t, n).root) = Under(t, t.root) \ {n}
<1> DEFINE l == t.left
           r == t.right
           par == t.parent
           f == Kids(l, r)
           T == Removed(t, n)
           g == Kids(T.left, T.right)
<1>1. /\ n \in Keys /\ t.root \in Keys /\ par[t.root] = None /\ None \notin Keys
      /\ TreeType(t) /\ Forest(l, r, par) /\ Under(t, t.root) = Below(f, t.root)
      /\ Under(T, T.root) = Below(g, T.root)
      /\ Below(f, t.root) \in SUBSET Keys /\ Graph(f) /\ Pointers(par)
  BY TreeOKIs, UnderIs DEF TreeOK, Shape
<1>2. TreeType(T) /\ T.freq = [t.freq EXCEPT ![n] = 0]
  BY <1>1, RemovedIs DEF Shape
<1>3. PICK x \in Keys \cup {None} :
        /\ T.root = IF par[n] = None THEN x ELSE t.root
        /\ Replaced(l, r, par, n, T.left, T.right, T.parent, x)
  BY <1>1, RemovedIs DEF Shape
<1> HIDE DEF f, g, T, l, r, par
<1>4. /\ Forest(T.left, T.right, T.parent)
      /\ (x # None => T.parent[x] = par[n])
      /\ T.left[n] = None /\ T.right[n] = None
      /\ Below(g, x) = Below(f, n) \ {n}
      /\ \A y \in Keys \ Below(f, n) :
           /\ y # par[n] => T.left[y] = l[y] /\ T.right[y] = r[y]
           /\ Below(g, y) = Below(f, y) \ {n}
  BY <1>3 DEF Replaced, f, g
<1>5. /\ Below(f, n) \subseteq Below(f, t.root) /\ n \in Below(f, n)
      /\ \A y \in Keys \ Below(f, t.root) : l[y] = None /\ r[y] = None /\ t.freq[y] = 0
      /\ \A y \in Below(f, t.root) : t.freq[y] > 0
      /\ \A y \in Keys : t.root \in Below(f, y) => y = t.root
  BY <1>1, BelowBelow, BelowIs, RootApart DEF TreeOK, l, r, f
<1>6. /\ Below(g, T.root) = Below(f, t.root) \ {n}
      /\ T.root # None => T.parent[T.root] = None
      /\ par[n] # None => par[n] \in Below(f, t.root)
  <2>1. CASE par[n] = None
    <3>1. n = t.root
      BY <1>1, <2>1, RootApart DEF f
    <3> QED
      BY <1>3, <1>4, <2>1, <3>1
  <2>2. CASE par[n] # None
    <3>1. t.root \notin Below(f, n) /\ T.root = t.root /\ n # t.root
      BY <1>1, <1>3, <1>5, <2>2
    <3>2. Below(g, T.root) = Below(f, t.root) \ {n}
      BY <1>1, <1>4, <3>1
    <3>3. par[n] \in Below(f, t.root)
      <4>1. PICK m \in Below(f, t.root) : n \in f[m]
        BY <1>1, <3>1, LastLink
      <4>2. par[n] = m
        BY <1>1, <4>1 DEF Forest, Linked, f
      <4> QED
        BY <4>1, <4>2
    <3>4. ASSUME T.parent[t.root] # None PROVE FALSE
      <4> DEFINE a == T.parent[t.root]
      <4>1. /\ a \in Keys /\ Graph(g) /\ t.root \in g[a]
            /\ \A y \in Keys : \A c \in g[y] : y \notin Below(g, c)
            /\ g[n] = {}
        BY <1>1, <1>4, <3>4, ForestGraph DEF Forest, Linked, Pointers, g
      <4> HIDE DEF a
      <4>2. t.root \in Below(g, a)
        BY <1>1, <4>1, BelowIs, BelowBelow
      <4>3. a # t.root
        BY <1>1, <4>1, <4>2
      <4>4. a \in Below(f, n)
        BY <1>4, <1>5, <4>1, <4>2, <4>3
      <4>5. a \in Below(g, x)
        BY <1>4, <4>1, <4>4
      <4>6. t.root \in Below(g, x)
        BY <1>3, <4>1, <4>5, BelowBelow
      <4> QED
        BY <1>4, <3>1, <4>6
    <3> QED
      BY <3>1, <3>2, <3>3, <3>4
  <2> QED
    BY <2>1, <2>2
<1>7. ASSUME NEW y \in Keys \ Below(g, T.root) PROVE T.freq[y] = 0 /\ T.left[y] = None /\ T.right[y] = None
  <2>1. CASE y = n
    BY <1>1, <1>2, <1>4, <2>1 DEF TreeType
  <2>2. CASE y # n
    <3>1. y \notin Below(f, t.root)
      BY <1>6, <2>2
    <3>2. y # par[n] /\ y \notin Below(f, n)
      BY <1>1, <1>5, <1>6, <3>1
    <3> QED
      BY <1>1, <1>2, <1>4, <1>5, <2>2, <3>1, <3>2 DEF TreeType
  <2> QED
    BY <2>1, <2>2
<1>8. ASSUME NEW y \in Below(g, T.root) PROVE T.freq[y] > 0
  BY <1>1, <1>2, <1>5, <1>6, <1>8 DEF TreeType
<1>9. TreeOK(T)
  BY <1>1, <1>2, <1>4, <1>6, <1>7, <1>8 DEF TreeOK, Shape
<1> QED
  BY <1>1, <1>2, <1>6, <1>9 DEF T

-----------------------------------------------------------------------------
(* The search for k meets only nodes that have k on the same side as       *)
(* themselves of everything above them, and meets k when it is there.      *)
LEMMA SearchIs ==
  ASSUME KeysOK, NEW t, TreeOK(t), NEW k \in Keys
  PROVE  /\ Graph(Way(t, k)) /\ Visited(t, k) \subseteq Under(t, t.root)
         /\ t.root # None => t.root \in Visited(t, k)
         /\ \A m \in Visited(t, k), y \in Keys :
              /\ m \in Below(Kids(t.left, t.right), t.left[y]) => k < y
              /\ m \in Below(Kids(t.left, t.right), t.right[y]) => y < k
         /\ HasNode(t, k) <=> k \in Under(t, t.root)
<1> DEFINE l == t.left
           r == t.right
           f == Kids(l, r)
           w == Way(t, k)
           V == Visited(t, k)
           Side(m) == \A y \in Keys : /\ m \in Below(f, l[y]) => k < y
                                      /\ m \in Below(f, r[y]) => y < k
           C == {m \in Below(f, t.root) : Side(m)}
<1>1. /\ t.root \in Keys \cup {None} /\ Under(t, t.root) = Below(f, t.root) /\ Below(f, t.root) \in SUBSET Keys
      /\ Pointers(l) /\ Pointers(r) /\ Graph(f) /\ Forest(l, r, t.parent) /\ InOrder(l, r) /\ OneParent(f)
      /\ \A m \in Keys : f[m] = {l[m], r[m]} \ {None}
      /\ \A m \in Keys : \A c \in f[m] : m \notin Below(f, c)
      /\ k \in Int /\ Keys \subseteq Int /\ None \notin Keys
  BY TreeOKIs, UnderIs, ForestGraph DEF TreeOK, Shape, Forest, KeysOK
<1>2. /\ Graph(w)
      /\ \A m \in Keys : /\ w[m] \subseteq f[m]
                         /\ k < m => w[m] = {l[m]} \ {None}
                         /\ m < k => w[m] = {r[m]} \ {None}
                         /\ w[k] = {}
  <2>1. \A m \in Keys : w[m] = IF m = k THEN {} ELSE IF k < m THEN {l[m]} \ {None} ELSE {r[m]} \ {None}
    BY DEF Way, At
  <2>2. \A m \in Keys : w[m] \subseteq f[m] /\ w[m] \subseteq Keys
    <3> HIDE DEF w, f, l, r
    <3> SUFFICES ASSUME NEW m \in Keys PROVE w[m] \subseteq f[m] /\ w[m] \subseteq Keys
      OBVIOUS
    <3>1. l[m] \in Keys \cup {None} /\ r[m] \in Keys \cup {None} /\ f[m] = {l[m], r[m]} \ {None}
      BY <1>1 DEF Pointers
    <3>2. w[m] = {} \/ w[m] = {l[m]} \ {None} \/ w[m] = {r[m]} \ {None}
      BY <2>1
    <3> QED
      BY <3>1, <3>2
  <2>3. w \in [Keys -> SUBSET Keys]
    BY <2>2 DEF Way
  <2>4. \A m \in Keys : (k < m => m # k /\ ~(m < k)) /\ (m < k => m # k /\ ~(k < m))
    BY <1>1
  <2> HIDE DEF w, f
  <2> QED
    BY <2>1, <2>2, <2>3, <2>4 DEF Graph
<1>3. V = Below(w, t.root)
  BY DEF Visited, Below
<1>4. V = {} \/ t.root \in Keys
  BY <1>1, <1>2, <1>3, BelowNone
<1> HIDE DEF w, V
<1>5. V \subseteq C /\ (t.root \in Keys => t.root \in V /\ V \in SUBSET Keys /\ ClosedUnder(w, V))
  <2>1. ASSUME t.root \in Keys PROVE V \subseteq C /\ t.root \in V /\ V \in SUBSET Keys /\ ClosedUnder(w, V)
    <3>1. C \in SUBSET Keys /\ t.root \in C
      <4>1. t.root \in Below(f, t.root)
        BY <1>1, <2>1, BelowIs
      <4>2. Side(t.root)
        BY <1>1, <2>1, RootApart DEF TreeOK, KeysOK
      <4> QED
        BY <1>1, <4>1, <4>2
    <3>2. ASSUME NEW m \in C, NEW c \in w[m] PROVE c \in C
      <4>1. m \in Keys /\ m \in Below(f, t.root) /\ Side(m)
        BY <1>1
      <4>2. c \in f[m] /\ c \in Keys /\ m # k
        BY <1>1, <1>2, <3>2, <4>1 DEF Pointers
      <4>3. c \in Below(f, t.root)
        BY <1>1, <4>1, <4>2, BelowBelow
      <4>4. ASSUME NEW y \in Keys, NEW e \in {l[y], r[y]}, c \in Below(f, e), y # m PROVE m \in Below(f, e)
        <5>1. e \in Keys \cup {None}
          BY <1>1 DEF Pointers
        <5>2. e \in Keys
          BY <1>1, <4>4, <5>1, BelowNone
        <5>3. c # e
          <6>1. ASSUME c = e PROVE FALSE
            <7>1. c \in f[y]
              BY <1>1, <5>2, <6>1
            <7> QED
              BY <1>1, <4>1, <4>2, <4>4, <7>1 DEF OneParent
          <6> QED
            BY <6>1
        <5>4. PICK v \in Below(f, e) : c \in f[v]
          BY <1>1, <4>4, <5>1, <5>3, LastLink
        <5>5. v \in Keys
          BY <1>1, <5>2, BelowIs
        <5> QED
          BY <1>1, <4>1, <4>2, <5>4, <5>5 DEF OneParent
      <4>5. CASE k < m
        <5>0. c = l[m]
          BY <1>2, <3>2, <4>1, <4>5
        <5>1. c = l[m] /\ c \in Below(f, l[m])
          BY <1>1, <4>2, <5>0, BelowIs
        <5>2. c \notin Below(f, r[m])
          BY <1>1, <4>1, <5>1, Subtrees
        <5>3. Side(c)
          BY <4>1, <4>4, <4>5, <5>2
        <5> QED
          BY <4>3, <5>3
      <4>6. CASE m < k
        <5>0. c = r[m]
          BY <1>2, <3>2, <4>1, <4>6
        <5>1. c = r[m] /\ c \in Below(f, r[m])
          BY <1>1, <4>2, <5>0, BelowIs
        <5>2. c \notin Below(f, l[m])
          BY <1>1, <4>1, <5>1, Subtrees
        <5>3. Side(c)
          BY <4>1, <4>4, <4>6, <5>2
        <5> QED
          BY <4>3, <5>3
      <4>7. k < m \/ m < k
        BY <1>1, <4>1, <4>2
      <4> QED
        BY <4>5, <4>6, <4>7
    <3> HIDE DEF C
    <3>3. ClosedUnder(w, C)
      BY <3>2 DEF ClosedUnder
    <3> QED
      BY <1>2, <1>3, <2>1, <3>1, <3>3, BelowIs
  <2> QED
    BY <1>4, <2>1
<1>6. ASSUME k \in Below(f, t.root) PROVE k \in V
  <2>0. t.root \in Keys
    BY <1>1, <1>6, BelowNone
  <2> DEFINE D == {m \in V : k \in Below(f, m)}
  <2>1. D \in SUBSET Keys /\ t.root \in D
    BY <1>5, <1>6, <2>0
  <2>2. PICK y \in D : f[y] \cap D = {}
    <3> HIDE DEF D, f
    <3> QED
      BY <1>1, <2>1, Lowest
  <2>3. y \in Keys /\ y \in V /\ k \in Below(f, y)
    BY <2>1, <2>2
  <2>4. ASSUME y # k PROVE FALSE
    <3>1. k \in Below(f, l[y]) \/ k \in Below(f, r[y])
      BY <1>1, <2>3, <2>4, Subtrees
    <3>2. CASE k \in Below(f, l[y])
      <4>1. l[y] # None /\ k < y
        BY <1>1, <2>3, <3>2, BelowNone DEF InOrder
      <4>2. l[y] \in V /\ l[y] \in f[y]
        BY <1>1, <1>2, <1>5, <2>0, <2>3, <4>1 DEF ClosedUnder
      <4> QED
        BY <2>2, <3>2, <4>2
    <3>3. CASE k \in Below(f, r[y])
      <4>1. r[y] # None /\ y < k
        BY <1>1, <2>3, <3>3, BelowNone DEF InOrder
      <4>2. r[y] \in V /\ r[y] \in f[y]
        BY <1>1, <1>2, <1>5, <2>0, <2>3, <4>1 DEF ClosedUnder
      <4> QED
        BY <2>2, <3>3, <4>2
    <3> QED
      BY <3>1, <3>2, <3>3
  <2> QED
    BY <2>3, <2>4
<1>7. HasNode(t, k) <=> k \in V
  BY DEF HasNode, V
<1>8. V \subseteq Below(f, t.root) /\ \A m \in V, y \in Keys : (m \in Below(f, l[y]) => k < y) /\ (m \in Below(f, r[y]) => y < k)
  BY <1>5
<1>9. t.root # None => t.root \in V
  BY <1>1, <1>5
<1> QED
  BY <1>1, <1>2, <1>6, <1>7, <1>8, <1>9 DEF V, w
-----------------------------------------------------------------------------
(* The search for a key that is not there ends at a node with room for it. *)
LEMMA ParentIs ==
  ASSUME KeysOK, NEW t, TreeOK(t), NEW k \in Keys, k \notin Under(t, t.root), NEW p, p = ParentFor(t, k)
  PROVE  /\ t.root = None => p = None
         /\ t.root # None => /\ p \in Under(t, t.root) /\ p # k
                             /\ IF k < p THEN t.left[p] = None ELSE p < k /\ t.right[p] = None
                             /\ \A y \in Keys :
                                  /\ p \in Below(Kids(t.left, t.right), t.left[y]) => k < y
                                  /\ p \in Below(Kids(t.left, t.right), t.right[y]) => y < k
<1>1. CASE t.root = None
  BY <1>1 DEF ParentFor
<1>2. CASE t.root # None
  <2> DEFINE f == Kids(t.left, t.right)
             w == Way(t, k)
             V == Visited(t, k)
  <2>1. /\ Graph(w) /\ V \subseteq Under(t, t.root) /\ t.root \in V
        /\ \A m \in V, y \in Keys : /\ m \in Below(f, t.left[y]) => k < y
                                    /\ m \in Below(f, t.right[y]) => y < k
    BY <1>2, SearchIs
  <2>2. /\ t.root \in Keys /\ Under(t, t.root) \in SUBSET Keys /\ Graph(f) /\ None \notin Keys
        /\ \A m \in Keys : f[m] = {t.left[m], t.right[m]} \ {None} /\ \A c \in f[m] : m \notin Below(f, c)
    BY <1>2, TreeOKIs, ForestGraph DEF TreeOK, Shape
  <2>3. ClosedUnder(w, V)
    <3>1. V = Below(w, t.root)
      BY DEF Visited, Below
    <3> QED
      BY <2>1, <2>2, <3>1, BelowIs
  <2>4. \A m \in Keys : w[m] = IF m = k THEN {} ELSE IF k < m THEN {t.left[m]} \ {None} ELSE {t.right[m]} \ {None}
    BY DEF Way, At
  <2> HIDE DEF f, w, V
  <2>5. PICK y \in V : f[y] \cap V = {}
    BY <2>1, <2>2, Lowest
  <2>6. w[y] = {}
    <3>1. y \in Keys
      BY <2>1, <2>2
    <3>2. w[y] \subseteq V
      BY <2>3 DEF ClosedUnder
    <3>3. w[y] \subseteq f[y]
      BY <2>2, <2>4, <3>1
    <3> QED
      BY <2>5, <3>2, <3>3
  <2>7. p = CHOOSE m \in V : w[m] = {}
    BY <1>2 DEF ParentFor, V, w
  <2>8. p \in V /\ w[p] = {}
    BY <2>6, <2>7
  <2>9. p \in Under(t, t.root) /\ p # k /\ p \in Keys
    BY <2>1, <2>2, <2>8
  <2>10. k < p \/ p < k
    BY <2>9 DEF KeysOK
  <2>11. IF k < p THEN t.left[p] = None ELSE p < k /\ t.right[p] = None
    BY <2>4, <2>8, <2>9, <2>10
  <2> QED
    BY <1>2, <2>1, <2>8, <2>9, <2>11 DEF f
<1> QED
  BY <1>1, <1>2

(* k is a new leaf of u, below p unless the tree t was empty.              *)
Grafted(t, k, p, u) ==
  /\ TreeType(u) /\ Shape(u) /\ u.root = t.root
  /\ u.freq = [t.freq EXCEPT ![k] = 1]
  /\ u.lHeight = [t.lHeight EXCEPT ![k] = 0] /\ u.rHeight = [t.rHeight EXCEPT ![k] = 0]
  /\ u.parent[k] = p /\ u.left[k] = None /\ u.right[k] = None
  /\ IF t.root = None THEN p = None ELSE p \in Under(t, t.root) /\ p # k
  /\ \/ p = None /\ u.left = t.left /\ u.right = t.right
     \/ p \in Keys /\ t.left[p] = None /\ u.left = [t.left EXCEPT ![p] = k] /\ u.right = t.right
     \/ p \in Keys /\ t.right[p] = None /\ u.left = t.left /\ u.right = [t.right EXCEPT ![p] = k]
  /\ \A y \in Keys \cup {None} :
       Under(u, y) = Under(t, y) \cup (IF p \in Under(t, y) THEN {k} ELSE {})

LEMMA WithNodeIs ==
  ASSUME KeysOK, NEW t, TreeOK(t), NEW k \in Keys, k \notin Under(t, t.root)
  PROVE  Grafted(t, k, ParentFor(t, k), WithNode(t, k))
<1> DEFINE l == t.left
           r == t.right
           par == t.parent
           f == Kids(l, r)
           p == ParentFor(t, k)
           new == [t EXCEPT !.left[k] = None, !.right[k] = None, !.parent[k] = p, !.red[k] = TRUE,
                            !.freq[k] = 1, !.lHeight[k] = 0, !.rHeight[k] = 0]
           u == WithNode(t, k)
<1>1. /\ t.root \in Keys \cup {None} /\ Under(t, t.root) \in SUBSET Keys
      /\ Pointers(l) /\ Pointers(r) /\ Pointers(par) /\ Graph(f) /\ None \notin Keys
      /\ TreeType(t) /\ Forest(l, r, par) /\ l[k] = None /\ r[k] = None
      /\ \A m \in Keys : f[m] = {l[m], r[m]} \ {None}
  BY TreeOKIs, ForestGraph DEF TreeOK, Shape
<1>2. /\ t.root = None => p = None
      /\ t.root # None => /\ p \in Under(t, t.root) /\ p # k
                          /\ IF k < p THEN l[p] = None ELSE p < k /\ r[p] = None
                          /\ \A y \in Keys : (p \in Below(f, l[y]) => k < y) /\ (p \in Below(f, r[y]) => y < k)
  BY ParentIs
<1>3. p \in Keys \cup {None} /\ (p = None <=> t.root = None) /\ (p # None => p \in Keys)
  BY <1>1, <1>2
<1>4. u = IF p = None THEN new ELSE IF k < p THEN [new EXCEPT !.left[p] = k] ELSE [new EXCEPT !.right[p] = k]
  BY DEF WithNode, Attached
<1> HIDE DEF p, u, f, l, r, par
<1>5. par[k] = None
  <2>1. ASSUME par[k] \in Keys PROVE FALSE
    <3>1. k \in f[par[k]]
      BY <1>1, <2>1 DEF Forest, Linked, f
    <3>2. f[par[k]] # {} => par[k] \in Under(t, t.root)
      BY <1>1, <2>1 DEF TreeOK, l, r
    <3>3. k \in Below(f, t.root)
      BY <1>1, <3>1, <3>2, BelowBelow, UnderIs DEF f, l, r
    <3> QED
      BY <3>3, UnderIs DEF f, l, r
  <2> QED
    BY <1>1, <2>1 DEF Pointers
<1>6. /\ TreeType(new) /\ new.root = t.root /\ new.left = l /\ new.right = r /\ new.parent = [par EXCEPT ![k] = p]
      /\ new.freq = [t.freq EXCEPT ![k] = 1]
      /\ new.lHeight = [t.lHeight EXCEPT ![k] = 0] /\ new.rHeight = [t.rHeight EXCEPT ![k] = 0]
  <2>1. [l EXCEPT ![k] = None] = l /\ [r EXCEPT ![k] = None] = r
    BY <1>1 DEF Pointers
  <2> QED
    BY <1>1, <1>3, <2>1 DEF TreeType, l, r, par
<1> HIDE DEF new
<1>7. /\ TreeType(u) /\ u.root = t.root /\ u.parent = [par EXCEPT ![k] = p]
      /\ u.freq = [t.freq EXCEPT ![k] = 1]
      /\ u.lHeight = [t.lHeight EXCEPT ![k] = 0] /\ u.rHeight = [t.rHeight EXCEPT ![k] = 0]
      /\ u.left = IF p # None /\ k < p THEN [l EXCEPT ![p] = k] ELSE l
      /\ u.right = IF p # None /\ ~(k < p) THEN [r EXCEPT ![p] = k] ELSE r
  <2>1. CASE p = None
    BY <1>4, <1>6, <2>1
  <2>2. CASE p # None /\ k < p
    BY <1>3, <1>4, <1>6, <2>2 DEF TreeType
  <2>3. CASE p # None /\ ~(k < p)
    BY <1>3, <1>4, <1>6, <2>3 DEF TreeType
  <2> QED
    BY <2>1, <2>2, <2>3
<1>8. Below(f, k) = {k}
  <2>1. Below(f, k) = {k} \cup UNION {Below(f, c) : c \in f[k]} /\ f[k] = {}
    BY <1>1, FirstLink
  <2> QED
    BY <2>1
<1>9. Fits(l, r, p, k)
  <2>1. CASE p = None
    <3> SUFFICES ASSUME NEW y \in Keys PROVE None \notin Below(f, l[y]) /\ None \notin Below(f, r[y])
      BY <2>1 DEF Fits, f
    <3>1. l[y] \in Keys \cup {None} /\ r[y] \in Keys \cup {None}
      BY <1>1 DEF Pointers
    <3> QED
      BY <1>1, <3>1, BelowType
  <2>2. CASE p # None
    BY <1>2, <1>3, <1>8, <2>2 DEF Fits, f
  <2> QED
    BY <2>1, <2>2
<1>10. Shape(u) /\ \A y \in Keys \cup {None} :
         Below(Kids(u.left, u.right), y) = Below(f, y) \cup (IF p \in Below(f, y) THEN {k} ELSE {})
  <2>1. CASE p = None
    <3>1. \A y \in Keys \cup {None} : p \notin Below(f, y)
      BY <1>1, <2>1, BelowType
    <3>2. u.left = l /\ u.right = r
      BY <1>7, <2>1
    <3>3. u.parent = par
      BY <1>1, <1>5, <1>7, <2>1 DEF Pointers
    <3> QED
      BY <1>1, <3>1, <3>2, <3>3 DEF Shape, f
  <2>2. CASE p # None /\ k < p
    <3>1. /\ Forest([l EXCEPT ![p] = k], r, [par EXCEPT ![k] = p])
          /\ Widened(Kids([l EXCEPT ![p] = k], r), Kids(l, r), p, k)
      <4>1. l[p] = None /\ p \in Keys /\ k \in Keys \cup {None} /\ \A z \in Below(Kids(l, r), k) : z < p
        BY <1>2, <1>3, <1>8, <2>2 DEF f
      <4> QED
        BY <1>1, <1>5, <1>9, <4>1, PutLeft
    <3>2. u.left = [l EXCEPT ![p] = k] /\ u.right = r
      BY <1>7, <2>2
    <3> QED
      BY <1>7, <1>8, <3>1, <3>2 DEF Shape, Widened, f
  <2>3. CASE p # None /\ ~(k < p)
    <3>1. /\ Forest(l, [r EXCEPT ![p] = k], [par EXCEPT ![k] = p])
          /\ Widened(Kids(l, [r EXCEPT ![p] = k]), Kids(l, r), p, k)
      <4>1. r[p] = None /\ p \in Keys /\ k \in Keys \cup {None} /\ \A z \in Below(Kids(l, r), k) : p < z
        BY <1>2, <1>3, <1>8, <2>3 DEF f
      <4> QED
        BY <1>1, <1>5, <1>9, <4>1, PutRight
    <3>2. u.left = l /\ u.right = [r EXCEPT ![p] = k]
      BY <1>7, <2>3
    <3> QED
      BY <1>7, <1>8, <3>1, <3>2 DEF Shape, Widened, f
  <2> QED
    BY <2>1, <2>2, <2>3
<1>11. u.parent[k] = p /\ u.left[k] = None /\ u.right[k] = None
  BY <1>1, <1>2, <1>3, <1>7 DEF Pointers
<1>12. \/ p = None /\ u.left = l /\ u.right = r
       \/ p \in Keys /\ l[p] = None /\ u.left = [l EXCEPT ![p] = k] /\ u.right = r
       \/ p \in Keys /\ r[p] = None /\ u.left = l /\ u.right = [r EXCEPT ![p] = k]
  BY <1>2, <1>3, <1>7
<1>13. \A y \in Keys \cup {None} : Under(u, y) = Under(t, y) \cup (IF p \in Under(t, y) THEN {k} ELSE {})
  BY <1>10, UnderIs DEF f, l, r
<1>14. IF t.root = None THEN p = None ELSE p \in Under(t, t.root) /\ p # k
  BY <1>2
<1>15. Grafted(t, k, p, u)
  BY <1>7, <1>10, <1>11, <1>12, <1>13, <1>14 DEF Grafted, l, r
<1> QED
  BY <1>15 DEF p, u

(* The children of m that adjust meets.                                    *)
Raised(t, k, m) == {c \in Notifying(t, k) : t.parent[c] = m}

(* adjust changes the heights only.                                        *)
LEMMA AdjustIs ==
  ASSUME NEW t, TreeType(t), NEW k
  PROVE  LET u == AdjustHeights(t, k) IN
           /\ TreeType(u) /\ u.root = t.root /\ u.left = t.left /\ u.right = t.right /\ u.parent = t.parent
           /\ u.freq = t.freq
           /\ \A m \in Keys :
                /\ u.lHeight[m] = IF t.left[m] \in Raised(t, k, m) THEN t.lHeight[m] + 1 ELSE t.lHeight[m]
                /\ u.rHeight[m] = IF Raised(t, k, m) \ {t.left[m]} # {} THEN t.rHeight[m] + 1 ELSE t.rHeight[m]
<1> DEFINE a == [p \in Keys |-> IF t.left[p] \in Raised(t, k, p) THEN t.lHeight[p] + 1 ELSE t.lHeight[p]]
           b == [p \in Keys |-> IF Raised(t, k, p) \ {t.left[p]} # {} THEN t.rHeight[p] + 1 ELSE t.rHeight[p]]
           u == AdjustHeights(t, k)
<1>1. u = [t EXCEPT !.lHeight = a, !.rHeight = b]
  BY DEF AdjustHeights, Raised
<1>2. a \in [Keys -> Nat] /\ b \in [Keys -> Nat]
  BY DEF TreeType
<1>3. \A m \in Keys :
        /\ a[m] = IF t.left[m] \in Raised(t, k, m) THEN t.lHeight[m] + 1 ELSE t.lHeight[m]
        /\ b[m] = IF Raised(t, k, m) \ {t.left[m]} # {} THEN t.rHeight[m] + 1 ELSE t.rHeight[m]
  OBVIOUS
<1> HIDE DEF a, b
<1>4. /\ TreeType(u) /\ u.root = t.root /\ u.left = t.left /\ u.right = t.right /\ u.parent = t.parent
      /\ u.freq = t.freq /\ u.lHeight = a /\ u.rHeight = b
  <2> HIDE DEF u
  <2> QED
    BY <1>1, <1>2 DEF TreeType
<1> QED
  BY <1>3, <1>4

(* addValue of a new key.                                                  *)
Added(t, k) ==
  [AdjustHeights(WithNode(t, k), k) EXCEPT !.root = IF t.root = None THEN k ELSE @]

LEMMA AddedOK ==
  ASSUME KeysOK, NEW t, TreeOK(t), NEW k \in Keys, k \notin Under(t, t.root)
  PROVE  /\ TreeOK(Added(t, k)) /\ Added(t, k).freq = [t.freq EXCEPT ![k] = 1]
         /\ Under(Added(t, k), Added(t, k).root) = Under(t, t.root) \cup {k}
<1> DEFINE u == WithNode(t, k)
           v == AdjustHeights(u, k)
           T == Added(t, k)
           p == ParentFor(t, k)
<1>1. Grafted(t, k, p, u)
  BY WithNodeIs
<1>2. /\ TreeType(v) /\ v.root = u.root /\ v.left = u.left /\ v.right = u.right /\ v.parent = u.parent
      /\ v.freq = u.freq
  BY <1>1, AdjustIs DEF Grafted
<1>3. T = [v EXCEPT !.root = IF t.root = None THEN k ELSE @]
  BY DEF Added
<1> HIDE DEF T, u, v, p
<1>4. /\ TreeType(T) /\ T.left = u.left /\ T.right = u.right /\ T.parent = u.parent
      /\ T.freq = [t.freq EXCEPT ![k] = 1]
      /\ T.root = IF t.root = None THEN k ELSE t.root
  BY <1>1, <1>2, <1>3 DEF TreeType, Grafted
<1>5. /\ TreeType(t) /\ t.root \in Keys \cup {None} /\ Under(t, t.root) \in SUBSET Keys /\ None \notin Keys
      /\ Pointers(t.left) /\ Pointers(t.right) /\ Pointers(t.parent) /\ Graph(Kids(t.left, t.right))
      /\ t.root = None => Under(t, t.root) = {}
      /\ t.root # None => t.root \in Under(t, t.root) /\ t.parent[t.root] = None
      /\ \A n \in Under(t, t.root) : t.freq[n] > 0
      /\ \A n \in Keys \ Under(t, t.root) : t.freq[n] = 0 /\ t.left[n] = None /\ t.right[n] = None
  BY TreeOKIs DEF TreeOK
<1>6. Shape(T) /\ \A y : Under(T, y) = Under(u, y)
  BY <1>1, <1>4, UnderIs DEF Grafted, Shape
<1>7. Under(T, T.root) = Under(t, t.root) \cup {k}
  <2>1. CASE t.root = None
    <3>1. T.root = k /\ Under(T, k) = Under(u, k) /\ p = None
      BY <1>1, <1>4, <1>6, <2>1 DEF Grafted
    <3>2. Under(u, k) = {k}
      <4>1. u.left[k] = None /\ u.right[k] = None /\ Graph(Kids(u.left, u.right)) /\ Kids(u.left, u.right)[k] = {u.left[k], u.right[k]} \ {None}
        BY <1>1, ForestGraph DEF Grafted, Shape
      <4>2. Below(Kids(u.left, u.right), k) = {k} \cup UNION {Below(Kids(u.left, u.right), c) : c \in Kids(u.left, u.right)[k]}
        BY <4>1, FirstLink
      <4> QED
        BY <4>1, <4>2, UnderIs
    <3> QED
      BY <1>5, <2>1, <3>1, <3>2
  <2>2. CASE t.root # None
    <3>1. T.root = t.root /\ Under(T, T.root) = Under(u, t.root) /\ p \in Under(t, t.root)
      BY <1>1, <1>4, <1>6, <2>2 DEF Grafted
    <3> QED
      BY <1>1, <1>5, <3>1 DEF Grafted
  <2> QED
    BY <2>1, <2>2
<1>8. T.root # None => T.parent[T.root] = None
  <2>1. CASE t.root = None
    BY <1>1, <1>4, <2>1 DEF Grafted
  <2>2. CASE t.root # None
    <3> SUFFICES ASSUME T.parent[t.root] # None PROVE FALSE
      BY <1>4, <2>2
    <3> DEFINE a == T.parent[t.root]
               f == Kids(t.left, t.right)
               g == Kids(T.left, T.right)
    <3>1. /\ a \in Keys /\ t.root \in g[a] /\ t.root \in Keys
          /\ \A y \in Keys : g[y] = {T.left[y], T.right[y]} \ {None} /\ f[y] = {t.left[y], t.right[y]} \ {None}
      <4>1. a \in Keys
        BY <1>4, <1>5, <2>2 DEF TreeType
      <4> QED
        BY <1>5, <1>6, <2>2, <4>1, ForestGraph DEF Shape, Forest, Linked, TreeOK
    <3>2. t.root # k /\ t.root \notin f[a]
      <4>1. t.parent[t.root] # a /\ Linked(t.left, t.right, t.parent)
        BY <1>5, <2>2, <3>1 DEF TreeOK, Shape, Forest
      <4> QED
        BY <1>5, <2>2, <3>1, <4>1 DEF Linked
    <3>3. T.left[a] \in {t.left[a], k} /\ T.right[a] \in {t.right[a], k}
      BY <1>1, <1>4, <1>5, <3>1 DEF Grafted, Pointers
    <3> HIDE DEF a, f, g
    <3> QED
      BY <3>1, <3>2, <3>3
  <2> QED
    BY <2>1, <2>2
<1>9. ASSUME NEW n \in Keys \ Under(T, T.root) PROVE T.freq[n] = 0 /\ T.left[n] = None /\ T.right[n] = None
  <2>1. n # k /\ n \notin Under(t, t.root)
    BY <1>7
  <2>2. n # p
    BY <1>1, <1>5, <2>1 DEF Grafted
  <2>3. T.left[n] = t.left[n] /\ T.right[n] = t.right[n]
    BY <1>1, <1>4, <1>5, <2>2 DEF Grafted, Pointers
  <2> QED
    BY <1>4, <1>5, <2>1, <2>3 DEF TreeType
<1>10. ASSUME NEW n \in Under(T, T.root) PROVE T.freq[n] > 0
  BY <1>4, <1>5, <1>7, <1>10 DEF TreeType
<1>11. TreeOK(T)
  BY <1>4, <1>6, <1>8, <1>9, <1>10 DEF TreeOK
<1> QED
  BY <1>4, <1>7, <1>11 DEF T
-----------------------------------------------------------------------------
LEMMA MaxIs ==
  ASSUME NEW a \in Nat, NEW b \in Nat
  PROVE  Max({a, b}) = IF a >= b THEN a ELSE b
<1> DEFINE m == IF a >= b THEN a ELSE b
<1>1. m \in {a, b} /\ \A y \in {a, b} : m >= y
  OBVIOUS
<1>2. \A x \in {a, b} : (\A y \in {a, b} : x >= y) => x = m
  OBVIOUS
<1> HIDE DEF m
<1>3. Max({a, b}) = CHOOSE x \in {a, b} : \A y \in {a, b} : x >= y
  BY DEF Max
<1>4. Max({a, b}) \in {a, b} /\ \A y \in {a, b} : Max({a, b}) >= y
  BY <1>1, <1>3
<1> QED
  BY <1>2, <1>4 DEF m

(* How high the tree below a pointer is, told from the heights of its node.*)
High(t, c) == IF c = None THEN 0 ELSE 1 + Max({t.lHeight[c], t.rHeight[c]})

(* While nodes are only added the heights of a node are those of its       *)
(* children.                                                               *)
HeightsOK(t) ==
  \A m \in Keys : t.lHeight[m] = High(t, t.left[m]) /\ t.rHeight[m] = High(t, t.right[m])

LEMMA HighIs ==
  ASSUME NEW t, TreeType(t), NEW c \in Keys \cup {None}
  PROVE  High(t, c) = (IF c = None THEN 0
                       ELSE 1 + (IF t.lHeight[c] >= t.rHeight[c] THEN t.lHeight[c] ELSE t.rHeight[c]))
BY MaxIs DEF High, TreeType

(* A node grows by one when adjust meets it.                               *)
LEMMA AddedHeights ==
  ASSUME KeysOK, NEW t, TreeOK(t), HeightsOK(t), NEW k \in Keys, k \notin Under(t, t.root)
  PROVE  HeightsOK(Added(t, k))
<1> DEFINE u == WithNode(t, k)
           v == AdjustHeights(u, k)
           T == Added(t, k)
           p == ParentFor(t, k)
           g == [m \in Keys |-> IF Grows(u, m) THEN {u.parent[m]} ELSE {}]
           M == Reached(g, {k})
<1>1. Grafted(t, k, p, u)
  BY WithNodeIs
<1> HIDE DEF u
<1>2. /\ TreeType(v) /\ v.root = u.root /\ v.left = u.left /\ v.right = u.right
      /\ \A m \in Keys :
           /\ v.lHeight[m] = IF u.left[m] \in Raised(u, k, m) THEN u.lHeight[m] + 1 ELSE u.lHeight[m]
           /\ v.rHeight[m] = IF Raised(u, k, m) \ {u.left[m]} # {} THEN u.rHeight[m] + 1 ELSE u.rHeight[m]
  <2>1. TreeType(u)
    BY <1>1 DEF Grafted
  <2>2. /\ TreeType(v) /\ v.root = u.root /\ v.left = u.left /\ v.right = u.right /\ v.parent = u.parent
        /\ v.freq = u.freq
        /\ \A m \in Keys :
             /\ v.lHeight[m] = IF u.left[m] \in Raised(u, k, m) THEN u.lHeight[m] + 1 ELSE u.lHeight[m]
             /\ v.rHeight[m] = IF Raised(u, k, m) \ {u.left[m]} # {} THEN u.rHeight[m] + 1 ELSE u.rHeight[m]
    BY <2>1, AdjustIs
  <2> HIDE DEF v
  <2> QED
    BY <2>2
<1>3. T = [v EXCEPT !.root = IF t.root = None THEN k ELSE @]
  BY DEF Added, u
<1>4. Notifying(u, k) = {m \in M : u.parent[m] # None}
  BY DEF Notifying
<1> HIDE DEF T, u, v, p
<1>5. /\ TreeType(T) /\ T.left = u.left /\ T.right = u.right
      /\ T.lHeight = v.lHeight /\ T.rHeight = v.rHeight
  BY <1>1, <1>2, <1>3 DEF TreeType, Grafted
<1>6. /\ TreeType(t) /\ TreeType(u) /\ None \notin Keys
      /\ Pointers(t.left) /\ Pointers(t.right) /\ t.left[k] = None /\ t.right[k] = None
      /\ u.left[k] = None /\ u.right[k] = None
  BY <1>1, TreeOKIs DEF Grafted, TreeOK
<1>7. /\ \A m \in Keys : /\ u.left[m] \in Keys \cup {None} /\ u.right[m] \in Keys \cup {None}
                         /\ u.parent[m] \in Keys \cup {None}
                         /\ u.left[m] # None => u.left[m] # u.right[m]
      /\ \A a, c \in Keys : u.parent[c] = a <=> c \in {u.left[a], u.right[a]}
  <2>1. Forest(u.left, u.right, u.parent)
    BY <1>1 DEF Grafted, Shape
  <2>2. /\ \A m \in Keys : Kids(u.left, u.right)[m] = {u.left[m], u.right[m]} \ {None}
        /\ \A m \in Keys : u.left[m] # None => u.left[m] # u.right[m]
    BY <2>1, ForestGraph
  <2> QED
    BY <1>6, <2>1, <2>2 DEF Forest, Linked, Pointers
<1>8. /\ Graph(g) /\ M \in SUBSET Keys /\ k \in M /\ ClosedUnder(g, M)
      /\ \A m \in M : m = k \/ \E c \in M : Grows(u, c) /\ u.parent[c] = m
  <2>1. \A m \in Keys : Grows(u, m) => u.parent[m] # None
    BY DEF Grows
  <2>2. Graph(g)
    BY <1>7, <2>1 DEF Graph
  <2>3. M = Below(g, k)
    BY <1>6 DEF Below, At
  <2>4. M \in SUBSET Keys /\ k \in M /\ ClosedUnder(g, M)
    BY <2>2, <2>3, BelowIs
  <2>5. ASSUME NEW m \in M, m # k PROVE \E c \in M : Grows(u, c) /\ u.parent[c] = m
    <3>1. PICK c \in M : m \in g[c]
      BY <2>2, <2>3, <2>5, LastLink
    <3>2. c \in Keys
      BY <2>4
    <3> QED
      BY <3>1, <3>2
  <2> QED
    BY <2>2, <2>4, <2>5
<1>9. ASSUME NEW c \in M, Grows(u, c) PROVE u.parent[c] \in M
  BY <1>8, <1>9 DEF ClosedUnder
<1> HIDE DEF g, M
<1>10. ASSUME NEW m \in Keys
       PROVE  /\ v.lHeight[m] = IF u.left[m] \in M THEN u.lHeight[m] + 1 ELSE u.lHeight[m]
              /\ v.rHeight[m] = IF u.right[m] \in M THEN u.rHeight[m] + 1 ELSE u.rHeight[m]
  <2>1. \A c \in Keys : c \in Raised(u, k, m) <=> c \in M /\ c \in {u.left[m], u.right[m]}
    BY <1>4, <1>6, <1>7 DEF Raised
  <2>2. Raised(u, k, m) \subseteq Keys
    BY <1>4, <1>8 DEF Raised
  <2>3. u.left[m] \in Raised(u, k, m) <=> u.left[m] \in M
    BY <1>7, <1>8, <2>1, <2>2
  <2>4. Raised(u, k, m) \ {u.left[m]} # {} <=> u.right[m] \in M
    BY <1>6, <1>7, <1>8, <2>1, <2>2
  <2> QED
    BY <1>2, <2>3, <2>4
<1>11. ASSUME NEW c \in Keys, NEW m \in Keys, u.parent[c] = m
       PROVE  Grows(u, c) <=> IF u.left[m] = c THEN u.lHeight[m] >= u.rHeight[m] ELSE u.rHeight[m] >= u.lHeight[m]
  BY <1>6, <1>11 DEF Grows
<1>12. ASSUME NEW m \in Keys, m # k PROVE High(v, m) = IF m \in M THEN High(u, m) + 1 ELSE High(u, m)
  <2>1. /\ u.lHeight[m] \in Nat /\ u.rHeight[m] \in Nat
        /\ High(u, m) = 1 + (IF u.lHeight[m] >= u.rHeight[m] THEN u.lHeight[m] ELSE u.rHeight[m])
        /\ High(v, m) = 1 + (IF v.lHeight[m] >= v.rHeight[m] THEN v.lHeight[m] ELSE v.rHeight[m])
    <3>1. m \in Keys \cup {None} /\ m # None
      BY <1>6
    <3>2. u.lHeight[m] \in Nat /\ u.rHeight[m] \in Nat
      BY <1>6 DEF TreeType
    <3>3. High(u, m) = (IF m = None THEN 0 ELSE 1 + (IF u.lHeight[m] >= u.rHeight[m] THEN u.lHeight[m] ELSE u.rHeight[m]))
      BY <1>6, <3>1, HighIs
    <3>4. High(v, m) = (IF m = None THEN 0 ELSE 1 + (IF v.lHeight[m] >= v.rHeight[m] THEN v.lHeight[m] ELSE v.rHeight[m]))
      BY <1>2, <3>1, HighIs
    <3> QED
      BY <3>1, <3>2, <3>3, <3>4
  <2>2. CASE m \in M
    <3>1. PICK c \in M : Grows(u, c) /\ u.parent[c] = m
      BY <1>8, <1>12, <2>2
    <3>2. c \in Keys /\ c \in {u.left[m], u.right[m]}
      BY <1>7, <1>8, <3>1
    <3>3. CASE c = u.left[m]
      <4>1. u.lHeight[m] >= u.rHeight[m]
        BY <1>11, <3>1, <3>2, <3>3
      <4> QED
        BY <1>10, <2>1, <2>2, <3>3, <4>1
    <3>4. CASE c # u.left[m]
      <4>1. u.rHeight[m] >= u.lHeight[m] /\ c = u.right[m]
        BY <1>11, <3>1, <3>2, <3>4
      <4> QED
        BY <1>10, <2>1, <2>2, <4>1
    <3> QED
      BY <3>3, <3>4
  <2>3. CASE m \notin M
    <3>1. ASSUME u.left[m] \in M PROVE ~(u.lHeight[m] >= u.rHeight[m])
      <4>1. u.left[m] \in Keys /\ u.parent[u.left[m]] = m
        BY <1>7, <1>8, <3>1
      <4>2. ~Grows(u, u.left[m])
        BY <1>9, <2>3, <3>1, <4>1
      <4> QED
        BY <1>11, <4>1, <4>2
    <3>2. ASSUME u.right[m] \in M PROVE ~(u.rHeight[m] >= u.lHeight[m])
      <4>1. u.right[m] \in Keys /\ u.parent[u.right[m]] = m
        BY <1>7, <1>8, <3>2
      <4>2. ~Grows(u, u.right[m])
        BY <1>9, <2>3, <3>2, <4>1
      <4>3. u.left[m] # u.right[m]
        BY <1>6, <1>7, <4>1
      <4> QED
        BY <1>11, <4>1, <4>2, <4>3
    <3> QED
      BY <1>10, <2>1, <2>3, <3>1, <3>2
  <2> QED
    BY <2>2, <2>3
<1>13. High(v, k) = 1
  <2>1. v.lHeight[k] = 0 /\ v.rHeight[k] = 0
    <3>1. u.lHeight[k] = 0 /\ u.rHeight[k] = 0 /\ None \notin M
      BY <1>1, <1>6, <1>8 DEF Grafted, TreeType
    <3> QED
      BY <1>6, <1>10, <3>1
  <2> QED
    BY <1>2, <2>1, <1>6, HighIs
<1>14. /\ t.lHeight = u.lHeight /\ t.rHeight = u.rHeight
       /\ \A c \in Keys \cup {None} : High(u, c) = High(t, c)
  <2>1. t.lHeight[k] = 0 /\ t.rHeight[k] = 0
    BY <1>6 DEF HeightsOK, High
  <2>2. t.lHeight = u.lHeight /\ t.rHeight = u.rHeight
    BY <1>1, <1>6, <2>1 DEF Grafted, TreeType
  <2> QED
    BY <2>2 DEF High
<1>15. ASSUME NEW c \in Keys \cup {None}, NEW d \in Keys \cup {None}, NEW h \in Nat,
              h = High(t, d), d # k, c = d \/ (d = None /\ c = k)
       PROVE  High(v, c) = IF c \in M THEN h + 1 ELSE h
  <2>1. CASE c = None
    BY <1>6, <1>8, <1>15, <2>1 DEF High
  <2>2. CASE c = k
    <3>1. h = 0
      BY <1>15, <2>2 DEF High
    <3> QED
      BY <1>8, <1>13, <2>2, <3>1
  <2>3. CASE c # None /\ c # k
    BY <1>12, <1>14, <1>15, <2>3
  <2> QED
    BY <2>1, <2>2, <2>3
<1>16. ASSUME NEW m \in Keys
       PROVE  /\ t.left[m] # k /\ t.right[m] # k
              /\ u.left[m] = t.left[m] \/ (t.left[m] = None /\ u.left[m] = k)
              /\ u.right[m] = t.right[m] \/ (t.right[m] = None /\ u.right[m] = k)
  <2>1. ASSUME k \in {t.left[m], t.right[m]} PROVE FALSE
    <3> DEFINE f == Kids(t.left, t.right)
    <3>1. Graph(f) /\ f[m] = {t.left[m], t.right[m]} \ {None} /\ t.root \in Keys \cup {None} /\ Under(t, t.root) = Below(f, t.root)
      BY TreeOKIs, UnderIs, ForestGraph DEF TreeOK, Shape
    <3>2. k \in f[m] /\ m \in Below(f, t.root)
      BY <1>6, <2>1, <3>1 DEF TreeOK
    <3> QED
      BY <3>1, <3>2, BelowBelow
  <2>2. u.left[m] = t.left[m] \/ (t.left[m] = None /\ u.left[m] = k)
    BY <1>1, <1>6 DEF Grafted, Pointers
  <2>3. u.right[m] = t.right[m] \/ (t.right[m] = None /\ u.right[m] = k)
    BY <1>1, <1>6 DEF Grafted, Pointers
  <2> QED
    BY <2>1, <2>2, <2>3
<1>17. ASSUME NEW m \in Keys PROVE T.lHeight[m] = High(T, T.left[m]) /\ T.rHeight[m] = High(T, T.right[m])
  <2>1. /\ u.lHeight[m] \in Nat /\ u.lHeight[m] = High(t, t.left[m])
        /\ u.rHeight[m] \in Nat /\ u.rHeight[m] = High(t, t.right[m])
        /\ t.left[m] \in Keys \cup {None} /\ t.right[m] \in Keys \cup {None}
    BY <1>6, <1>14 DEF HeightsOK, TreeType
  <2>2. High(v, u.left[m]) = IF u.left[m] \in M THEN u.lHeight[m] + 1 ELSE u.lHeight[m]
    BY <1>7, <1>15, <1>16, <2>1
  <2>3. High(v, u.right[m]) = IF u.right[m] \in M THEN u.rHeight[m] + 1 ELSE u.rHeight[m]
    BY <1>7, <1>15, <1>16, <2>1
  <2>4. \A c : High(T, c) = High(v, c)
    BY <1>5 DEF High
  <2> QED
    BY <1>5, <1>10, <2>2, <2>3, <2>4
<1> QED
  BY <1>17 DEF HeightsOK, T

(* The heights of the nodes are the heights of the subtrees.               *)
LEMMA HeightIs ==
  ASSUME KeysOK, NEW t, TreeOK(t), HeightsOK(t), NEW n \in Keys \cup {None}
  PROVE  Height(t, n) = High(t, n)
<1> DEFINE D == Keys \cup {None}
           IsH(h) == h = [m \in D |-> IF m = None THEN 0 ELSE 1 + Max({h[t.left[m]], h[t.right[m]]})]
           w == [m \in D |-> High(t, m)]
           h == CHOOSE h : IsH(h)
           f == Kids(t.left, t.right)
<1>1. /\ \A m \in Keys : t.left[m] \in D /\ t.right[m] \in D
      /\ Graph(f) /\ \A m \in Keys : f[m] = {t.left[m], t.right[m]} \ {None}
      /\ \A m \in Keys : \A c \in f[m] : m \notin Below(f, c)
      /\ None \notin Keys
  BY TreeOKIs, ForestGraph DEF TreeOK, Shape, Pointers
<1> HIDE DEF f
<1>2. \A m \in Keys : High(t, m) = 1 + Max({High(t, t.left[m]), High(t, t.right[m])})
  BY <1>1 DEF HeightsOK, High
<1>3. High(t, None) = 0
  BY DEF High
<1>4. IsH(w)
  <2>1. \A m \in D : High(t, m) = IF m = None THEN 0 ELSE 1 + Max({w[t.left[m]], w[t.right[m]]})
    BY <1>1, <1>2, <1>3
  <2> QED
    BY <2>1
<1>5. IsH(h)
  <2> HIDE DEF IsH, w
  <2> QED
    BY <1>4
<1>6. Height(t, n) = h[n]
  BY DEF Height
<1>7. h[None] = 0 /\ \A m \in Keys : h[m] = 1 + Max({h[t.left[m]], h[t.right[m]]})
  <2>1. \A m \in D : h[m] = IF m = None THEN 0 ELSE 1 + Max({h[t.left[m]], h[t.right[m]]})
    <3> HIDE DEF h
    <3> QED
      BY <1>5
  <2> QED
    BY <1>1, <2>1
<1> HIDE DEF h
<1> DEFINE B == {m \in Keys : h[m] # High(t, m)}
<1>8. ASSUME B # {} PROVE FALSE
  <2>1. PICK y \in B : f[y] \cap B = {}
    BY <1>1, <1>8, Lowest
  <2>2. \A c \in {t.left[y], t.right[y]} : h[c] = High(t, c)
    BY <1>1, <1>3, <1>7, <2>1
  <2> QED
    BY <1>2, <1>7, <2>1, <2>2
<1> QED
  BY <1>1, <1>3, <1>6, <1>7, <1>8
-----------------------------------------------------------------------------
(* The inductive invariant: the shape of the tree, the counters in terms   *)
(* of the frequencies of all keys, and the heights of neighbours.          *)
TInv ==
  /\ TreeOK(tree)
  /\ nodesCount = Cardinality(Nodes)
  /\ freqCount = SumOf(tree.freq, Keys)
  /\ grown => HeightsOK(tree)

LEMMA InitTInv == ASSUME KeysOK, Init PROVE TInv
<1> DEFINE f == Kids(tree.left, tree.right)
<1>1. /\ TreeType(tree) /\ tree.root = None /\ nodesCount = 0 /\ freqCount = 0
      /\ \A k \in Keys : /\ tree.left[k] = None /\ tree.right[k] = None /\ tree.parent[k] = None
                         /\ tree.freq[k] = 0 /\ tree.lHeight[k] = 0 /\ tree.rHeight[k] = 0
  BY DEF Init, All, TreeType
<1>2. Graph(f) /\ \A k \in Keys : f[k] = {}
  BY <1>1 DEF Kids, At, Graph
<1>3. Below(f, None) = {} /\ None \notin Keys
  BY <1>2, BelowNone DEF KeysOK
<1>4. Pointers(tree.left) /\ Pointers(tree.right) /\ Pointers(tree.parent)
  BY <1>1 DEF Pointers, TreeType
<1>5. Linked(tree.left, tree.right, tree.parent)
  <2> HIDE DEF f
  <2>1. \A a, c \in Keys : tree.parent[c] = a <=> c \in f[a]
    BY <1>1, <1>2, <1>3
  <2> QED
    BY <2>1 DEF Linked, f
<1>6. InOrder(tree.left, tree.right)
  BY <1>1, <1>3 DEF InOrder
<1>7. Nodes = {}
  BY <1>1, <1>3, UnderIs DEF Nodes
<1>8. TreeOK(tree)
  BY <1>1, <1>4, <1>5, <1>6, <1>7 DEF TreeOK, Shape, Forest, Nodes
<1>9. SumOf(tree.freq, Keys) = 0
  <2>1. tree.freq \in [Keys -> Int] /\ \A k \in Keys : tree.freq[k] = 0
    BY <1>1 DEF TreeType
  <2> QED
    BY <2>1, SumOfNothing DEF KeysOK
<1>10. HeightsOK(tree)
  BY <1>1 DEF HeightsOK, High
<1> QED
  BY <1>1, <1>7, <1>8, <1>9, <1>10, FS_EmptySet DEF TInv

(* What the invariant says of a key.                                       *)
LEMMA KeyIs ==
  ASSUME KeysOK, TInv
  PROVE  /\ Nodes \in SUBSET Keys /\ IsFiniteSet(Nodes) /\ IsFiniteSet(Keys)
         /\ nodesCount \in Nat /\ freqCount \in Int
         /\ tree.freq \in [Keys -> Nat] /\ TreeType(tree)
         /\ \A k \in Keys : /\ HasNode(tree, k) <=> k \in Nodes
                            /\ tree.freq[k] > 0 <=> k \in Nodes
<1>1. TreeOK(tree) /\ TreeType(tree) /\ tree.freq \in [Keys -> Nat]
  BY DEF TInv, TreeOK, TreeType
<1>2. Nodes \in SUBSET Keys /\ IsFiniteSet(Keys) /\ IsFiniteSet(Nodes)
  <2>1. Nodes \in SUBSET Keys
    BY <1>1, TreeOKIs DEF Nodes
  <2> QED
    BY <2>1, FS_Subset DEF KeysOK
<1>3. nodesCount \in Nat
  BY <1>2, FS_CardinalityType DEF TInv
<1>4. freqCount \in Int
  <2>1. tree.freq \in [Keys -> Int]
    BY <1>1
  <2> QED
    BY <1>2, <2>1, SumOfType DEF TInv
<1>5. \A k \in Keys : HasNode(tree, k) <=> k \in Nodes
  BY <1>1, SearchIs DEF Nodes
<1>6. \A k \in Keys : tree.freq[k] > 0 <=> k \in Nodes
  BY <1>1 DEF Nodes, TreeOK
<1> QED
  BY <1>1, <1>2, <1>3, <1>4, <1>5, <1>6

(* Another frequency for a node leaves the links as they are.              *)
Counted(t, k, e) == [t EXCEPT !.freq[k] = e]

LEMMA FreqOK ==
  ASSUME KeysOK, NEW t, TreeOK(t), NEW k \in Under(t, t.root), NEW e \in Nat, e > 0
  PROVE  /\ TreeOK(Counted(t, k, e)) /\ Counted(t, k, e).freq = [t.freq EXCEPT ![k] = e]
         /\ Under(Counted(t, k, e), Counted(t, k, e).root) = Under(t, t.root)
         /\ HeightsOK(t) => HeightsOK(Counted(t, k, e))
<1> DEFINE u == Counted(t, k, e)
<1>1. k \in Keys /\ TreeType(t)
  BY TreeOKIs DEF TreeOK
<1>2. /\ TreeType(u) /\ u.root = t.root /\ u.left = t.left /\ u.right = t.right /\ u.parent = t.parent
      /\ u.freq = [t.freq EXCEPT ![k] = e] /\ u.lHeight = t.lHeight /\ u.rHeight = t.rHeight
  BY <1>1 DEF TreeType, Counted
<1> HIDE DEF u
<1>3. Under(u, u.root) = Under(t, t.root)
  BY <1>2, UnderIs
<1>4. TreeOK(u)
  <2>1. \A n \in Keys : u.freq[n] = IF n = k THEN e ELSE t.freq[n]
    BY <1>1, <1>2 DEF TreeType
  <2>2. \A n \in Under(u, u.root) : n \in Keys
    BY <1>3, TreeOKIs
  <2> QED
    BY <1>2, <1>3, <2>1, <2>2 DEF TreeOK, Shape
<1>5. HeightsOK(t) => HeightsOK(u)
  BY <1>2 DEF HeightsOK, High
<1> QED
  BY <1>2, <1>3, <1>4, <1>5 DEF u

(* The counter of all frequencies follows one of them.                     *)
LEMMA FreqCounted ==
  ASSUME KeysOK, TInv, NEW k \in Keys, NEW e \in Nat,
         tree'.freq = [tree.freq EXCEPT ![k] = e],
         freqCount' = freqCount + (e - tree.freq[k])
  PROVE  freqCount' = SumOf(tree'.freq, Keys)
<1>1. tree.freq \in [Keys -> Int] /\ IsFiniteSet(Keys) /\ e \in Int
  BY KeyIs
<1>2. SumOf([tree.freq EXCEPT ![k] = e], Keys) = SumOf(tree.freq, Keys) + (e - tree.freq[k])
  BY <1>1, SumOfChange
<1> QED
  BY <1>2 DEF TInv

LEMMA RemovedStep ==
  ASSUME KeysOK, TInv, NEW k \in Keys, HasNode(tree, k), tree' = Removed(tree, k),
         nodesCount' = nodesCount - 1, freqCount' = freqCount - tree.freq[k], grown' = FALSE
  PROVE  TInv' /\ tree'.freq = [tree.freq EXCEPT ![k] = 0]
<1>1. k \in Under(tree, tree.root) /\ TreeOK(tree)
  BY KeyIs DEF Nodes, TInv
<1>2. /\ TreeOK(tree') /\ tree'.freq = [tree.freq EXCEPT ![k] = 0]
      /\ Under(tree', tree'.root) = Under(tree, tree.root) \ {k}
  BY <1>1, RemovedOK
<1>3. freqCount' = SumOf(tree'.freq, Keys)
  <2>1. freqCount' = freqCount + (0 - tree.freq[k])
    BY KeyIs
  <2> QED
    BY <1>2, <2>1, FreqCounted
<1>4. nodesCount' = Cardinality(Under(tree', tree'.root))
  <2>1. k \in Nodes /\ IsFiniteSet(Nodes) /\ nodesCount = Cardinality(Nodes)
    BY <1>1, KeyIs DEF TInv, Nodes
  <2>2. Cardinality(Nodes \ {k}) = Cardinality(Nodes) - 1
    BY <2>1, FS_RemoveElement
  <2> QED
    BY <1>2, <2>1, <2>2 DEF Nodes
<1> QED
  BY <1>2, <1>3, <1>4 DEF TInv, Nodes

LEMMA CountedStep ==
  ASSUME KeysOK, TInv, NEW k \in Keys, HasNode(tree, k), NEW e \in Nat, e > 0,
         tree' = [tree EXCEPT !.freq[k] = e], freqCount' = freqCount + (e - tree.freq[k]),
         UNCHANGED <<nodesCount, grown>>
  PROVE  TInv' /\ tree'.freq = [tree.freq EXCEPT ![k] = e]
<1>1. k \in Under(tree, tree.root) /\ TreeOK(tree)
  BY KeyIs DEF Nodes, TInv
<1>2. /\ TreeOK(tree') /\ tree'.freq = [tree.freq EXCEPT ![k] = e]
      /\ Under(tree', tree'.root) = Under(tree, tree.root)
      /\ HeightsOK(tree) => HeightsOK(tree')
  <2>1. tree' = Counted(tree, k, e)
    BY DEF Counted
  <2>2. /\ TreeOK(Counted(tree, k, e)) /\ Counted(tree, k, e).freq = [tree.freq EXCEPT ![k] = e]
        /\ Under(Counted(tree, k, e), Counted(tree, k, e).root) = Under(tree, tree.root)
        /\ HeightsOK(tree) => HeightsOK(Counted(tree, k, e))
    BY <1>1, FreqOK
  <2> QED
    BY <2>1, <2>2
<1>3. freqCount' = SumOf(tree'.freq, Keys)
  BY <1>2, FreqCounted
<1> QED
  BY <1>2, <1>3 DEF TInv, Nodes

LEMMA AddedStep ==
  ASSUME KeysOK, TInv, NEW k \in Keys, AddValue(k)
  PROVE  TInv' /\ tree'.freq = [tree.freq EXCEPT ![k] = tree.freq[k] + 1]
<1>1. tree.freq[k] \in Nat /\ freqCount \in Int
  BY KeyIs
<1>2. CASE HasNode(tree, k)
  <2>1. /\ tree' = [tree EXCEPT !.freq[k] = tree.freq[k] + 1]
        /\ freqCount' = freqCount + 1 /\ UNCHANGED <<nodesCount, grown>>
    BY <1>2, KeyIs DEF AddValue, AddValueBy, TreeType
  <2>2. /\ tree.freq[k] + 1 \in Nat /\ tree.freq[k] + 1 > 0
        /\ freqCount' = freqCount + ((tree.freq[k] + 1) - tree.freq[k])
    BY <1>1, <2>1
  <2> QED
    BY <1>2, <2>1, <2>2, CountedStep
<1>3. CASE ~HasNode(tree, k)
  <2>1. /\ tree' = Added(tree, k) /\ nodesCount' = nodesCount + 1 /\ freqCount' = freqCount + 1
        /\ UNCHANGED grown
    BY <1>3 DEF AddValue, AddValueBy, Added
  <2>2. k \notin Under(tree, tree.root) /\ TreeOK(tree) /\ tree.freq[k] = 0 /\ k \notin Nodes
    BY <1>1, <1>3, KeyIs DEF Nodes, TInv
  <2>3. /\ TreeOK(tree') /\ tree'.freq = [tree.freq EXCEPT ![k] = 1]
        /\ Under(tree', tree'.root) = Under(tree, tree.root) \cup {k}
    BY <2>1, <2>2, AddedOK
  <2>4. freqCount' = SumOf(tree'.freq, Keys)
    <3>1. freqCount' = freqCount + (1 - tree.freq[k])
      BY <1>1, <2>1, <2>2
    <3> QED
      BY <2>3, <3>1, FreqCounted
  <2>5. nodesCount' = Cardinality(Under(tree', tree'.root))
    <3>1. Cardinality(Nodes \cup {k}) = Cardinality(Nodes) + 1
      BY <2>2, KeyIs, FS_AddElement
    <3> QED
      BY <2>1, <2>3, <3>1 DEF Nodes, TInv
  <2>6. grown' => HeightsOK(tree')
    BY <2>1, <2>2, AddedHeights DEF TInv
  <2> QED
    BY <2>2, <2>3, <2>4, <2>5, <2>6 DEF TInv, Nodes
<1> QED
  BY <1>2, <1>3
-----------------------------------------------------------------------------
(* What the multiset has for the tree.                                     *)
Freq == [k \in Keys |-> IF HasNode(tree, k) THEN tree.freq[k] ELSE 0]

LEMMA FreqIsFreq == ASSUME KeysOK, TInv PROVE Freq = tree.freq
BY KeyIs DEF Freq

LEMMA StepRefines ==
  ASSUME KeysOK, TInv, [Next]_vars
  PROVE  TInv' /\ [Bag!Next]_<<Freq, result>>
<1>1. /\ tree.freq \in [Keys -> Nat] /\ Freq = tree.freq /\ freqCount \in Int
      /\ \A k \in Keys : HasNode(tree, k) <=> tree.freq[k] > 0
  BY KeyIs, FreqIsFreq
<1>2. ASSUME TInv' PROVE Freq' = tree'.freq
  <2>1. /\ tree'.freq \in [Keys -> Nat]
        /\ \A k \in Keys : HasNode(tree', k) <=> tree'.freq[k] > 0
    <3>1. TreeOK(tree')
      BY <1>2 DEF TInv
    <3>2. \A k \in Keys : HasNode(tree', k) <=> k \in Under(tree', tree'.root)
      BY <3>1, SearchIs
    <3> QED
      BY <3>1, <3>2 DEF TreeOK, TreeType
  <2> QED
    BY <2>1 DEF Freq
<1>3. ASSUME NEW k \in Keys, AddValue(k) PROVE TInv' /\ Bag!AddValue(k)
  <2>1. TInv' /\ tree'.freq = [tree.freq EXCEPT ![k] = tree.freq[k] + 1]
    BY <1>3, AddedStep
  <2>2. Freq' = [Freq EXCEPT ![k] = Freq[k] + 1] /\ result' = Freq'[k]
    BY <1>1, <1>2, <1>3, <2>1 DEF AddValue, AddValueBy
  <2> QED
    BY <2>1, <2>2 DEF Bag!AddValue, Freq
<1>4. ASSUME NEW k \in Keys, Absent(k) PROVE TInv' /\ Bag!DelValue(k) /\ Bag!RemoveValue(k)
  <2>1. UNCHANGED <<tree, nodesCount, freqCount, grown>> /\ result' = -1 /\ tree.freq[k] = 0
    BY <1>1, <1>4 DEF Absent
  <2>2. TInv'
    BY <2>1 DEF TInv, Nodes
  <2>3. Freq' = Freq /\ Freq[k] = 0
    BY <1>1, <1>2, <2>1, <2>2
  <2> QED
    BY <2>1, <2>2, <2>3 DEF Bag!DelValue, Bag!RemoveValue, Freq
<1>5. ASSUME NEW k \in Keys, RemoveValue(k), ~Absent(k) PROVE TInv' /\ Bag!RemoveValue(k)
  <2>1. /\ HasNode(tree, k) /\ tree' = Removed(tree, k) /\ nodesCount' = nodesCount - 1
        /\ freqCount' = freqCount - tree.freq[k] /\ result' = tree.freq[k] /\ grown' = FALSE
    BY <1>5 DEF RemoveValue
  <2>2. TInv' /\ tree'.freq = [tree.freq EXCEPT ![k] = 0]
    BY <2>1, RemovedStep
  <2>3. Freq' = [Freq EXCEPT ![k] = 0] /\ Freq[k] > 0 /\ result' = Freq[k]
    BY <1>1, <1>2, <2>1, <2>2
  <2> QED
    BY <2>2, <2>3 DEF Bag!RemoveValue, Freq
<1>6. ASSUME NEW k \in Keys, DelValue(k), ~Absent(k) PROVE TInv' /\ Bag!DelValue(k)
  <2>1. HasNode(tree, k) /\ freqCount' = freqCount - 1 /\ result' = tree.freq[k] - 1 /\ tree.freq[k] > 0
    BY <1>1, <1>6 DEF DelValue
  <2>2. TInv' /\ tree'.freq = [tree.freq EXCEPT ![k] = tree.freq[k] - 1]
    <3>1. CASE /\ tree.freq[k] = 1 /\ tree' = Removed(tree, k) /\ nodesCount' = nodesCount - 1
               /\ grown' = FALSE
      <4>1. TInv' /\ tree'.freq = [tree.freq EXCEPT ![k] = 0]
        BY <2>1, <3>1, RemovedStep
      <4> QED
        BY <3>1, <4>1
    <3>2. CASE /\ tree.freq[k] > 1 /\ tree' = [tree EXCEPT !.freq[k] = @ - 1]
               /\ UNCHANGED <<nodesCount, grown>>
      <4>1. tree' = [tree EXCEPT !.freq[k] = tree.freq[k] - 1]
        BY <3>2, KeyIs DEF TreeType
      <4>2. /\ tree.freq[k] - 1 \in Nat /\ tree.freq[k] - 1 > 0
            /\ freqCount' = freqCount + ((tree.freq[k] - 1) - tree.freq[k])
        BY <1>1, <2>1, <3>2
      <4> QED
        BY <2>1, <3>2, <4>1, <4>2, CountedStep
    <3> QED
      BY <1>6, <3>1, <3>2 DEF DelValue
  <2>3. Freq' = [Freq EXCEPT ![k] = Freq[k] - 1] /\ Freq[k] > 0 /\ result' = Freq'[k]
    BY <1>1, <1>2, <2>1, <2>2
  <2> QED
    BY <2>2, <2>3 DEF Bag!DelValue, Freq
<1>7. CASE UNCHANGED vars
  <2>1. UNCHANGED <<tree, nodesCount, freqCount, result, grown>>
    BY <1>7 DEF vars
  <2>2. TInv'
    BY <2>1 DEF TInv, Nodes
  <2> QED
    BY <1>1, <1>2, <2>1, <2>2
<1>8. ASSUME NEW k \in Keys, DelValue(k) \/ RemoveValue(k), Absent(k)
      PROVE  TInv' /\ Bag!DelValue(k)
  BY <1>4, <1>8
<1> QED
  BY <1>3, <1>5, <1>6, <1>7, <1>8 DEF Next, Bag!Next
-----------------------------------------------------------------------------
(* The child links of CBSTree make a forest in key order whose parent      *)
(* links, counters and heights are as described, after every call.         *)
THEOREM TreeCorrect == ASSUME KeysOK PROVE Spec => []TInv
<1>1. Init => TInv
  BY InitTInv
<1>2. TInv /\ [Next]_vars => TInv'
  BY StepRefines
<1> QED
  BY <1>1, <1>2, PTL DEF Spec

(* adjust and removeValue walk the parent links upwards: they are always   *)
(* the child links turned round, whatever removeValue rearranged.          *)
THEOREM LinksCorrect == ASSUME KeysOK PROVE Spec => []LinksAgree
<1>1. TInv => LinksAgree
  <2> SUFFICES ASSUME TInv PROVE LinksAgree
    OBVIOUS
  <2>1. /\ Nodes \in SUBSET Keys /\ Forest(tree.left, tree.right, tree.parent)
        /\ (tree.root # None => tree.parent[tree.root] = None)
    BY KeyIs DEF TInv, TreeOK, Shape
  <2>2. ASSUME NEW n \in Nodes, NEW c \in {tree.left[n], tree.right[n]} \ {None} PROVE tree.parent[c] = n
    <3>1. n \in Keys /\ c \in Kids(tree.left, tree.right)[n] /\ c \in Keys
      BY <2>1 DEF Forest, Pointers, Kids, At
    <3> QED
      BY <2>1, <3>1 DEF Forest, Linked
  <2> QED
    BY <2>1, <2>2 DEF LinksAgree
<1> QED
  BY <1>1, TreeCorrect, PTL

(* getNodeCount() and getFreqCount() are the nodes below the root and the  *)
(* sum of their frequencies, whatever mix of deletions came before.        *)
THEOREM CountsCorrect == ASSUME KeysOK PROVE Spec => []CountsAgree
<1>1. TInv => CountsAgree
  <2> SUFFICES ASSUME TInv PROVE CountsAgree
    OBVIOUS
  <2>1. /\ Nodes \in SUBSET Keys /\ IsFiniteSet(Keys) /\ tree.freq \in [Keys -> Nat]
        /\ \A k \in Keys : tree.freq[k] > 0 <=> k \in Nodes
    BY KeyIs
  <2>2. tree.freq \in [Keys -> Int] /\ \A k \in Keys \ Nodes : tree.freq[k] = 0
    BY <2>1
  <2>3. SumOf(tree.freq, Nodes) = SumOf(tree.freq, Keys)
    BY <2>1, <2>2, SumOfPart
  <2> QED
    BY <2>3 DEF TInv, CountsAgree, SumOf
<1> QED
  BY <1>1, TreeCorrect, PTL

(* While nodes are only added, adjust keeps the exact height of both       *)
(* subtrees of every node, although it stops as soon as a height stays.    *)
THEOREM HeightsCorrect == ASSUME KeysOK PROVE Spec => []HeightsExact
<1>1. TInv => HeightsExact
  <2> SUFFICES ASSUME TInv, grown, NEW n \in Nodes
               PROVE  /\ tree.lHeight[n] = Height(tree, tree.left[n])
                      /\ tree.rHeight[n] = Height(tree, tree.right[n])
    BY DEF HeightsExact
  <2>1. TreeOK(tree) /\ HeightsOK(tree) /\ n \in Keys
    BY KeyIs DEF TInv
  <2>2. tree.left[n] \in Keys \cup {None} /\ tree.right[n] \in Keys \cup {None}
    BY <2>1 DEF TreeOK, TreeType
  <2>3. /\ Height(tree, tree.left[n]) = High(tree, tree.left[n])
        /\ Height(tree, tree.right[n]) = High(tree, tree.right[n])
    BY <2>1, <2>2, HeightIs
  <2> QED
    BY <2>1, <2>3 DEF HeightsOK
<1> QED
  BY <1>1, TreeCorrect, PTL

(* CBSTree implements the multiset, for every finite set of keys: after    *)
(* any rearrangement the search finds exactly what was added and not       *)
(* deleted, and every call returns accordingly.                            *)
THEOREM Refinement == ASSUME KeysOK PROVE Spec => ImplementsBag
<1>1. Init => TInv /\ Bag!Init
  <2> SUFFICES ASSUME Init PROVE TInv /\ Bag!Init
    OBVIOUS
  <2>1. TInv /\ Freq = tree.freq
    BY InitTInv, FreqIsFreq
  <2>2. tree.freq = [k \in Keys |-> 0]
    BY DEF Init, All
  <2> QED
    BY <2>1, <2>2 DEF Init, Bag!Init, Freq
<1>2. TInv /\ [Next]_vars =>
        TInv' /\ [Bag!Next]_<<[k \in Keys |-> IF HasNode(tree, k) THEN tree.freq[k] ELSE 0], result>>
  BY StepRefines DEF Freq
<1> QED
  BY <1>1, <1>2, PTL DEF Spec, ImplementsBag, Bag!Spec
=============================================================================
