---------------------------- MODULE ArrayProofs ----------------------------
(***************************************************************************)
(* Proofs about the arrays of Containers: that CHeap, CTopNHeap and        *)
(* CSortArray are in the order their calls promise and lose no node, and   *)
(* that cycle and shift move every value as far as they are told.          *)
(***************************************************************************)
EXTENDS Containers, ListTheorems

(* Loops.                                                                  *)

(* What goes on from each number to the next, or to the one before, holds  *)
(* from one end of a range to the other.                                   *)
LEMMA Upward ==
  ASSUME NEW m \in Int, NEW n \in Int, NEW T, m \in T, \A i \in m .. n - 1 : i \in T => i + 1 \in T
  PROVE  \A i \in m .. n : i \in T
<1> DEFINE B == {j \in Nat : m + j <= n /\ m + j \notin T}
<1>1. SUFFICES ASSUME B # {} PROVE FALSE
  <2>1. SUFFICES ASSUME NEW i \in m .. n, i \notin T PROVE B # {}
    OBVIOUS
  <2>2. i - m \in B
    BY <2>1
  <2> QED
    BY <2>2
<1>2. PICK j \in B : \A p \in B : j <= p
  BY <1>1, LeastExists
<1>3. j # 0
  BY <1>2
<1>4. j - 1 \in Nat /\ j - 1 \notin B
  BY <1>2, <1>3
<1>5. m + (j - 1) \in m .. n - 1 /\ m + (j - 1) \in T
  BY <1>2, <1>3, <1>4
<1>6. m + (j - 1) + 1 = m + j
  BY <1>2
<1> QED
  BY <1>2, <1>5, <1>6

LEMMA Downward ==
  ASSUME NEW m \in Int, NEW n \in Int, NEW T, n \in T, \A i \in m .. n - 1 : i + 1 \in T => i \in T
  PROVE  \A i \in m .. n : i \in T
<1> DEFINE U == {i \in Int : m + n - i \in T}
<1>1. m \in U
  <2>1. m + n - m = n
    OBVIOUS
  <2> QED
    BY <2>1
<1>2. ASSUME NEW i \in m .. n - 1, i \in U PROVE i + 1 \in U
  <2>1. m + n - (i + 1) \in m .. n - 1 /\ m + n - (i + 1) + 1 = m + n - i
    OBVIOUS
  <2> QED
    BY <1>2, <2>1
<1> HIDE DEF U
<1>3. \A i \in m .. n : i \in U
  BY <1>1, <1>2, Upward
<1>4. ASSUME NEW i \in m .. n PROVE i \in T
  <2>1. m + n - i \in m .. n /\ m + n - (m + n - i) = i
    OBVIOUS
  <2> QED
    BY <1>3, <2>1 DEF U
<1> QED
  BY <1>4

(* The values of a loop that counts up from m, or down from n.             *)
CountsUp(f, m, n, x, F) == f = [i \in m .. n |-> IF i = m THEN x ELSE F[<<i - 1, f[i - 1]>>]]

CountsDown(f, m, n, x, F) == f = [i \in m .. n |-> IF i = n THEN x ELSE F[<<i, f[i + 1]>>]]

LEMMA UpExists ==
  ASSUME NEW m \in Int, NEW n \in Int, m <= n, NEW S, NEW x \in S, NEW F \in [(m .. n - 1) \X S -> S]
  PROVE  \E f \in [m .. n -> S] : CountsUp(f, m, n, x, F)
<1> DEFINE Part(g, j) == /\ g \in [m .. j -> S] /\ g[m] = x
                         /\ \A i \in m .. j - 1 : g[i + 1] = F[<<i, g[i]>>]
           T == {j \in m .. n : \E g : Part(g, j)}
<1>1. m \in T
  <2>1. Part([i \in m .. m |-> x], m)
    OBVIOUS
  <2>2. m \in m .. n
    OBVIOUS
  <2> HIDE DEF Part
  <2> QED
    BY <2>1, <2>2
<1>2. ASSUME NEW j \in m .. n - 1, j \in T PROVE j + 1 \in T
  <2>1. PICK g : Part(g, j)
    BY <1>2
  <2> DEFINE h == [i \in m .. j + 1 |-> IF i = j + 1 THEN F[<<j, g[j]>>] ELSE g[i]]
  <2>2. /\ g[j] \in S /\ <<j, g[j]>> \in (m .. n - 1) \X S /\ F[<<j, g[j]>>] \in S
    BY <2>1
  <2>3. h \in [m .. j + 1 -> S] /\ h[m] = x
    BY <2>1, <2>2
  <2>4. ASSUME NEW i \in m .. (j + 1) - 1 PROVE h[i + 1] = F[<<i, h[i]>>]
    <3>1. CASE i = j
      <4>1. j \in m .. j + 1 /\ j + 1 \in m .. j + 1 /\ j # j + 1
        OBVIOUS
      <4>2. h[j] = g[j] /\ h[j + 1] = F[<<j, g[j]>>]
        BY <4>1
      <4> QED
        BY <3>1, <4>2
    <3>2. CASE i # j
      <4>1. i \in m .. j - 1 /\ i + 1 \in m .. j /\ i + 1 # j + 1 /\ i # j + 1
        BY <3>2
      <4> QED
        BY <2>1, <4>1
    <3> QED
      BY <3>1, <3>2
  <2>5. Part(h, j + 1)
    BY <2>3, <2>4
  <2>6. j + 1 \in m .. n
    OBVIOUS
  <2> HIDE DEF h, Part
  <2> QED
    BY <2>5, <2>6
<1>3. n \in T
  <2> HIDE DEF T
  <2>1. \A i \in m .. n : i \in T
    BY <1>1, <1>2, Upward
  <2> QED
    BY <2>1
<1>4. PICK g : Part(g, n)
  BY <1>3
<1>5. ASSUME NEW i \in m .. n PROVE g[i] = IF i = m THEN x ELSE F[<<i - 1, g[i - 1]>>]
  <2>1. CASE i = m
    BY <1>4, <2>1
  <2>2. CASE i # m
    <3>1. i - 1 \in m .. n - 1 /\ (i - 1) + 1 = i
      BY <2>2
    <3>2. g[(i - 1) + 1] = F[<<i - 1, g[i - 1]>>]
      BY <1>4, <3>1
    <3> QED
      BY <2>2, <3>1, <3>2
  <2> QED
    BY <2>1, <2>2
<1>6. CountsUp(g, m, n, x, F)
  BY <1>4, <1>5 DEF CountsUp
<1> QED
  BY <1>4, <1>6

LEMMA DownExists ==
  ASSUME NEW m \in Int, NEW n \in Int, m <= n, NEW S, NEW x \in S, NEW F \in [(m .. n - 1) \X S -> S]
  PROVE  \E f \in [m .. n -> S] : CountsDown(f, m, n, x, F)
<1> DEFINE Part(g, j) == /\ g \in [j .. n -> S] /\ g[n] = x
                         /\ \A i \in j .. n - 1 : g[i] = F[<<i, g[i + 1]>>]
           T == {j \in m .. n : \E g : Part(g, j)}
<1>1. n \in T
  <2>1. Part([i \in n .. n |-> x], n)
    OBVIOUS
  <2>2. n \in m .. n
    OBVIOUS
  <2> HIDE DEF Part
  <2> QED
    BY <2>1, <2>2
<1>2. ASSUME NEW j \in m .. n - 1, j + 1 \in T PROVE j \in T
  <2>1. PICK g : Part(g, j + 1)
    BY <1>2
  <2> DEFINE h == [i \in j .. n |-> IF i = j THEN F[<<j, g[j + 1]>>] ELSE g[i]]
  <2>2. /\ g[j + 1] \in S /\ <<j, g[j + 1]>> \in (m .. n - 1) \X S /\ F[<<j, g[j + 1]>>] \in S
    BY <2>1
  <2>3. h \in [j .. n -> S] /\ h[n] = x
    BY <2>1, <2>2
  <2>4. ASSUME NEW i \in j .. n - 1 PROVE h[i] = F[<<i, h[i + 1]>>]
    <3>1. i + 1 \in j .. n /\ i + 1 # j /\ i \in j .. n
      OBVIOUS
    <3>2. h[i + 1] = g[i + 1]
      BY <3>1
    <3>3. CASE i = j
      BY <3>1, <3>2, <3>3
    <3>4. CASE i # j
      <4>1. i \in j + 1 .. n - 1
        BY <3>4
      <4>2. g[i] = F[<<i, g[i + 1]>>]
        BY <2>1, <4>1
      <4>3. h[i] = g[i]
        BY <3>1, <3>4
      <4> QED
        BY <3>2, <4>2, <4>3
    <3> QED
      BY <3>3, <3>4
  <2>5. Part(h, j)
    BY <2>3, <2>4
  <2>6. j \in m .. n
    OBVIOUS
  <2> HIDE DEF h, Part
  <2> QED
    BY <2>5, <2>6
<1>3. m \in T
  <2> HIDE DEF T
  <2>1. \A i \in m .. n : i \in T
    BY <1>1, <1>2, Downward
  <2> QED
    BY <2>1
<1>4. PICK g : Part(g, m)
  BY <1>3
<1>5. ASSUME NEW i \in m .. n PROVE g[i] = IF i = n THEN x ELSE F[<<i, g[i + 1]>>]
  <2>1. i # n => i \in m .. n - 1
    OBVIOUS
  <2> QED
    BY <1>4, <2>1
<1>6. CountsDown(g, m, n, x, F)
  BY <1>4, <1>5 DEF CountsDown
<1> QED
  BY <1>4, <1>6
-----------------------------------------------------------------------------
(* Rearrangements.                                                         *)

(* The places among the first n where a has v.                             *)
Places(a, n, v) == {i \in 0 .. n - 1 : a[i] = v}

CountIn(a, n, v) == Cardinality(Places(a, n, v))

LEMMA PlacesFinite ==
  ASSUME NEW a, NEW n \in Nat, NEW v
  PROVE  IsFiniteSet(Places(a, n, v)) /\ CountIn(a, n, v) \in Nat
<1>1. IsFiniteSet(0 .. n - 1)
  BY FS_Interval
<1>2. IsFiniteSet(Places(a, n, v))
  BY <1>1, FS_Subset DEF Places
<1> QED
  BY <1>2, FS_CardinalityType DEF CountIn

(* Sets of which one is the other, place by place, are of the same size.   *)
PlaceByPlace(p, S, T) ==
  /\ p \in [S -> T]
  /\ \A x, y \in S : p[x] = p[y] => x = y
  /\ \A y \in T : \E x \in S : p[x] = y

LEMMA SameSize ==
  ASSUME NEW S, NEW T, NEW p, IsFiniteSet(S), PlaceByPlace(p, S, T)
  PROVE  IsFiniteSet(T) /\ Cardinality(T) = Cardinality(S)
<1>1. p \in Bijection(S, T)
  BY DEF PlaceByPlace, Bijection, Injection, Surjection, IsInjective
<1> QED
  BY <1>1, FS_Bijection DEF ExistsBijection

(* Places that are exchanged in pairs hold as many of each value.          *)
InPairs(a, b, n, s) ==
  /\ s \in [0 .. n - 1 -> 0 .. n - 1]
  /\ \A x \in 0 .. n - 1 : s[s[x]] = x /\ b[x] = a[s[x]]

LEMMA PairsCount ==
  ASSUME NEW a, NEW b, NEW n \in Nat, NEW s, InPairs(a, b, n, s)
  PROVE  \A v : CountIn(b, n, v) = CountIn(a, n, v)
<1> SUFFICES ASSUME NEW v PROVE CountIn(b, n, v) = CountIn(a, n, v)
  OBVIOUS
<1> DEFINE S == Places(a, n, v)
           T == Places(b, n, v)
           t == [x \in S |-> s[x]]
<1>0. /\ s \in [0 .. n - 1 -> 0 .. n - 1]
      /\ \A x \in 0 .. n - 1 : s[s[x]] = x /\ b[x] = a[s[x]]
  BY DEF InPairs
<1>1. \A x \in 0 .. n - 1 : s[x] \in 0 .. n - 1 /\ b[s[x]] = a[x]
  BY <1>0
<1>2. t \in [S -> T]
  BY <1>1 DEF Places
<1>3. \A x, y \in S : t[x] = t[y] => x = y
  <2>1. \A x \in S : x \in 0 .. n - 1 /\ t[x] = s[x]
    BY DEF Places
  <2>2. \A x \in 0 .. n - 1 : s[s[x]] = x
    BY <1>0
  <2> HIDE DEF t, S
  <2> QED
    BY <2>1, <2>2
<1>4. \A y \in T : \E x \in S : t[x] = y
  <2>1. ASSUME NEW y \in T PROVE s[y] \in S /\ t[s[y]] = y
    <3>1. y \in 0 .. n - 1 /\ b[y] = v
      BY DEF Places
    <3>2. s[y] \in 0 .. n - 1 /\ a[s[y]] = b[y] /\ s[s[y]] = y
      BY <1>0, <3>1
    <3>3. s[y] \in S
      BY <3>1, <3>2 DEF Places
    <3>4. t[s[y]] = s[s[y]]
      BY <3>3
    <3> QED
      BY <3>2, <3>3, <3>4
  <2> QED
    BY <2>1
<1>5. IsFiniteSet(S)
  BY PlacesFinite
<1> HIDE DEF S, T, t
<1>6. Cardinality(T) = Cardinality(S)
  <2>1. PlaceByPlace(t, S, T)
    BY <1>2, <1>3, <1>4 DEF PlaceByPlace
  <2> QED
    BY <1>5, <2>1, SameSize
<1> QED
  BY <1>6 DEF CountIn, S, T

(* b is a with the nodes from l to r in another order, where l .. r lies   *)
(* among the first n.                                                      *)
Rearranged(a, b, n, l, r) ==
  /\ \A i \in DOMAIN a : i \notin l .. r => b[i] = a[i]
  /\ \A i \in l .. r : \E j \in l .. r : b[i] = a[j]
  /\ \A v : CountIn(b, n, v) = CountIn(a, n, v)

LEMMA NotRearranged ==
  ASSUME NEW a, NEW n, NEW l, NEW r
  PROVE  Rearranged(a, a, n, l, r)
BY DEF Rearranged

LEMMA RearrangedAgain ==
  ASSUME NEW a, NEW b, NEW c, NEW n, NEW l, NEW r, DOMAIN b = DOMAIN a,
         Rearranged(a, b, n, l, r), Rearranged(b, c, n, l, r)
  PROVE  Rearranged(a, c, n, l, r)
<1>1. \A i \in DOMAIN a : i \notin l .. r => c[i] = a[i]
  BY DEF Rearranged
<1>2. ASSUME NEW i \in l .. r PROVE \E j \in l .. r : c[i] = a[j]
  BY DEF Rearranged
<1>3. \A v : CountIn(c, n, v) = CountIn(a, n, v)
  BY DEF Rearranged
<1> QED
  BY <1>1, <1>2, <1>3 DEF Rearranged

LEMMA RearrangedWithin ==
  ASSUME NEW a, NEW b, NEW n, NEW l, NEW r, NEW k, NEW m, Rearranged(a, b, n, l, r),
         l .. r \subseteq k .. m, k .. m \subseteq DOMAIN a
  PROVE  Rearranged(a, b, n, k, m)
BY DEF Rearranged

Exchanged(a, p, q) == [a EXCEPT ![p] = a[q], ![q] = a[p]]

IsExchange(a, b, N, p, q) ==
  /\ b \in [0 .. N -> Int]
  /\ b[p] = a[q] /\ b[q] = a[p]
  /\ \A x \in 0 .. N : x # p /\ x # q => b[x] = a[x]

LEMMA ExchangedIs ==
  ASSUME NEW N \in Int, NEW a \in [0 .. N -> Int], NEW p \in 0 .. N, NEW q \in 0 .. N
  PROVE  IsExchange(a, Exchanged(a, p, q), N, p, q)
BY DEF Exchanged, IsExchange

LEMMA Exchange ==
  ASSUME NEW N \in Int, NEW a \in [0 .. N -> Int], NEW n \in Nat, n - 1 <= N,
         NEW l \in Int, NEW r \in Int, 0 <= l, r <= n - 1, NEW p \in l .. r, NEW q \in l .. r
  PROVE  Rearranged(a, Exchanged(a, p, q), n, l, r)
<1> DEFINE b == Exchanged(a, p, q)
           s == [x \in 0 .. n - 1 |-> IF x = p THEN q ELSE IF x = q THEN p ELSE x]
<1>1. p \in 0 .. n - 1 /\ q \in 0 .. n - 1 /\ 0 .. n - 1 \subseteq 0 .. N /\ p \in 0 .. N /\ q \in 0 .. N
  OBVIOUS
<1>2. IsExchange(a, b, N, p, q)
  <2>1. p \in 0 .. N /\ q \in 0 .. N
    BY <1>1
  <2> QED
    BY <2>1, ExchangedIs
<1> HIDE DEF b
<1> USE <1>2 DEF IsExchange
<1>3. \A v : CountIn(b, n, v) = CountIn(a, n, v)
  <2>1. s \in [0 .. n - 1 -> 0 .. n - 1]
    BY <1>1
  <2>2. \A x \in 0 .. n - 1 : s[s[x]] = x /\ b[x] = a[s[x]]
    BY <1>1, <1>2
  <2> HIDE DEF s
  <2>3. InPairs(a, b, n, s)
    BY <2>1, <2>2 DEF InPairs
  <2> QED
    BY <2>3, PairsCount
<1>4. \A i \in DOMAIN a : i \notin l .. r => b[i] = a[i]
  BY <1>2
<1>5. \A i \in l .. r : \E j \in l .. r : b[i] = a[j]
  BY <1>1, <1>2
<1> QED
  BY <1>3, <1>4, <1>5 DEF Rearranged, b

(* What lies behind the first n stays there.                               *)
LEMMA RearrangedOfMore ==
  ASSUME NEW N \in Int, NEW a \in [0 .. N -> Int], NEW b, NEW n \in Nat, NEW m \in Nat, n <= m, m - 1 <= N,
         Rearranged(a, b, n, 0, n - 1)
  PROVE  Rearranged(a, b, m, 0, m - 1)
<1>1. \A i \in n .. m - 1 : b[i] = a[i]
  BY DEF Rearranged
<1>2. ASSUME NEW v PROVE CountIn(b, m, v) = CountIn(a, m, v)
  <2> DEFINE R == {i \in n .. m - 1 : a[i] = v}
  <2>1. Places(a, m, v) = Places(a, n, v) \cup R /\ Places(a, n, v) \cap R = {}
    BY DEF Places
  <2>2. Places(b, m, v) = Places(b, n, v) \cup R /\ Places(b, n, v) \cap R = {}
    BY <1>1 DEF Places
  <2>3. IsFiniteSet(R)
    <3>1. IsFiniteSet(n .. m - 1)
      BY FS_Interval
    <3> QED
      BY <3>1, FS_Subset
  <2>4. IsFiniteSet(Places(a, n, v)) /\ IsFiniteSet(Places(b, n, v))
    BY PlacesFinite
  <2>5. Cardinality(Places(b, n, v)) = Cardinality(Places(a, n, v))
    BY DEF Rearranged, CountIn
  <2> HIDE DEF R
  <2>6. Cardinality(Places(a, m, v)) = Cardinality(Places(a, n, v)) + Cardinality(R) - Cardinality({})
    <3> DEFINE A == Places(a, n, v)
    <3>1. Places(a, m, v) = A \cup R /\ A \cap R = {} /\ IsFiniteSet(A)
      BY <2>1, <2>4
    <3> HIDE DEF A
    <3>2. Cardinality(A \cup R) = Cardinality(A) + Cardinality(R) - Cardinality(A \cap R)
      BY <2>3, <3>1, FS_Union
    <3> QED
      BY <3>1, <3>2 DEF A
  <2>7. Cardinality(Places(b, m, v)) = Cardinality(Places(b, n, v)) + Cardinality(R) - Cardinality({})
    <3> DEFINE B == Places(b, n, v)
    <3>1. Places(b, m, v) = B \cup R /\ B \cap R = {} /\ IsFiniteSet(B)
      BY <2>2, <2>4
    <3> HIDE DEF B
    <3>2. Cardinality(B \cup R) = Cardinality(B) + Cardinality(R) - Cardinality(B \cap R)
      BY <2>3, <3>1, FS_Union
    <3> QED
      BY <3>1, <3>2 DEF B
  <2> QED
    BY <2>5, <2>6, <2>7 DEF CountIn
<1>3. \A i \in DOMAIN a : i \notin 0 .. m - 1 => b[i] = a[i]
  BY DEF Rearranged
<1>4. \A i \in 0 .. m - 1 : \E j \in 0 .. m - 1 : b[i] = a[j]
  <2>1. ASSUME NEW i \in 0 .. n - 1 PROVE \E j \in 0 .. m - 1 : b[i] = a[j]
    <3>1. \E j \in 0 .. n - 1 : b[i] = a[j]
      BY DEF Rearranged
    <3> QED
      BY <3>1
  <2>2. ASSUME NEW i \in n .. m - 1 PROVE \E j \in 0 .. m - 1 : b[i] = a[j]
    BY <1>1
  <2>3. \A i \in 0 .. m - 1 : i \in 0 .. n - 1 \/ i \in n .. m - 1
    OBVIOUS
  <2> QED
    BY <2>1, <2>2, <2>3
<1> QED
  BY <1>2, <1>3, <1>4 DEF Rearranged
-----------------------------------------------------------------------------
(* The parent of a node of a heap.                                         *)
LEMMA ParentIs ==
  ASSUME NEW c \in Nat \ {0}
  PROVE  \E p \in Nat : p = (c - 1) \div 2 /\ p < c /\ c \in {2 * p + 1, 2 * p + 2}
<1> DEFINE p == (c - 1) \div 2
<1>1. p \in Nat /\ p < c /\ c \in {2 * p + 1, 2 * p + 2}
  OBVIOUS
<1> QED
  BY <1>1
-----------------------------------------------------------------------------
(* CHeap: one node sinks.                                                  *)

IsBefore(max, x, y) == Heap!Before(max, x, y)

(* Being before is an order of all integers.                               *)
LEMMA BeforeOrder ==
  ASSUME NEW max \in BOOLEAN, NEW x \in Int, NEW y \in Int, NEW z \in Int
  PROVE  /\ ~ IsBefore(max, x, x)
         /\ IsBefore(max, x, y) => ~ IsBefore(max, y, x)
         /\ ~ IsBefore(max, x, y) /\ ~ IsBefore(max, y, z) => ~ IsBefore(max, x, z)
BY DEF IsBefore, Heap!Before

(* Of the first n nodes, those from i on have no child before them.        *)
KidsBehind(a, n, max, p, q) ==
  \A c \in {2 * q + 1, 2 * q + 2} : c < n => ~ IsBefore(max, a[c], a[p])

HeapFrom(a, n, i, max) == \A p \in Nat : i <= p => KidsBehind(a, n, max, p, p)

(* While a node sinks from i, h being its place after k calls.             *)
Sinking(a, n, max, i, h, k) ==
  /\ h \in i .. n - 1
  /\ \A p \in Nat : i <= p /\ p # h => KidsBehind(a, n, max, p, p)
  /\ \A p \in Nat : i <= p /\ h \in {2 * p + 1, 2 * p + 2} => KidsBehind(a, n, max, p, h)
  /\ KidsBehind(a, n, max, h, h) \/ i + k <= h

SinksTo(a, s, N, n, max, i, k) ==
  /\ s = <<s[1], s[2]>>
  /\ s[1] \in [0 .. N -> Int] /\ s[2] \in 0 .. n - 1
  /\ Sinking(s[1], n, max, i, s[2], k)
  /\ Rearranged(a, s[1], n, 0, n - 1)

LEMMA SunkIs ==
  ASSUME NEW N \in Int, NEW a \in [0 .. N -> Int], NEW n \in Nat, n - 1 <= N,
         NEW max \in BOOLEAN, NEW i \in Nat, NEW h \in Nat, NEW k \in Nat, Sinking(a, n, max, i, h, k)
  PROVE  SinksTo(a, Heap!Sunk(<<a, h>>, n, max), N, n, max, i, k + 1)
<1> DEFINE s == Heap!Sunk(<<a, h>>, n, max)
           left == 2 * h + 1
           child == IF left + 1 <= n - 1 /\ IsBefore(max, a[left + 1], a[left]) THEN left + 1 ELSE left
<1>1. s = IF left > n - 1 \/ ~ IsBefore(max, a[child], a[h]) THEN <<a, h>>
          ELSE <<Exchanged(a, h, child), child>>
  BY DEF Heap!Sunk, Heap!ExchangeNodes, Exchanged, IsBefore
<1>2. h \in i .. n - 1 /\ h \in 0 .. n - 1 /\ h \in 0 .. N
  BY DEF Sinking
<1>3. CASE left > n - 1 \/ ~ IsBefore(max, a[child], a[h])
  <2>1. s[1] = a /\ s[2] = h /\ s = <<a, h>>
    BY <1>1, <1>3
  <2>2. KidsBehind(a, n, max, h, h)
    <3>1. CASE left > n - 1
      BY <3>1 DEF KidsBehind
    <3>2. CASE left <= n - 1 /\ ~ IsBefore(max, a[child], a[h])
      <4>1. left \in 0 .. N /\ a[left] \in Int /\ a[h] \in Int
        BY <1>2, <3>2
      <4>2. CASE left + 1 <= n - 1
        <5>1. left + 1 \in 0 .. N /\ a[left + 1] \in Int
          BY <4>2
        <5>2. ~ IsBefore(max, a[left], a[h]) /\ ~ IsBefore(max, a[left + 1], a[h])
          BY <3>2, <4>1, <4>2, <5>1, BeforeOrder
        <5>3. 2 * h + 2 = left + 1
          OBVIOUS
        <5> QED
          BY <5>2, <5>3 DEF KidsBehind
      <4>3. CASE left + 1 > n - 1
        <5>1. child = left /\ ~ (2 * h + 2 < n)
          BY <4>3
        <5> QED
          BY <3>2, <5>1 DEF KidsBehind
      <4> QED
        BY <1>2, <4>2, <4>3
    <3> QED
      BY <1>2, <1>3, <3>1, <3>2
  <2>3. Sinking(a, n, max, i, h, k + 1)
    BY <2>2 DEF Sinking
  <2> QED
    BY <1>2, <2>1, <2>3, NotRearranged DEF SinksTo
<1>4. CASE left <= n - 1 /\ IsBefore(max, a[child], a[h])
  <2> DEFINE b == Exchanged(a, h, child)
  <2>1. s[1] = b /\ s[2] = child /\ s = <<b, child>>
    BY <1>1, <1>4
  <2>2. child \in {left, left + 1} /\ child \in 0 .. n - 1 /\ child \in 0 .. N /\ child > h /\ child \in Nat
    BY <1>2, <1>4
  <2>3. /\ b \in [0 .. N -> Int] /\ b[h] = a[child] /\ b[child] = a[h]
        /\ \A x \in 0 .. N : x # h /\ x # child => b[x] = a[x]
    <3> HIDE DEF child
    <3>1. IsExchange(a, b, N, h, child)
      BY <1>2, <2>2, ExchangedIs
    <3> QED
      BY <3>1 DEF IsExchange
  <2>4. Rearranged(a, b, n, 0, n - 1)
    <3>1. 0 \in Int /\ n - 1 \in Int /\ 0 <= 0 /\ n - 1 <= n - 1
      OBVIOUS
    <3> QED
      BY <1>2, <2>2, <3>1, Exchange
  <2>5. \A c \in {left, left + 1} : c < n => ~ IsBefore(max, a[c], a[child])
    <3>1. a[left] \in Int /\ (left + 1 < n => a[left + 1] \in Int)
      BY <1>2, <1>4
    <3>2. n - 1 \in Int /\ (left + 1 < n <=> left + 1 <= n - 1)
      OBVIOUS
    <3> QED
      BY <3>1, <3>2, BeforeOrder
  <2>6. \A p \in Nat, q \in Nat : q \in {2 * p + 1, 2 * p + 2} /\ q \in {2 * h + 1, 2 * h + 2} => p = h
    BY <1>2
  <2> HIDE DEF b, child, left
  <2>7. ~ IsBefore(max, a[h], a[child])
    BY <1>2, <1>4, <2>2, BeforeOrder
  <2>8. child \in {2 * h + 1, 2 * h + 2} /\ \A c \in {2 * h + 1, 2 * h + 2} : c < n => ~ IsBefore(max, a[c], a[child])
    BY <2>2, <2>5 DEF left
  <2>9. ASSUME NEW p \in Nat, i <= p, p # child PROVE KidsBehind(b, n, max, p, p)
    <3>1. SUFFICES ASSUME NEW c \in {2 * p + 1, 2 * p + 2}, c < n PROVE ~ IsBefore(max, b[c], b[p])
      BY DEF KidsBehind
    <3>2. c \in 0 .. N /\ p \in 0 .. N /\ c \in Nat
      BY <3>1
    <3>3. CASE p = h
      <4>1. CASE c = child
        BY <2>3, <2>7, <3>3, <4>1
      <4>2. CASE c # child
        <5>1. b[c] = a[c]
          BY <2>3, <3>1, <3>2, <3>3, <4>2
        <5> QED
          BY <2>3, <2>8, <3>1, <3>3, <5>1
      <4> QED
        BY <4>1, <4>2
    <3>4. CASE p # h
      <4>1. b[p] = a[p]
        BY <2>3, <2>9, <3>2, <3>4
      <4>2. c # child
        BY <2>6, <2>8, <3>1, <3>2, <3>4
      <4>3. ~ IsBefore(max, a[c], a[p])
        BY <2>9, <3>1, <3>4 DEF Sinking, KidsBehind
      <4>4. CASE c = h
        <5>1. KidsBehind(a, n, max, p, h)
          BY <2>9, <3>1, <4>4 DEF Sinking
        <5>2. child < n
          BY <2>2
        <5>3. ~ IsBefore(max, a[child], a[p])
          BY <2>8, <5>1, <5>2 DEF KidsBehind
        <5> QED
          BY <2>3, <4>1, <4>4, <5>3
      <4>5. CASE c # h
        <5>1. b[c] = a[c]
          BY <2>3, <3>2, <4>2, <4>5
        <5> QED
          BY <4>1, <4>3, <5>1
      <4> QED
        BY <4>4, <4>5
    <3> QED
      BY <3>3, <3>4
  <2>10. ASSUME NEW p \in Nat, i <= p, child \in {2 * p + 1, 2 * p + 2} PROVE KidsBehind(b, n, max, p, child)
    <3>1. p = h
      BY <2>2, <2>6, <2>8, <2>10
    <3>2. SUFFICES ASSUME NEW c \in {2 * child + 1, 2 * child + 2}, c < n PROVE ~ IsBefore(max, b[c], b[h])
      BY <3>1 DEF KidsBehind
    <3>3. c \in 0 .. N /\ c # child /\ c # h
      BY <1>2, <2>2, <3>2
    <3>4. KidsBehind(a, n, max, child, child)
      <4>1. i <= child /\ child # h
        BY <1>2, <2>2
      <4> QED
        BY <2>2, <4>1 DEF Sinking
    <3>5. ~ IsBefore(max, a[c], a[child])
      BY <3>2, <3>4 DEF KidsBehind
    <3> QED
      BY <2>3, <3>3, <3>5
  <2>11. i + (k + 1) <= child
    <3>1. KidsBehind(a, n, max, h, h) => FALSE
      <4>1. child < n
        BY <2>2
      <4> QED
        BY <1>4, <2>8, <4>1 DEF KidsBehind
    <3>2. i + k <= h
      BY <3>1 DEF Sinking
    <3> QED
      BY <1>2, <2>2, <3>2
  <2>12. child \in i .. n - 1
    BY <1>2, <2>2
  <2>13. Sinking(b, n, max, i, child, k + 1)
    BY <2>9, <2>10, <2>11, <2>12 DEF Sinking
  <2> QED
    BY <2>1, <2>2, <2>3, <2>4, <2>13 DEF SinksTo
<1>5. left > n - 1 \/ left <= n - 1
  OBVIOUS
<1> QED
  BY <1>3, <1>4, <1>5

LEMMA SunkType ==
  ASSUME NEW N \in Int, NEW n \in Nat, n - 1 <= N, NEW max,
         NEW s \in [0 .. N -> Int] \X (0 .. n - 1)
  PROVE  Heap!Sunk(s, n, max) \in [0 .. N -> Int] \X (0 .. n - 1)
<1> DEFINE a == s[1]
           h == s[2]
           left == 2 * h + 1
           child == IF left + 1 <= n - 1 /\ IsBefore(max, a[left + 1], a[left]) THEN left + 1 ELSE left
<1>1. Heap!Sunk(s, n, max) = IF left > n - 1 \/ ~ IsBefore(max, a[child], a[h]) THEN s
                             ELSE <<Exchanged(a, h, child), child>>
  BY DEF Heap!Sunk, Heap!ExchangeNodes, Exchanged, IsBefore
<1>2. CASE left > n - 1 \/ ~ IsBefore(max, a[child], a[h])
  BY <1>1, <1>2
<1>3. CASE ~ (left > n - 1 \/ ~ IsBefore(max, a[child], a[h]))
  <2>1. h \in 0 .. n - 1 /\ h \in 0 .. N /\ a \in [0 .. N -> Int]
    OBVIOUS
  <2>2. child \in 0 .. n - 1 /\ child \in 0 .. N
    <3> HIDE DEF a, h
    <3>1. left \in Nat
      BY <2>1
    <3>2. child = left \/ (child = left + 1 /\ left + 1 <= n - 1)
      OBVIOUS
    <3> HIDE DEF child
    <3>3. left <= n - 1
      BY <1>3, <3>1
    <3> HIDE DEF left
    <3> QED
      BY <3>1, <3>2, <3>3
  <2> HIDE DEF child, a, h
  <2>3. Exchanged(a, h, child) \in [0 .. N -> Int]
    BY <2>1, <2>2, ExchangedIs DEF IsExchange
  <2> QED
    BY <1>1, <1>3, <2>2, <2>3
<1> QED
  BY <1>2, <1>3

(* The calls of maxOrMinHeap for one node.                                 *)
SiftRun(f, a, N, n, i, max) ==
  /\ f \in [0 .. n -> [0 .. N -> Int] \X (0 .. n - 1)]
  /\ Heap!Sift(a, n, i, max) = f[n][1]
  /\ f[0] = <<a, i>>
  /\ \A k \in 0 .. n - 1 : f[k + 1] = Heap!Sunk(f[k], n, max)

LEMMA SiftLoop ==
  ASSUME NEW N \in Int, NEW a \in [0 .. N -> Int], NEW n \in Nat, n - 1 <= N,
         NEW max, NEW i \in 0 .. n - 1
  PROVE  \E f : SiftRun(f, a, N, n, i, max)
<1> DEFINE S == [0 .. N -> Int] \X (0 .. n - 1)
           Step(s) == Heap!Sunk(s, n, max)
           Loop(f) == f = [k \in 0 .. n |-> IF k = 0 THEN <<a, i>> ELSE Step(f[k - 1])]
           sunk == CHOOSE f : Loop(f)
           F == [q \in (0 .. n - 1) \X S |-> Step(q[2])]
<1>1. Heap!Sift(a, n, i, max) = sunk[n][1] /\ 0 \in Int /\ n \in Int /\ 0 <= n
  BY DEF Heap!Sift
<1>2. <<a, i>> \in S /\ \A s \in S : Step(s) \in S
  BY SunkType
<1>3. F \in [(0 .. n - 1) \X S -> S]
  BY <1>2
<1>4. Loop(sunk)
  <2> HIDE DEF S, Step, F
  <2>1. PICK f \in [0 .. n -> S] : CountsUp(f, 0, n, <<a, i>>, F)
    BY <1>1, <1>2, <1>3, UpExists
  <2>2. \A k \in 0 .. n : k # 0 => F[<<k - 1, f[k - 1]>>] = Step(f[k - 1])
    <3>1. ASSUME NEW k \in 0 .. n, k # 0 PROVE <<k - 1, f[k - 1]>> \in (0 .. n - 1) \X S
      <4>1. k - 1 \in 0 .. n - 1 /\ k - 1 \in 0 .. n
        BY <3>1
      <4> QED
        BY <4>1
    <3> QED
      BY <3>1 DEF F
  <2>3. Loop(f)
    BY <2>1, <2>2 DEF CountsUp
  <2> QED
    BY <2>3
<1> HIDE DEF sunk
<1>5. sunk[0] = <<a, i>> /\ \A k \in 0 .. n - 1 : sunk[k + 1] = Step(sunk[k])
  <2>1. ASSUME NEW k \in 0 .. n - 1 PROVE sunk[k + 1] = Step(sunk[k])
    <3>1. k + 1 \in 0 .. n /\ k + 1 # 0 /\ (k + 1) - 1 = k
      OBVIOUS
    <3> HIDE DEF Step
    <3> QED
      BY <1>4, <3>1
  <2> HIDE DEF Step
  <2>2. 0 \in 0 .. n
    OBVIOUS
  <2> QED
    BY <1>4, <2>1, <2>2
<1>6. sunk \in [0 .. n -> S]
  <2> DEFINE T == {k \in 0 .. n : sunk[k] \in S}
  <2> HIDE DEF S, Step
  <2>1. 0 \in T /\ \A k \in 0 .. n - 1 : k \in T => k + 1 \in T
    <3>1. 0 \in 0 .. n /\ \A k \in 0 .. n - 1 : k + 1 \in 0 .. n
      OBVIOUS
    <3> QED
      BY <1>2, <1>5, <3>1
  <2> HIDE DEF T
  <2>2. \A k \in 0 .. n : k \in T
    BY <1>1, <2>1, Upward
  <2> QED
    BY <1>4, <2>2 DEF T
<1> QED
  BY <1>1, <1>5, <1>6 DEF SiftRun

LEMMA SiftType ==
  ASSUME NEW N \in Int, NEW a \in [0 .. N -> Int], NEW n \in Nat, n - 1 <= N,
         NEW max, NEW i \in 0 .. n - 1
  PROVE  Heap!Sift(a, n, i, max) \in [0 .. N -> Int]
<1>1. PICK f : SiftRun(f, a, N, n, i, max)
  BY SiftLoop
<1>2. n \in 0 .. n
  OBVIOUS
<1>3. f[n] \in [0 .. N -> Int] \X (0 .. n - 1)
  BY <1>1, <1>2 DEF SiftRun
<1> QED
  BY <1>1, <1>3 DEF SiftRun

(* When there are no calls left, the node has come to rest.                *)
SiftsTo(a, b, N, n, i, max) ==
  b \in [0 .. N -> Int] /\ HeapFrom(b, n, i, max) /\ Rearranged(a, b, n, 0, n - 1)

LEMMA SiftIs ==
  ASSUME NEW N \in Int, NEW a \in [0 .. N -> Int], NEW n \in Nat, n - 1 <= N,
         NEW max \in BOOLEAN, NEW i \in 0 .. n - 1, HeapFrom(a, n, i + 1, max)
  PROVE  SiftsTo(a, Heap!Sift(a, n, i, max), N, n, i, max)
<1> DEFINE S == [0 .. N -> Int] \X (0 .. n - 1)
<1>0. 0 \in Int /\ n \in Int /\ 0 <= n
  OBVIOUS
<1>1. PICK sunk : SiftRun(sunk, a, N, n, i, max)
  BY SiftLoop
<1> USE DEF SiftRun
<1> DEFINE Good(s, k) == /\ s \in S
                         /\ Sinking(s[1], n, max, i, s[2], k)
                         /\ Rearranged(a, s[1], n, 0, n - 1)
           T == {k \in 0 .. n : Good(sunk[k], k)}
<1>6. 0 \in T
  <2>1. Sinking(a, n, max, i, i, 0)
    <3>1. \A p \in Nat : i <= p /\ p # i => KidsBehind(a, n, max, p, p)
      BY DEF HeapFrom
    <3>2. ASSUME NEW p \in Nat, i <= p PROVE i \notin {2 * p + 1, 2 * p + 2}
      BY <3>2
    <3>3. i \in i .. n - 1 /\ i + 0 <= i
      OBVIOUS
    <3> QED
      BY <3>1, <3>2, <3>3 DEF Sinking
  <2>2. 0 \in 0 .. n /\ sunk[0] \in S /\ sunk[0][1] = a /\ sunk[0][2] = i
    BY <1>1
  <2> HIDE DEF S
  <2> QED
    BY <2>1, <2>2, NotRearranged
<1>7. ASSUME NEW k \in 0 .. n - 1, k \in T PROVE k + 1 \in T
  <2> DEFINE b == sunk[k][1]
             h == sunk[k][2]
             t == sunk[k + 1]
  <2>1. sunk[k] = <<b, h>> /\ b \in [0 .. N -> Int] /\ h \in Nat /\ Sinking(b, n, max, i, h, k)
        /\ Rearranged(a, b, n, 0, n - 1)
    BY <1>7
  <2>2. t = Heap!Sunk(<<b, h>>, n, max)
    BY <1>1, <2>1
  <2>3. i \in Nat /\ k \in Nat
    OBVIOUS
  <2> HIDE DEF b, h, t
  <2>4. SinksTo(b, t, N, n, max, i, k + 1)
    BY <2>1, <2>2, <2>3, SunkIs
  <2>5. Rearranged(a, t[1], n, 0, n - 1)
    BY <2>1, <2>4, RearrangedAgain DEF SinksTo
  <2>6. t \in S
    BY <2>4 DEF SinksTo
  <2> HIDE DEF S
  <2>7. Good(t, k + 1) /\ k + 1 \in 0 .. n
    BY <2>4, <2>5, <2>6 DEF SinksTo
  <2> QED
    BY <2>7 DEF t
<1>8. Good(sunk[n], n)
  <2> HIDE DEF T, Good
  <2>1. \A k \in 0 .. n : k \in T
    BY <1>0, <1>6, <1>7, Upward
  <2> QED
    BY <2>1 DEF T
<1> DEFINE b == sunk[n][1]
           h == sunk[n][2]
<1>9. b \in [0 .. N -> Int] /\ Sinking(b, n, max, i, h, n) /\ Rearranged(a, b, n, 0, n - 1)
  BY <1>8
<1> HIDE DEF b, h
<1>10. KidsBehind(b, n, max, h, h)
  BY <1>9 DEF Sinking
<1>11. HeapFrom(b, n, i, max)
  BY <1>9, <1>10 DEF Sinking, HeapFrom
<1> QED
  BY <1>1, <1>9, <1>11 DEF b, SiftsTo

(* The node at the root is the first of a heap.                            *)
LEMMA RootFirst ==
  ASSUME NEW N \in Int, NEW a \in [0 .. N -> Int], NEW n \in Nat, n - 1 <= N,
         NEW max \in BOOLEAN, HeapFrom(a, n, 0, max), NEW x \in 0 .. n - 1
  PROVE  ~ IsBefore(max, a[x], a[0])
<1> DEFINE B == {y \in 0 .. n - 1 : IsBefore(max, a[y], a[0])}
<1>1. SUFFICES ASSUME B # {} PROVE FALSE
  OBVIOUS
<1>2. PICK c \in B : \A y \in B : c <= y
  <2>1. B \in SUBSET Nat
    OBVIOUS
  <2> QED
    BY <1>1, <2>1, LeastExists
<1>3. c \in 0 .. n - 1 /\ c \in 0 .. N /\ 0 \in 0 .. N /\ a[c] \in Int /\ a[0] \in Int /\ IsBefore(max, a[c], a[0])
  OBVIOUS
<1>4. c # 0
  BY <1>3, BeforeOrder
<1>5. PICK p \in Nat : p < c /\ c \in {2 * p + 1, 2 * p + 2}
  <2>1. c \in Nat \ {0}
    BY <1>3, <1>4
  <2> QED
    BY <2>1, ParentIs
<1>6. p \in 0 .. n - 1 /\ p \in 0 .. N /\ a[p] \in Int /\ ~ IsBefore(max, a[p], a[0])
  BY <1>2, <1>3, <1>5
<1>7. ~ IsBefore(max, a[c], a[p])
  <2>1. 0 <= p /\ c < n
    BY <1>3, <1>5
  <2> QED
    BY <1>5, <2>1 DEF HeapFrom, KidsBehind
<1> QED
  BY <1>3, <1>6, <1>7, BeforeOrder

(* createMaxHeap and createMinHeap.                                        *)
LEMMA CreateHeapIs ==
  ASSUME NEW N \in Int, NEW a \in [0 .. N -> Int], NEW n \in Nat, n - 1 <= N, NEW max \in BOOLEAN
  PROVE  SiftsTo(a, Heap!CreateHeap(a, n, max), N, n, 0, max)
<1> DEFINE S == [0 .. N -> Int]
           m == n \div 2
           Step(b, i) == Heap!Sift(b, n, i, max)
           Loop(f) == f = [i \in 0 .. m |-> IF i = m THEN a ELSE Step(f[i + 1], i)]
           made == CHOOSE f : Loop(f)
           F == [q \in (0 .. m - 1) \X S |-> Step(q[2], q[1])]
           T == {i \in 0 .. m : SiftsTo(a, made[i], N, n, i, max)}
<1>1. Heap!CreateHeap(a, n, max) = made[0]
  BY DEF Heap!CreateHeap
<1>2. m \in Nat /\ m \in Int /\ 0 <= m /\ m <= n /\ n < 2 * m + 2 /\ 0 \in Int /\ 0 .. m - 1 \subseteq 0 .. n - 1
  OBVIOUS
<1> HIDE DEF m
<1>3. F \in [(0 .. m - 1) \X S -> S]
  BY <1>2, SiftType
<1>4. Loop(made)
  <2> HIDE DEF S, Step, F
  <2>1. a \in S
    BY DEF S
  <2>2. PICK f \in [0 .. m -> S] : CountsDown(f, 0, m, a, F)
    BY <1>2, <1>3, <2>1, DownExists
  <2>3. \A i \in 0 .. m : i # m => F[<<i, f[i + 1]>>] = Step(f[i + 1], i)
    <3>1. ASSUME NEW i \in 0 .. m, i # m PROVE <<i, f[i + 1]>> \in (0 .. m - 1) \X S
      <4>1. i + 1 \in 0 .. m /\ i \in 0 .. m - 1
        BY <1>2, <3>1
      <4> QED
        BY <4>1
    <3> QED
      BY <3>1 DEF F
  <2>4. Loop(f)
    BY <2>2, <2>3 DEF CountsDown
  <2> QED
    BY <2>4
<1> HIDE DEF made
<1>5. made[m] = a /\ \A i \in 0 .. m - 1 : made[i] = Step(made[i + 1], i)
  <2>1. m \in 0 .. m /\ \A i \in 0 .. m - 1 : i \in 0 .. m /\ i # m
    BY <1>2
  <2> HIDE DEF Step
  <2> QED
    BY <1>4, <2>1
<1>6. m \in T
  <2>1. HeapFrom(a, n, m, max)
    BY <1>2 DEF HeapFrom, KidsBehind
  <2> QED
    BY <1>2, <1>5, <2>1, NotRearranged DEF SiftsTo
<1>7. ASSUME NEW i \in 0 .. m - 1, i + 1 \in T PROVE i \in T
  <2> DEFINE b == made[i + 1]
             c == made[i]
  <2>1. SiftsTo(a, b, N, n, i + 1, max) /\ c = Heap!Sift(b, n, i, max) /\ i \in 0 .. n - 1 /\ i \in 0 .. m
    BY <1>2, <1>5, <1>7
  <2> HIDE DEF b, c
  <2>2. SiftsTo(b, c, N, n, i, max)
    BY <2>1, SiftIs DEF SiftsTo
  <2>3. SiftsTo(a, c, N, n, i, max)
    BY <2>1, <2>2, RearrangedAgain DEF SiftsTo
  <2> QED
    BY <2>1, <2>3 DEF c
<1> HIDE DEF T
<1>8. \A i \in 0 .. m : i \in T
  BY <1>2, <1>6, <1>7, Downward
<1>9. 0 \in T
  BY <1>2, <1>8
<1> QED
  BY <1>1, <1>9 DEF T

(* A heap that gets another node at its root is one but for that.          *)
LEMMA RootReplaced ==
  ASSUME NEW N \in Int, NEW a \in [0 .. N -> Int], NEW n \in Nat, n - 1 <= N, NEW max \in BOOLEAN,
         HeapFrom(a, n, 0, max), NEW b, \A x \in 1 .. n - 1 : b[x] = a[x]
  PROVE  HeapFrom(b, n, 1, max)
<1> SUFFICES ASSUME NEW p \in Nat, 1 <= p, NEW c \in {2 * p + 1, 2 * p + 2}, c < n
             PROVE  ~ IsBefore(max, b[c], b[p])
  BY DEF HeapFrom, KidsBehind
<1>1. c \in 1 .. n - 1 /\ p \in 1 .. n - 1 /\ 0 <= p
  OBVIOUS
<1>2. ~ IsBefore(max, a[c], a[p])
  BY <1>1 DEF HeapFrom, KidsBehind
<1> QED
  BY <1>1, <1>2

LEMMA HeapOfFewer ==
  ASSUME NEW a, NEW n \in Nat, NEW m \in Nat, n <= m, NEW i, NEW max, HeapFrom(a, m, i, max)
  PROVE  HeapFrom(a, n, i, max)
<1> SUFFICES ASSUME NEW p \in Nat, i <= p, NEW c \in {2 * p + 1, 2 * p + 2}, c < n
             PROVE  ~ IsBefore(max, a[c], a[p])
  BY DEF HeapFrom, KidsBehind
<1>1. c < m
  OBVIOUS
<1> QED
  BY <1>1 DEF HeapFrom, KidsBehind

(* sortHeap: the greatest of the heap goes behind it.                      *)
Ascends(b, n) == \A x, y \in 0 .. n - 1 : x < y => b[x] <= b[y]

Sorting(a, d, N, n, i) ==
  /\ d \in [0 .. N -> Int]
  /\ HeapFrom(d, i, 0, TRUE)
  /\ \A x \in i .. n - 1 : \A y \in 0 .. x : d[y] <= d[x]
  /\ Rearranged(a, d, n, 0, n - 1)

LEMMA SortStep ==
  ASSUME NEW N \in Int, NEW a \in [0 .. N -> Int], NEW n \in Nat, n - 1 <= N,
         NEW i \in 1 .. n - 1, NEW d, Sorting(a, d, N, n, i + 1)
  PROVE  Sorting(a, Heap!Sift(Exchanged(d, i, 0), i, 0, TRUE), N, n, i)
<1> DEFINE b == Exchanged(d, i, 0)
           e == Heap!Sift(b, i, 0, TRUE)
<1>1. d \in [0 .. N -> Int] /\ i \in 0 .. N /\ 0 \in 0 .. N /\ i \in Nat /\ i - 1 <= N /\ 0 \in 0 .. i - 1
  BY DEF Sorting
<1>2. IsExchange(d, b, N, i, 0)
  BY <1>1, ExchangedIs
<1>3. Rearranged(d, b, n, 0, n - 1)
  <2>1. 0 \in Int /\ n - 1 \in Int /\ 0 <= 0 /\ n - 1 <= n - 1 /\ i \in 0 .. n - 1 /\ 0 \in 0 .. n - 1
    OBVIOUS
  <2> QED
    BY <1>1, <2>1, Exchange
<1> HIDE DEF b
<1>4. SiftsTo(b, e, N, i, 0, TRUE)
  <2>1. HeapFrom(b, i, 0 + 1, TRUE)
    <3>1. HeapFrom(d, i, 0, TRUE)
      <4>1. i + 1 \in Nat /\ i <= i + 1
        BY <1>1
      <4>2. HeapFrom(d, i + 1, 0, TRUE)
        BY DEF Sorting
      <4> QED
        BY <1>1, <4>1, <4>2, HeapOfFewer
    <3>2. \A x \in 1 .. i - 1 : b[x] = d[x]
      BY <1>1, <1>2 DEF IsExchange
    <3>3. TRUE \in BOOLEAN /\ 0 + 1 = 1
      OBVIOUS
    <3> QED
      BY <1>1, <3>1, <3>2, <3>3, RootReplaced
  <2>2. b \in [0 .. N -> Int]
    BY <1>2 DEF IsExchange
  <2> QED
    BY <1>1, <2>1, <2>2, SiftIs
<1> HIDE DEF e
<1>5. Rearranged(b, e, n, 0, n - 1)
  <2>1. b \in [0 .. N -> Int] /\ i <= n
    BY <1>2 DEF IsExchange
  <2> QED
    BY <1>1, <1>4, <2>1, RearrangedOfMore DEF SiftsTo
<1>6. Rearranged(a, e, n, 0, n - 1)
  <2>1. DOMAIN d = DOMAIN a /\ DOMAIN b = DOMAIN a
    BY <1>1, <1>2 DEF IsExchange
  <2>2. Rearranged(a, d, n, 0, n - 1)
    BY DEF Sorting
  <2>3. Rearranged(a, b, n, 0, n - 1)
    BY <1>3, <2>1, <2>2, RearrangedAgain
  <2> QED
    BY <1>5, <2>1, <2>3, RearrangedAgain
<1>7. \A y \in 0 .. i : d[y] <= d[0]
  <2>1. i + 1 \in Nat /\ (i + 1) - 1 <= N /\ (i + 1) - 1 = i /\ TRUE \in BOOLEAN
    BY <1>1
  <2>2. HeapFrom(d, i + 1, 0, TRUE)
    BY DEF Sorting
  <2>4. \A y \in 0 .. (i + 1) - 1 : ~ IsBefore(TRUE, d[y], d[0])
    BY <1>1, <2>1, <2>2, RootFirst
  <2>3. \A y \in 0 .. i : y \in 0 .. N /\ d[y] \in Int /\ d[0] \in Int
    BY <1>1
  <2> QED
    BY <2>1, <2>3, <2>4 DEF IsBefore, Heap!Before
<1>8. \A y \in 0 .. i : \E z \in 0 .. i : e[y] = d[z]
  <2>1. ASSUME NEW y \in 0 .. i - 1 PROVE \E z \in 0 .. i : b[y] = d[z]
    <3>1. CASE y = 0
      BY <1>1, <1>2, <3>1 DEF IsExchange
    <3>2. CASE y # 0
      <4>1. y \in 0 .. N /\ y # i /\ y \in 0 .. i
        BY <1>1
      <4> QED
        BY <1>2, <3>2, <4>1 DEF IsExchange
    <3> QED
      BY <3>1, <3>2
  <2>2. ASSUME NEW y \in 0 .. i - 1 PROVE \E z \in 0 .. i : e[y] = d[z]
    <3>1. PICK w \in 0 .. i - 1 : e[y] = b[w]
      BY <1>4 DEF SiftsTo, Rearranged
    <3> QED
      BY <2>1, <3>1
  <2>3. e[i] = b[i]
    BY <1>1, <1>2, <1>4 DEF SiftsTo, Rearranged, IsExchange
  <2>4. e[i] = d[0] /\ 0 \in 0 .. i
    BY <1>1, <1>2, <2>3 DEF IsExchange
  <2>5. \A y \in 0 .. i : y \in 0 .. i - 1 \/ y = i
    BY <1>1
  <2> QED
    BY <2>2, <2>4, <2>5
<1>9. e[i] = d[0] /\ \A x \in i + 1 .. n - 1 : e[x] = d[x]
  <2>1. \A x \in i .. n - 1 : e[x] = b[x]
    BY <1>1, <1>2, <1>4 DEF SiftsTo, Rearranged, IsExchange
  <2> QED
    BY <1>1, <1>2, <2>1 DEF IsExchange
<1>10. ASSUME NEW x \in i .. n - 1, NEW y \in 0 .. x PROVE e[y] <= e[x]
  <2>1. CASE x = i
    <3>1. PICK z \in 0 .. i : e[y] = d[z]
      BY <1>8, <2>1
    <3> QED
      BY <1>7, <1>9, <2>1, <3>1
  <2>2. CASE x # i
    <3>1. x \in i + 1 .. n - 1 /\ e[x] = d[x] /\ \A z \in 0 .. x : d[z] <= d[x]
      BY <1>9, <2>2 DEF Sorting
    <3>2. CASE y <= i
      <4>3. y \in 0 .. i
        BY <1>1, <3>2
      <4>1. PICK z \in 0 .. i : e[y] = d[z]
        BY <1>8, <4>3
      <4>2. z \in 0 .. x
        BY <2>2
      <4> QED
        BY <3>1, <4>1, <4>2
    <3>3. CASE ~ (y <= i)
      <4>1. y \in i + 1 .. n - 1
        BY <3>3
      <4> QED
        BY <1>9, <3>1, <4>1
    <3> QED
      BY <3>2, <3>3
  <2> QED
    BY <2>1, <2>2
<1> QED
  BY <1>4, <1>6, <1>10 DEF Sorting, SiftsTo, e, b

LEMMA SortDownIs ==
  ASSUME NEW N \in Int, NEW a \in [0 .. N -> Int], NEW n \in Nat, n - 1 <= N, HeapFrom(a, n, 0, TRUE)
  PROVE  LET b == Heap!SortDown(a, n) IN
           b \in [0 .. N -> Int] /\ Ascends(b, n) /\ Rearranged(a, b, n, 0, n - 1)
<1> DEFINE S == [0 .. N -> Int]
           Step(d, i) == Heap!Sift(Exchanged(d, i, 0), i, 0, TRUE)
           Loop(f) == f = [i \in 1 .. n |-> IF i = n THEN a ELSE Step(f[i + 1], i)]
           done == CHOOSE f : Loop(f)
           F == [q \in (1 .. n - 1) \X S |-> Step(q[2], q[1])]
           T == {i \in 1 .. n : Sorting(a, done[i], N, n, i)}
<1>1. Heap!SortDown(a, n) = IF n = 0 THEN a ELSE done[1]
  BY DEF Heap!SortDown, Heap!ExchangeNodes, Exchanged
<1>2. CASE n = 0
  BY <1>1, <1>2, NotRearranged DEF Ascends
<1>3. CASE n # 0
  <2>1. 1 \in Int /\ n \in Int /\ 1 <= n /\ 1 \in 1 .. n /\ n \in 1 .. n
    BY <1>3
  <2>2. F \in [(1 .. n - 1) \X S -> S]
    <3>1. ASSUME NEW d \in S, NEW i \in 1 .. n - 1 PROVE Step(d, i) \in S
      <4>1. i \in 0 .. N /\ 0 \in 0 .. N /\ i \in Nat /\ i - 1 <= N /\ 0 \in 0 .. i - 1
        OBVIOUS
      <4>2. Exchanged(d, i, 0) \in S
        BY <4>1, ExchangedIs DEF IsExchange
      <4> QED
        BY <4>1, <4>2, SiftType
    <3> QED
      BY <3>1
  <2>3. Loop(done)
    <3> HIDE DEF S, Step, F
    <3>1. a \in S
      BY DEF S
    <3>2. PICK f \in [1 .. n -> S] : CountsDown(f, 1, n, a, F)
      BY <2>1, <2>2, <3>1, DownExists
    <3>3. \A i \in 1 .. n : i # n => F[<<i, f[i + 1]>>] = Step(f[i + 1], i)
      <4>1. ASSUME NEW i \in 1 .. n, i # n PROVE <<i, f[i + 1]>> \in (1 .. n - 1) \X S
        <5>1. i + 1 \in 1 .. n /\ i \in 1 .. n - 1
          BY <4>1
        <5> QED
          BY <5>1
      <4> QED
        BY <4>1 DEF F
    <3>4. Loop(f)
      BY <3>2, <3>3 DEF CountsDown
    <3> QED
      BY <3>4
  <2> HIDE DEF done
  <2>4. done[n] = a /\ \A i \in 1 .. n - 1 : done[i] = Step(done[i + 1], i)
    <3>1. \A i \in 1 .. n - 1 : i \in 1 .. n /\ i # n
      OBVIOUS
    <3> HIDE DEF Step
    <3> QED
      BY <2>1, <2>3, <3>1
  <2>5. n \in T
    <3>1. Sorting(a, a, N, n, n)
      <4>1. n .. n - 1 = {}
        OBVIOUS
      <4> QED
        BY <4>1, NotRearranged DEF Sorting
    <3> QED
      BY <2>1, <2>4, <3>1
  <2>6. ASSUME NEW i \in 1 .. n - 1, i + 1 \in T PROVE i \in T
    <3>1. Sorting(a, done[i + 1], N, n, i + 1) /\ i \in 1 .. n
      BY <2>6
    <3>2. Sorting(a, Step(done[i + 1], i), N, n, i)
      BY <3>1, SortStep
    <3> HIDE DEF Step
    <3> QED
      BY <2>4, <3>1, <3>2
  <2> HIDE DEF T
  <2>7. \A i \in 1 .. n : i \in T
    BY <2>1, <2>5, <2>6, Downward
  <2>8. Sorting(a, done[1], N, n, 1)
    BY <2>1, <2>7 DEF T
  <2>9. Ascends(done[1], n)
    <3>1. \A x, y \in 0 .. n - 1 : x < y => y \in 1 .. n - 1 /\ x \in 0 .. y
      OBVIOUS
    <3> QED
      BY <2>8, <3>1 DEF Sorting, Ascends
  <2> QED
    BY <1>1, <1>3, <2>8, <2>9 DEF Sorting
<1> QED
  BY <1>2, <1>3
-----------------------------------------------------------------------------
(* CHeap: partition.                                                       *)

(* Before the node at i is looked at, those from left to q are before the  *)
(* pivot at right and the others are not.                                  *)
Looking(a, s, N, n, left, right, max, i) ==
  /\ s[1] \in [0 .. N -> Int]
  /\ s[2] \in left - 1 .. i - 1
  /\ \A j \in left .. s[2] : IsBefore(max, s[1][j], s[1][right])
  /\ \A j \in s[2] + 1 .. i - 1 : ~ IsBefore(max, s[1][j], s[1][right])
  /\ Rearranged(a, s[1], n, left, right)

LEMMA LookedAt ==
  ASSUME NEW N \in Int, NEW a \in [0 .. N -> Int], NEW n \in Nat, n - 1 <= N, NEW max \in BOOLEAN,
         NEW left \in 0 .. n - 1, NEW right \in left .. n - 1, NEW i \in left .. right - 1,
         NEW s, Looking(a, s, N, n, left, right, max, i)
  PROVE  Looking(a, Heap!Moved(s, i, right, max), N, n, left, right, max, i + 1)
<1> DEFINE b == s[1]
           q == s[2]
           t == Heap!Moved(s, i, right, max)
           c == Exchanged(b, q + 1, i)
<1>1. t = IF IsBefore(max, b[i], b[right]) THEN <<c, q + 1>> ELSE s
  BY DEF Heap!Moved, Heap!ExchangeNodes, Exchanged, IsBefore
<1>2. /\ b \in [0 .. N -> Int] /\ q \in left - 1 .. i - 1
      /\ \A j \in left .. q : IsBefore(max, b[j], b[right])
      /\ \A j \in q + 1 .. i - 1 : ~ IsBefore(max, b[j], b[right])
      /\ Rearranged(a, b, n, left, right)
  BY DEF Looking
<1> HIDE DEF b, q
<1>3. CASE IsBefore(max, b[i], b[right])
  <2>1. q + 1 \in 0 .. N /\ i \in 0 .. N /\ q + 1 \in left .. right /\ i \in left .. right /\ q + 1 <= i
        /\ right # i /\ right # q + 1 /\ right \in 0 .. N
    BY <1>2
  <2>2. IsExchange(b, c, N, q + 1, i)
    BY <1>2, <2>1, ExchangedIs
  <2>3. Rearranged(b, c, n, left, right)
    <3>1. left \in Int /\ right \in Int /\ 0 <= left /\ right <= n - 1
      OBVIOUS
    <3> QED
      BY <1>2, <2>1, <3>1, Exchange
  <2> HIDE DEF c
  <2>4. Rearranged(a, c, n, left, right)
    BY <1>2, <2>3, RearrangedAgain
  <2>5. t[1] = c /\ t[2] = q + 1 /\ c[right] = b[right]
    BY <1>1, <1>3, <2>1, <2>2 DEF IsExchange
  <2>6. ASSUME NEW j \in left .. q + 1 PROVE IsBefore(max, c[j], b[right])
    <3>1. CASE j = q + 1
      BY <1>3, <2>2, <3>1 DEF IsExchange
    <3>2. CASE j # q + 1
      <4>1. j \in left .. q /\ j # i /\ j \in 0 .. N
        BY <1>2, <3>2
      <4> QED
        BY <1>2, <2>2, <3>2, <4>1 DEF IsExchange
    <3> QED
      BY <3>1, <3>2
  <2>7. ASSUME NEW j \in (q + 1) + 1 .. (i + 1) - 1 PROVE ~ IsBefore(max, c[j], b[right])
    <3>1. CASE j = i
      <4>1. q + 1 \in q + 1 .. i - 1
        BY <1>2, <2>1, <3>1
      <4> QED
        BY <1>2, <2>2, <3>1, <4>1 DEF IsExchange
    <3>2. CASE j # i
      <4>1. j \in q + 1 .. i - 1 /\ j # q + 1 /\ j \in 0 .. N
        BY <1>2, <3>2
      <4> QED
        BY <1>2, <2>2, <3>2, <4>1 DEF IsExchange
    <3> QED
      BY <3>1, <3>2
  <2>8. c \in [0 .. N -> Int] /\ q + 1 \in left - 1 .. (i + 1) - 1
    BY <1>2, <2>2 DEF IsExchange
  <2> HIDE DEF t
  <2> QED
    BY <2>4, <2>5, <2>6, <2>7, <2>8 DEF Looking, t
<1>4. CASE ~ IsBefore(max, b[i], b[right])
  <2>1. t = s
    BY <1>1, <1>4
  <2>2. q \in left - 1 .. (i + 1) - 1
    BY <1>2
  <2>3. ASSUME NEW j \in q + 1 .. (i + 1) - 1 PROVE ~ IsBefore(max, b[j], b[right])
    <3>1. j = i \/ j \in q + 1 .. i - 1
      BY <1>2
    <3> QED
      BY <1>2, <1>4, <3>1
  <2> HIDE DEF t
  <2> QED
    BY <1>2, <2>1, <2>2, <2>3 DEF Looking, b, q, t
<1> QED
  BY <1>3, <1>4

Parted(a, p, N, n, left, right, max) ==
  /\ p[1] \in [0 .. N -> Int]
  /\ p[2] \in left .. right
  /\ \A j \in left .. p[2] - 1 : IsBefore(max, p[1][j], p[1][p[2]])
  /\ \A j \in p[2] + 1 .. right : ~ IsBefore(max, p[1][j], p[1][p[2]])
  /\ Rearranged(a, p[1], n, left, right)

LEMMA PartitionIs ==
  ASSUME NEW N \in Int, NEW a \in [0 .. N -> Int], NEW n \in Nat, n - 1 <= N, NEW max \in BOOLEAN,
         NEW left \in 0 .. n - 1, NEW right \in left .. n - 1
  PROVE  Parted(a, Heap!Partition(a, left, right, max), N, n, left, right, max)
<1> DEFINE S == [0 .. N -> Int] \X (left - 1 .. right - 1)
           Step(s, i) == Heap!Moved(s, i, right, max)
           x == <<a, left - 1>>
           Loop(f) == f = [i \in left .. right |-> IF i = left THEN x ELSE Step(f[i - 1], i - 1)]
           looked == CHOOSE f : Loop(f)
           F == [q \in (left .. right - 1) \X S |-> IF q[2][2] < q[1] THEN Step(q[2], q[1]) ELSE x]
           T == {i \in left .. right : Looking(a, looked[i], N, n, left, right, max, i)}
           b == looked[right][1]
           pos == looked[right][2] + 1
           p == Heap!Partition(a, left, right, max)
<1>1. p = <<Exchanged(b, pos, right), pos>>
  BY DEF Heap!Partition, Heap!ExchangeNodes, Exchanged
<1>2. /\ left \in Int /\ right \in Int /\ left <= right /\ left \in left .. right /\ right \in left .. right
      /\ 0 <= left /\ right <= n - 1 /\ right \in 0 .. N
  OBVIOUS
<1>3. ASSUME NEW i \in left .. right - 1, NEW s \in S, s[2] < i
      PROVE  Step(s, i) \in S /\ Step(s, i)[2] <= i
  <2> DEFINE c == s[1]
             q == s[2]
  <2>1. Step(s, i) = IF IsBefore(max, c[i], c[right]) THEN <<Exchanged(c, q + 1, i), q + 1>> ELSE s
    BY DEF Heap!Moved, Heap!ExchangeNodes, Exchanged, IsBefore
  <2>2. c \in [0 .. N -> Int] /\ q \in left - 1 .. right - 1 /\ q < i
    BY <1>3
  <2> HIDE DEF c, q, Step
  <2>3. q + 1 \in 0 .. N /\ i \in 0 .. N /\ q + 1 \in left - 1 .. right - 1 /\ q + 1 <= i
    BY <2>2
  <2>4. Exchanged(c, q + 1, i) \in [0 .. N -> Int]
    BY <2>2, <2>3, ExchangedIs DEF IsExchange
  <2>5. CASE IsBefore(max, c[i], c[right])
    <3>1. Step(s, i) = <<Exchanged(c, q + 1, i), q + 1>>
      BY <2>1, <2>5
    <3> QED
      BY <2>3, <2>4, <3>1
  <2>6. CASE ~ IsBefore(max, c[i], c[right])
    <3>1. Step(s, i) = s
      BY <2>1, <2>6
    <3> QED
      BY <1>3, <3>1
  <2> QED
    BY <2>5, <2>6
<1>4. x \in S /\ x[2] < left
  OBVIOUS
<1> HIDE DEF S, Step, x
<1>5. F \in [(left .. right - 1) \X S -> S]
  BY <1>3, <1>4
<1>6. Loop(looked)
  <2> HIDE DEF F
  <2>1. PICK f \in [left .. right -> S] : CountsUp(f, left, right, x, F)
    BY <1>2, <1>4, <1>5, UpExists
  <2>2. ASSUME NEW i \in left .. right - 1
        PROVE  f[i + 1] = IF f[i][2] < i THEN Step(f[i], i) ELSE x
    <3>1. i + 1 \in left .. right /\ i + 1 # left /\ (i + 1) - 1 = i /\ i \in left .. right
      BY <1>2
    <3>2. f[i + 1] = F[<<i, f[i]>>]
      BY <2>1, <3>1 DEF CountsUp
    <3>3. <<i, f[i]>> \in (left .. right - 1) \X S
      BY <3>1
    <3> QED
      BY <3>2, <3>3 DEF F
  <2>3. f[left] = x
    BY <1>2, <2>1 DEF CountsUp
  <2>4. ASSUME NEW i \in left .. right PROVE f[i][2] < i
    <3>1. CASE i = left
      BY <1>4, <2>3, <3>1
    <3>2. CASE i # left
      <4>1. i - 1 \in left .. right - 1 /\ (i - 1) + 1 = i /\ i - 1 \in left .. right
        BY <3>2
      <4>2. CASE f[i - 1][2] < i - 1
        <5>1. f[i] = Step(f[i - 1], i - 1) /\ f[i - 1] \in S
          BY <2>2, <4>1, <4>2
        <5>2. f[i][2] <= i - 1 /\ f[i] \in S
          BY <1>3, <4>1, <4>2, <5>1
        <5> QED
          BY <5>2 DEF S
      <4>3. CASE ~ (f[i - 1][2] < i - 1)
        <5>1. f[i] = x
          BY <2>2, <4>1, <4>3
        <5> QED
          BY <5>1 DEF x
      <4> QED
        BY <4>2, <4>3
    <3> QED
      BY <3>1, <3>2
  <2>5. ASSUME NEW i \in left .. right PROVE f[i] = IF i = left THEN x ELSE Step(f[i - 1], i - 1)
    <3>1. CASE i = left
      BY <2>3, <3>1
    <3>2. CASE i # left
      <4>1. i - 1 \in left .. right - 1 /\ (i - 1) + 1 = i /\ i - 1 \in left .. right
        BY <3>2
      <4>2. f[(i - 1) + 1] = Step(f[i - 1], i - 1)
        BY <2>2, <2>4, <4>1
      <4> QED
        BY <3>2, <4>1, <4>2
    <3> QED
      BY <3>1, <3>2
  <2>6. Loop(f)
    BY <2>5
  <2> HIDE DEF Loop
  <2> QED
    BY <2>6
<1> HIDE DEF looked
<1>7. looked[left] = x /\ \A i \in left .. right - 1 : looked[i + 1] = Step(looked[i], i)
  <2>1. ASSUME NEW i \in left .. right - 1 PROVE looked[i + 1] = Step(looked[i], i)
    <3>1. i + 1 \in left .. right /\ i + 1 # left /\ (i + 1) - 1 = i
      BY <1>2
    <3> QED
      BY <1>6, <3>1
  <2> QED
    BY <1>2, <1>6, <2>1
<1>8. left \in T
  <2>1. left - 1 \in left - 1 .. left - 1 /\ left .. left - 1 = {} /\ (left - 1) + 1 .. left - 1 = {}
    BY <1>2
  <2>2. looked[left][1] = a /\ looked[left][2] = left - 1
    BY <1>7 DEF x
  <2>3. Looking(a, looked[left], N, n, left, right, max, left)
    BY <2>1, <2>2, NotRearranged DEF Looking
  <2> QED
    BY <1>2, <2>3
<1>9. ASSUME NEW i \in left .. right - 1, i \in T PROVE i + 1 \in T
  <2>1. Looking(a, looked[i], N, n, left, right, max, i) /\ i + 1 \in left .. right
    BY <1>9
  <2>2. Looking(a, Step(looked[i], i), N, n, left, right, max, i + 1)
    BY <2>1, LookedAt DEF Step
  <2> QED
    BY <1>7, <2>1, <2>2
<1> HIDE DEF T
<1>10. \A i \in left .. right : i \in T
  BY <1>2, <1>8, <1>9, Upward
<1>11. Looking(a, looked[right], N, n, left, right, max, right)
  BY <1>2, <1>10 DEF T
<1>12. /\ b \in [0 .. N -> Int] /\ pos \in left .. right /\ pos \in 0 .. N
       /\ \A j \in left .. pos - 1 : IsBefore(max, b[j], b[right])
       /\ \A j \in pos .. right - 1 : ~ IsBefore(max, b[j], b[right])
       /\ Rearranged(a, b, n, left, right)
  <2> DEFINE q == looked[right][2]
  <2>1. q \in left - 1 .. right - 1 /\ pos = q + 1
    BY <1>11 DEF Looking
  <2>2. /\ b \in [0 .. N -> Int]
        /\ \A j \in left .. q : IsBefore(max, b[j], b[right])
        /\ \A j \in q + 1 .. right - 1 : ~ IsBefore(max, b[j], b[right])
        /\ Rearranged(a, b, n, left, right)
    BY <1>11 DEF Looking
  <2> HIDE DEF q, pos, b
  <2>3. pos \in left .. right /\ pos - 1 = q
    BY <1>2, <2>1
  <2>4. pos \in 0 .. N
    BY <1>2, <2>3
  <2> QED
    BY <2>1, <2>2, <2>3, <2>4
<1> DEFINE c == Exchanged(b, pos, right)
<1> HIDE DEF b, pos
<1>13. IsExchange(b, c, N, pos, right)
  BY <1>2, <1>12, ExchangedIs
<1>14. Rearranged(b, c, n, left, right)
  BY <1>2, <1>12, Exchange
<1> HIDE DEF c
<1>15. Rearranged(a, c, n, left, right)
  BY <1>12, <1>13, <1>14, RearrangedAgain DEF IsExchange
<1>16. ASSUME NEW j \in left .. pos - 1 PROVE IsBefore(max, c[j], c[pos])
  <2>1. j \in 0 .. N /\ j # pos /\ j # right
    BY <1>2, <1>12
  <2> QED
    BY <1>12, <1>13, <2>1 DEF IsExchange
<1>17. ASSUME NEW j \in pos + 1 .. right PROVE ~ IsBefore(max, c[j], c[pos])
  <2>1. CASE j = right
    <3>1. pos \in pos .. right - 1
      BY <1>2, <1>12, <2>1
    <3> QED
      BY <1>12, <1>13, <2>1, <3>1 DEF IsExchange
  <2>2. CASE j # right
    <3>1. j \in 0 .. N /\ j # pos /\ j \in pos .. right - 1
      BY <1>2, <1>12, <2>2
    <3> QED
      BY <1>12, <1>13, <2>2, <3>1 DEF IsExchange
  <2> QED
    BY <2>1, <2>2
<1>18. p[1] = c /\ p[2] = pos
  BY <1>1 DEF c
<1> HIDE DEF p
<1>19. Parted(a, p, N, n, left, right, max)
  BY <1>12, <1>13, <1>15, <1>16, <1>17, <1>18 DEF Parted, IsExchange
<1> QED
  BY <1>19 DEF p

(* The pivot is chosen by exchanging nodes within the range.               *)
ExchangesTo(a, b, N, n, left, right) == b \in [0 .. N -> Int] /\ Rearranged(a, b, n, left, right)

LEMMA OneExchange ==
  ASSUME NEW N \in Int, NEW a, NEW n \in Nat, n - 1 <= N,
         NEW left \in 0 .. n - 1, NEW right \in left .. n - 1, NEW p \in left .. right, NEW q \in left .. right,
         NEW b, ExchangesTo(a, b, N, n, left, right), a \in [0 .. N -> Int]
  PROVE  ExchangesTo(a, Heap!ExchangeNodes(b, p, q), N, n, left, right)
<1> DEFINE c == Exchanged(b, p, q)
<1>1. Heap!ExchangeNodes(b, p, q) = c
  BY DEF Heap!ExchangeNodes, Exchanged
<1>2. /\ b \in [0 .. N -> Int] /\ left \in Int /\ right \in Int /\ 0 <= left /\ right <= n - 1
      /\ p \in 0 .. N /\ q \in 0 .. N
  BY DEF ExchangesTo
<1>3. Rearranged(b, c, n, left, right)
  BY <1>2, Exchange
<1>4. c \in [0 .. N -> Int]
  BY <1>2, ExchangedIs DEF IsExchange
<1> HIDE DEF c
<1>5. Rearranged(a, c, n, left, right)
  BY <1>2, <1>3, RearrangedAgain DEF ExchangesTo
<1> QED
  BY <1>1, <1>4, <1>5 DEF ExchangesTo

LEMMA MedianIs ==
  ASSUME NEW N \in Int, NEW a \in [0 .. N -> Int], NEW n \in Nat, n - 1 <= N,
         NEW left \in 0 .. n - 1, NEW right \in left .. n - 1
  PROVE  ExchangesTo(a, Heap!MedianLeft(a, left, right), N, n, left, right)
<1> DEFINE mid == (left + right) \div 2
           b == IF a[left] < a[mid] THEN Heap!ExchangeNodes(a, left, mid) ELSE a
           c == IF b[right] < b[mid] THEN Heap!ExchangeNodes(b, right, mid) ELSE b
           d == IF c[right] < c[left] THEN Heap!ExchangeNodes(c, right, left) ELSE c
<1>1. Heap!MedianLeft(a, left, right) = d
  BY DEF Heap!MedianLeft
<1>2. mid \in left .. right /\ left \in left .. right /\ right \in left .. right
  OBVIOUS
<1>3. ExchangesTo(a, a, N, n, left, right)
  BY NotRearranged DEF ExchangesTo
<1> HIDE DEF mid
<1>4. ExchangesTo(a, b, N, n, left, right)
  BY <1>2, <1>3, OneExchange
<1> HIDE DEF b
<1>5. ExchangesTo(a, c, N, n, left, right)
  BY <1>2, <1>4, OneExchange
<1> HIDE DEF c
<1>6. ExchangesTo(a, d, N, n, left, right)
  BY <1>2, <1>5, OneExchange
<1> QED
  BY <1>1, <1>6
-----------------------------------------------------------------------------
(* CTopNHeap: of the nodes it was shown, g[w] with each key w, it holds    *)
(* c[w], the room of them that are the greatest.                           *)
Above(g, w) == SumOf(g, {u \in Values : u > w})

Kept(g, room, w) ==
  LET x == room - Above(g, w) IN IF x <= 0 THEN 0 ELSE IF g[w] <= x THEN g[w] ELSE x

Fits(c, g, n, room) ==
  /\ c \in [Values -> Nat] /\ g \in [Values -> Nat]
  /\ SumOf(c, Values) = n
  /\ n < room => c = g
  /\ \A w \in Values : c[w] = Kept(g, room, w)

OneMore(g, v) == [g EXCEPT ![v] = g[v] + 1]

OneLess(g, v) == [g EXCEPT ![v] = g[v] - 1]

HeapConstants == HeapSize \in Nat \ {0} /\ IsFiniteSet(Values) /\ Values \subseteq Int

LEMMA HeapConstantsFit == HeapConstants
BY HeapAssumption DEF Heap!HeapOK, Heap!IsFiniteSet, IsFiniteSet, HeapConstants

LEMMA AboveIs ==
  ASSUME NEW g \in [Values -> Nat], NEW w \in Values
  PROVE  /\ Above(g, w) \in Nat
         /\ Above(g, w) + g[w] = SumOf(g, {u \in Values : u >= w})
         /\ Above(g, w) + g[w] <= SumOf(g, Values)
         /\ SumOf(g, Values) \in Nat
<1> DEFINE T == {u \in Values : u > w}
           U == {u \in Values : u >= w}
<1>1. IsFiniteSet(Values) /\ Values \subseteq Int
  BY HeapConstantsFit DEF HeapConstants
<1>2. g \in [Values -> Int] /\ w \in Int
  BY <1>1
<1>3. T \in SUBSET Values /\ U \in SUBSET Values /\ w \notin T /\ U = T \cup {w} /\ {} \in SUBSET Values
  <2>1. \A u \in Values : u \in Int /\ (u >= w <=> u > w \/ u = w)
    BY <1>1, <1>2
  <2>2. ~ (w > w)
    BY <1>2
  <2> QED
    BY <2>1, <2>2
<1> HIDE DEF T, U
<1>4. SumOf(g, T) \in Int /\ SumOf(g, U) = SumOf(g, T) + g[w]
  <2>0. IsFiniteSet(Values) /\ g \in [Values -> Int] /\ T \in SUBSET Values /\ w \notin T
    BY <1>1, <1>2, <1>3
  <2>1. SumOf(g, T) \in Int /\ SumOf(g, T \cup {w}) = SumOf(g, T) + g[w]
    BY <2>0, SumOfAdd
  <2> QED
    BY <1>3, <2>1
<1>5. SumOf(g, {}) = 0
  BY <1>1, <1>2, SumOfEmpty
<1>6. Values \in SUBSET Values /\ {} \subseteq T /\ U \subseteq Values
  BY <1>3
<1>7. SumOf(g, {}) <= SumOf(g, T)
  BY <1>1, <1>3, <1>6, SumOfMore
<1>8. SumOf(g, U) <= SumOf(g, Values)
  BY <1>1, <1>3, <1>6, SumOfMore
<1>9. SumOf(g, Values) \in Int
  BY <1>1, <1>2, SumOfType
<1>10. Above(g, w) = SumOf(g, T)
  BY DEF Above, T
<1>11. g[w] \in Nat
  OBVIOUS
<1> QED
  BY <1>4, <1>5, <1>7, <1>8, <1>9, <1>10, <1>11 DEF U

LEMMA AboveMore ==
  ASSUME NEW g \in [Values -> Nat], NEW w \in Values, NEW v \in Values
  PROVE  /\ Above(OneMore(g, v), w) = Above(g, w) + (IF v > w THEN 1 ELSE 0)
         /\ OneMore(g, v) \in [Values -> Nat]
<1>1. IsFiniteSet(Values) /\ Values \subseteq Int /\ g \in [Values -> Int] /\ g[v] + 1 \in Int
  BY HeapConstantsFit DEF HeapConstants
<1> DEFINE T == {u \in Values : u > w}
<1>2. T \in SUBSET Values /\ (v \in T <=> v > w)
  OBVIOUS
<1> HIDE DEF T
<1>3. SumOf(OneMore(g, v), T) = SumOf(g, T) + (IF v \in T THEN (g[v] + 1) - g[v] ELSE 0)
  <2> DEFINE e == g[v] + 1
  <2> HIDE DEF e
  <2>1. e \in Int
    BY <1>1 DEF e
  <2>2. SumChanges(g, v, e, T)
    <3>1. IsFiniteSet(Values) /\ g \in [Values -> Int] /\ T \in SUBSET Values
      BY <1>1, <1>2
    <3> QED
      BY <2>1, <3>1, SumOfPartChange
  <2> QED
    BY <2>1, <2>2 DEF OneMore, SumChanges, e
<1>4. (g[v] + 1) - g[v] = 1
  OBVIOUS
<1> QED
  BY <1>2, <1>3, <1>4 DEF Above, OneMore, T

(* Keys further up leave less room.                                        *)
LEMMA AboveBelow ==
  ASSUME NEW g \in [Values -> Nat], NEW w \in Values, NEW r \in Values, w > r
  PROVE  Above(g, w) + g[w] <= Above(g, r)
<1> DEFINE T == {u \in Values : u > r}
           U == {u \in Values : u >= w}
<1>1. IsFiniteSet(Values) /\ Values \subseteq Int
  BY HeapConstantsFit DEF HeapConstants
<1>2. w \in Int /\ r \in Int /\ U \in SUBSET Values /\ T \in SUBSET Values /\ U \subseteq T
  <2>1. w \in Int /\ r \in Int /\ \A u \in Values : u \in Int /\ (u >= w => u > r)
    BY <1>1
  <2> QED
    BY <2>1
<1> HIDE DEF T, U
<1>3. SumOf(g, U) <= SumOf(g, T)
  BY <1>1, <1>2, SumOfMore
<1> QED
  BY <1>3, AboveIs DEF Above, T, U

LEMMA KeptType ==
  ASSUME NEW g \in [Values -> Nat], NEW w \in Values, NEW room \in Nat
  PROVE  Kept(g, room, w) \in Nat /\ Kept(g, room, w) <= g[w]
<1>1. Above(g, w) \in Nat /\ g[w] \in Nat
  BY AboveIs
<1> QED
  BY <1>1 DEF Kept

(* There is room for one more.                                             *)
LEMMA FitsMore ==
  ASSUME NEW c, NEW g, NEW n \in Nat, NEW room \in Nat, n < room, Fits(c, g, n, room), NEW v \in Values
  PROVE  Fits(OneMore(c, v), OneMore(g, v), n + 1, room)
<1> DEFINE d == OneMore(g, v)
<1>1. c = g /\ g \in [Values -> Nat] /\ SumOf(g, Values) = n
  BY DEF Fits
<1>2. d \in [Values -> Nat]
  BY <1>1, AboveMore
<1>3. SumOf(d, Values) = n + 1
  <2>1. IsFiniteSet(Values) /\ g \in [Values -> Int] /\ g[v] + 1 \in Int /\ g[v] \in Int
    BY <1>1, HeapConstantsFit DEF HeapConstants
  <2>2. SumOf(d, Values) = SumOf(g, Values) + ((g[v] + 1) - g[v])
    BY <2>1, SumOfChange DEF OneMore
  <2> QED
    BY <1>1, <2>1, <2>2
<1> HIDE DEF d
<1>4. ASSUME NEW w \in Values PROVE d[w] = Kept(d, room, w)
  <2>1. Above(d, w) \in Nat /\ d[w] \in Nat /\ Above(d, w) + d[w] <= n + 1
    BY <1>2, <1>3, AboveIs
  <2> QED
    BY <2>1 DEF Kept
<1> QED
  BY <1>1, <1>2, <1>3, <1>4 DEF Fits, d

(* Nothing less than the root is there.                                    *)
LeastIs(c, r) == c[r] > 0 /\ \A w \in Values : w < r => c[w] = 0

(* When it is full, enough was shown that is not less than the root.       *)
LEMMA FullDownTo ==
  ASSUME NEW c, NEW g, NEW room \in Nat, Fits(c, g, room, room), NEW r \in Values, LeastIs(c, r),
         NEW v \in Values, v <= r
  PROVE  /\ Above(g, v) + g[v] >= room
         /\ v < r => Above(g, v) >= room
<1>1. /\ IsFiniteSet(Values) /\ Values \subseteq Int
      /\ c \in [Values -> Int] /\ g \in [Values -> Int]
      /\ c \in [Values -> Nat] /\ g \in [Values -> Nat]
      /\ SumOf(c, Values) = room
  BY HeapConstantsFit DEF HeapConstants, Fits
<1>2. \A w \in Values : c[w] <= g[w]
  BY <1>1, KeptType DEF Fits
<1>3. ASSUME NEW T \in SUBSET Values, \A w \in Values \ T : c[w] = 0 PROVE SumOf(g, T) >= room
  <2>1. SumOf(c, T) = room
    BY <1>1, <1>3, SumOfPart
  <2>2. SumOf(c, T) <= SumOf(g, T)
    BY <1>1, <1>2, SumOfSmaller
  <2>3. SumOf(g, T) \in Int
    <3>0. IsFiniteSet(Values) /\ g \in [Values -> Int]
      BY <1>1
    <3>1. PICK a : /\ SumsOver(a, g, Values)
                   /\ \A U \in SUBSET Values : SumOf(g, U) = a[U] /\ a[U] \in Int
      BY <3>0, SumOfParts
    <3> QED
      BY <3>1
  <2> QED
    BY <2>1, <2>2, <2>3
<1>4. Above(g, v) + g[v] >= room
  <2> DEFINE T == {u \in Values : u >= v}
  <2>1. T \in SUBSET Values /\ \A w \in Values \ T : c[w] = 0
    BY <1>1 DEF LeastIs
  <2>2. SumOf(g, T) >= room
    BY <1>3, <2>1
  <2> QED
    BY <1>1, <2>2, AboveIs
<1>5. ASSUME v < r PROVE Above(g, v) >= room
  <2> DEFINE T == {u \in Values : u > v}
  <2>1. T \in SUBSET Values /\ \A w \in Values \ T : c[w] = 0
    BY <1>1, <1>5 DEF LeastIs
  <2>2. SumOf(g, T) >= room
    BY <1>3, <2>1
  <2> QED
    BY <2>2 DEF Above
<1> QED
  BY <1>4, <1>5

(* What is not greater than the root is not taken.                         *)
LEMMA FitsStill ==
  ASSUME NEW c, NEW g, NEW room \in Nat, Fits(c, g, room, room), NEW r \in Values, LeastIs(c, r),
         NEW v \in Values, v <= r
  PROVE  Fits(c, OneMore(g, v), room, room)
<1> DEFINE d == OneMore(g, v)
<1>1. /\ Values \subseteq Int /\ c \in [Values -> Nat] /\ g \in [Values -> Nat] /\ v \in Int /\ r \in Int
  BY HeapConstantsFit DEF HeapConstants, Fits
<1>2. d \in [Values -> Nat] /\ d[v] = g[v] + 1 /\ \A w \in Values : w # v => d[w] = g[w]
  BY <1>1, AboveMore DEF OneMore
<1> HIDE DEF d
<1>3. ASSUME NEW w \in Values PROVE c[w] = Kept(d, room, w)
  <2>1. /\ Above(g, w) \in Nat /\ g[w] \in Nat /\ d[w] \in Nat /\ c[w] \in Nat /\ w \in Int
        /\ Above(d, w) = Above(g, w) + (IF v > w THEN 1 ELSE 0)
    BY <1>1, <1>2, AboveIs, AboveMore DEF d
  <2>2. c[w] = Kept(g, room, w)
    BY DEF Fits
  <2>3. CASE w > v
    <3>1. Above(d, w) = Above(g, w) /\ d[w] = g[w]
      BY <1>1, <1>2, <2>1, <2>3
    <3> QED
      BY <2>2, <3>1 DEF Kept
  <2>4. CASE w = v
    <3>1. Above(d, w) = Above(g, w) /\ d[w] = g[w] + 1
      BY <1>1, <1>2, <2>1, <2>4
    <3>2. Above(g, w) + g[w] >= room
      BY <2>4, FullDownTo
    <3> QED
      BY <2>1, <2>2, <3>1, <3>2 DEF Kept
  <2>5. CASE w < v
    <3>1. Above(d, w) = Above(g, w) + 1 /\ d[w] = g[w]
      BY <1>1, <1>2, <2>1, <2>5
    <3>2. c[w] = 0
      BY <1>1, <2>1, <2>5 DEF LeastIs
    <3> QED
      BY <2>1, <2>2, <3>1, <3>2 DEF Kept
  <2> QED
    BY <1>1, <2>1, <2>3, <2>4, <2>5
<1> QED
  BY <1>2, <1>3 DEF Fits, d

(* What is greater takes the root's place.                                 *)
LEMMA FitsInstead ==
  ASSUME NEW c, NEW g, NEW room \in Nat, Fits(c, g, room, room), NEW r \in Values, LeastIs(c, r),
         NEW v \in Values, v > r
  PROVE  Fits(OneMore(OneLess(c, r), v), OneMore(g, v), room, room)
<1> DEFINE d == OneMore(g, v)
           b == OneLess(c, r)
           e == OneMore(b, v)
<1>1. /\ IsFiniteSet(Values) /\ Values \subseteq Int
      /\ c \in [Values -> Nat] /\ g \in [Values -> Nat] /\ v \in Int /\ r \in Int
      /\ c[r] \in Nat /\ c[v] \in Nat /\ c[r] > 0
  BY HeapConstantsFit DEF HeapConstants, Fits, LeastIs
<1>2. d \in [Values -> Nat] /\ d[v] = g[v] + 1 /\ \A w \in Values : w # v => d[w] = g[w]
  BY <1>1, AboveMore DEF OneMore
<1>3. b \in [Values -> Nat] /\ b[r] = c[r] - 1 /\ \A w \in Values : w # r => b[w] = c[w]
  BY <1>1 DEF OneLess
<1> HIDE DEF b
<1>4. e \in [Values -> Nat] /\ e[v] = b[v] + 1 /\ \A w \in Values : w # v => e[w] = b[w]
  BY <1>1, <1>3 DEF OneMore
<1>5. SumOf(e, Values) = room
  <2>1. c \in [Values -> Int] /\ b \in [Values -> Int] /\ c[r] - 1 \in Int /\ b[v] + 1 \in Int /\ b[v] \in Int
    BY <1>1, <1>3
  <2>2. SumOf(b, Values) = SumOf(c, Values) + ((c[r] - 1) - c[r])
    <3> DEFINE x == c[r] - 1
    <3> HIDE DEF x
    <3>1. x \in Int
      BY <2>1 DEF x
    <3>2. SumOf([c EXCEPT ![r] = x], Values) = SumOf(c, Values) + (x - c[r])
      <4>1. IsFiniteSet(Values) /\ c \in [Values -> Int]
        BY <1>1, <2>1
      <4> QED
        BY <3>1, <4>1, SumOfChange
    <3> QED
      BY <3>2 DEF b, OneLess, x
  <2>3. SumOf(e, Values) = SumOf(b, Values) + ((b[v] + 1) - b[v])
    <3> DEFINE x == b[v] + 1
    <3> HIDE DEF x, e
    <3>1. x \in Int
      BY <2>1 DEF x
    <3>2. SumOf([b EXCEPT ![v] = x], Values) = SumOf(b, Values) + (x - b[v])
      <4>1. IsFiniteSet(Values) /\ b \in [Values -> Int]
        BY <1>1, <2>1
      <4> QED
        BY <3>1, <4>1, SumOfChange
    <3> QED
      BY <3>2 DEF e, OneMore, x
  <2>4. SumOf(c, Values) = room
    BY DEF Fits
  <2> HIDE DEF e
  <2> QED
    BY <1>1, <2>1, <2>2, <2>3, <2>4
<1> HIDE DEF d, e
<1>6. Above(g, r) < room /\ Above(g, r) \in Nat
  <2>1. c[r] = Kept(g, room, r) /\ Above(g, r) \in Nat
    BY <1>1, AboveIs DEF Fits
  <2> QED
    BY <1>1, <2>1 DEF Kept
<1>7. ASSUME NEW w \in Values PROVE e[w] = Kept(d, room, w)
  <2>1. /\ Above(g, w) \in Nat /\ g[w] \in Nat /\ d[w] \in Nat /\ c[w] \in Nat /\ w \in Int
        /\ Above(d, w) = Above(g, w) + (IF v > w THEN 1 ELSE 0)
    BY <1>1, <1>2, AboveIs, AboveMore DEF d
  <2>2. c[w] = Kept(g, room, w)
    BY DEF Fits
  <2>3. w > r => Above(g, w) + g[w] < room
    <3>1. w > r => Above(g, w) + g[w] <= Above(g, r)
      BY <1>1, AboveBelow
    <3> QED
      BY <1>6, <2>1, <3>1
  <2>4. CASE w = v
    <3>1. Above(d, w) = Above(g, w) /\ d[w] = g[w] + 1 /\ e[w] = c[w] + 1
      BY <1>1, <1>2, <1>3, <1>4, <2>1, <2>4
    <3>2. Above(g, w) + g[w] < room
      BY <2>3, <2>4
    <3> QED
      BY <2>1, <2>2, <3>1, <3>2 DEF Kept
  <2>5. CASE w > r /\ w # v
    <3>1. d[w] = g[w] /\ e[w] = c[w] /\ Above(d, w) \in {Above(g, w), Above(g, w) + 1}
      BY <1>1, <1>2, <1>3, <1>4, <2>1, <2>5
    <3>2. Above(g, w) + g[w] < room
      BY <2>3, <2>5
    <3> QED
      BY <2>1, <2>2, <3>1, <3>2 DEF Kept
  <2>6. CASE w = r
    <3>1. d[w] = g[w] /\ e[w] = c[w] - 1 /\ Above(d, w) = Above(g, w) + 1
      BY <1>1, <1>2, <1>3, <1>4, <2>1, <2>6
    <3>2. Above(g, w) + g[w] >= room
      BY <1>1, <2>6, FullDownTo
    <3> QED
      BY <1>6, <2>1, <2>2, <2>6, <3>1, <3>2 DEF Kept
  <2>7. CASE w < r
    <3>1. d[w] = g[w] /\ e[w] = c[w] /\ Above(d, w) = Above(g, w) + 1
      BY <1>1, <1>2, <1>3, <1>4, <2>1, <2>7
    <3>2. c[w] = 0
      BY <2>7 DEF LeastIs
    <3> QED
      BY <2>1, <2>2, <3>1, <3>2 DEF Kept
  <2> QED
    BY <1>1, <2>1, <2>4, <2>5, <2>6, <2>7
<1> QED
  BY <1>2, <1>4, <1>5, <1>7 DEF Fits, d, e, b
-----------------------------------------------------------------------------
(* What the calls of CHeap and CTopNHeap keep.                             *)
HeapArray == [0 .. HeapSize - 1 -> Int]

CountsOf(a, n) == [v \in Values |-> CountIn(a, n, v)]

Sep(a, n, max, k) == \A i, j \in 0 .. n - 1 : i < k /\ k <= j => ~ IsBefore(max, a[j], a[i])

TypeFine(a, n, t, s, g, o) ==
  /\ a \in HeapArray /\ n \in 0 .. HeapSize /\ t \in BOOLEAN /\ g \in [Values -> Nat]
  /\ s \in [biggest : BOOLEAN, left : Int, right : Int, k : Int]
  /\ \A i \in 0 .. n - 1 : a[i] \in Values
  /\ t => s = Heap!Idle /\ o[1] # "max"
  /\ s # Heap!Idle => 0 <= s.left /\ s.right <= n - 1 /\ o[1] = "none"

OrderFine(a, n, t, s, o) ==
  /\ o[1] = "max" => HeapFrom(a, n, 0, TRUE)
  /\ o[1] = "min" \/ t => HeapFrom(a, n, 0, FALSE)
  /\ o[1] = "sorted" => Ascends(a, n)
  /\ o[1] = "big" => Sep(a, n, TRUE, o[2])
  /\ o[1] = "small" => Sep(a, n, FALSE, o[2])
  /\ s # Heap!Idle => /\ s.k - 1 \in s.left .. s.right
                      /\ Sep(a, n, s.biggest, s.left) /\ Sep(a, n, s.biggest, s.right + 1)

HoldFine(a, n, t, g) ==
  IF t THEN Fits(CountsOf(a, n), g, n, HeapSize) ELSE CountsOf(a, n) = g

HeapFine(a, n, t, s, g, o) ==
  TypeFine(a, n, t, s, g, o) /\ OrderFine(a, n, t, s, o) /\ HoldFine(a, n, t, g)

HeapInv == HeapFine(heap, heapNodes, top, sel, heapGiven, order)

(* What is rearranged holds the same.                                      *)
OfValues(a, n) == \A i \in 0 .. n - 1 : a[i] \in Values

LEMMA RearrangedHolds ==
  ASSUME NEW a, NEW b, NEW n, Rearranged(a, b, n, 0, n - 1), OfValues(a, n)
  PROVE  CountsOf(b, n) = CountsOf(a, n) /\ OfValues(b, n)
<1>1. \A v : CountIn(b, n, v) = CountIn(a, n, v)
  BY DEF Rearranged
<1>2. \A i \in 0 .. n - 1 : \E j \in 0 .. n - 1 : b[i] = a[j]
  BY DEF Rearranged
<1> QED
  BY <1>1, <1>2 DEF CountsOf, OfValues

(* The array when only its nodes have changed places, or none has.         *)
LEMMA FineRearranged ==
  ASSUME NEW a, NEW n, NEW t, NEW s, NEW g, NEW o, HeapFine(a, n, t, s, g, o),
         NEW b \in HeapArray, Rearranged(a, b, n, 0, n - 1),
         NEW p, NEW q, t => q = Heap!Idle /\ p[1] # "max",
         q \in [biggest : BOOLEAN, left : Int, right : Int, k : Int],
         q # Heap!Idle => 0 <= q.left /\ q.right <= n - 1 /\ p[1] = "none",
         OrderFine(b, n, t, q, p)
  PROVE  HeapFine(b, n, t, q, g, p)
<1>1. CountsOf(b, n) = CountsOf(a, n) /\ \A i \in 0 .. n - 1 : b[i] \in Values
  <2>1. OfValues(a, n)
    BY DEF HeapFine, TypeFine, OfValues
  <2>2. CountsOf(b, n) = CountsOf(a, n) /\ OfValues(b, n)
    BY <2>1, RearrangedHolds
  <2> QED
    BY <2>2 DEF OfValues
<1>2. TypeFine(b, n, t, q, g, p)
  BY <1>1 DEF HeapFine, TypeFine
<1>3. HoldFine(b, n, t, g)
  BY <1>1 DEF HeapFine, HoldFine
<1> QED
  BY <1>2, <1>3 DEF HeapFine

(* A node more, and a node in another's place.                             *)
LEMMA CountsMore ==
  ASSUME NEW a \in HeapArray, NEW n \in 0 .. HeapSize - 1, NEW v \in Values
  PROVE  LET b == [a EXCEPT ![n] = v] IN
           /\ b \in HeapArray /\ b[n] = v /\ \A i \in 0 .. n - 1 : b[i] = a[i]
           /\ CountsOf(b, n + 1) = OneMore(CountsOf(a, n), v)
<1> DEFINE b == [a EXCEPT ![n] = v]
<1>1. v \in Int /\ n \in Nat /\ n + 1 \in Nat
  BY HeapConstantsFit DEF HeapConstants
<1>2. b \in HeapArray /\ b[n] = v /\ \A i \in 0 .. n - 1 : b[i] = a[i]
  BY <1>1, HeapConstantsFit DEF HeapConstants, HeapArray
<1> HIDE DEF b
<1>3. ASSUME NEW u \in Values PROVE CountIn(b, n + 1, u) = OneMore(CountsOf(a, n), v)[u]
  <2>1. IsFiniteSet(Places(a, n, u)) /\ CountIn(a, n, u) \in Nat /\ n \notin Places(a, n, u)
    <3>1. n \notin Places(a, n, u)
      BY <1>1 DEF Places
    <3> QED
      BY <1>1, <3>1, PlacesFinite
  <2>2. CASE u = v
    <3>1. Places(b, n + 1, u) = Places(a, n, u) \cup {n}
      <4>1. \A i : i \in 0 .. (n + 1) - 1 <=> i \in 0 .. n - 1 \/ i = n
        BY <1>1
      <4> QED
        BY <1>2, <2>2, <4>1 DEF Places
    <3>2. CountIn(b, n + 1, u) = CountIn(a, n, u) + 1
      BY <2>1, <3>1, FS_AddElement DEF CountIn
    <3> QED
      BY <2>2, <3>2 DEF OneMore, CountsOf
  <2>3. CASE u # v
    <3>1. Places(b, n + 1, u) = Places(a, n, u)
      <4>1. \A i : i \in 0 .. (n + 1) - 1 <=> i \in 0 .. n - 1 \/ i = n
        BY <1>1
      <4> QED
        BY <1>2, <2>3, <4>1 DEF Places
    <3> QED
      BY <2>3, <3>1 DEF OneMore, CountsOf, CountIn
  <2> QED
    BY <2>2, <2>3
<1>4. CountsOf(b, n + 1) = OneMore(CountsOf(a, n), v)
  BY <1>3 DEF OneMore, CountsOf
<1> QED
  BY <1>2, <1>4 DEF b

LEMMA CountsInstead ==
  ASSUME NEW a \in HeapArray, NEW n \in 1 .. HeapSize, NEW v \in Values, a[0] \in Values, v # a[0]
  PROVE  LET b == [a EXCEPT ![0] = v] IN
           /\ b \in HeapArray /\ b[0] = v /\ \A i \in 1 .. n - 1 : b[i] = a[i]
           /\ CountsOf(b, n) = OneMore(OneLess(CountsOf(a, n), a[0]), v)
<1> DEFINE b == [a EXCEPT ![0] = v]
           r == a[0]
<1>1. v \in Int /\ n \in Nat /\ 0 \in 0 .. n - 1
  BY HeapConstantsFit DEF HeapConstants
<1>2. b \in HeapArray /\ b[0] = v /\ \A i \in 1 .. n - 1 : b[i] = a[i]
  BY <1>1, HeapConstantsFit DEF HeapConstants, HeapArray
<1>3. \A i : i \in 0 .. n - 1 <=> i \in 1 .. n - 1 \/ i = 0
  BY <1>1
<1>4. 0 \notin 1 .. n - 1 /\ r \in Values /\ r # v
  BY <1>1
<1> HIDE DEF b
<1>5. ASSUME NEW u \in Values PROVE CountIn(b, n, u) = OneMore(OneLess(CountsOf(a, n), r), v)[u]
  <2>1. IsFiniteSet(Places(a, n, u)) /\ CountIn(a, n, u) \in Nat
    BY <1>1, PlacesFinite
  <2>2. CASE u = v
    <3>1. Places(b, n, u) = Places(a, n, u) \cup {0} /\ 0 \notin Places(a, n, u)
      BY <1>2, <1>3, <1>4, <2>2 DEF Places
    <3>2. CountIn(b, n, u) = CountIn(a, n, u) + 1
      BY <2>1, <3>1, FS_AddElement DEF CountIn
    <3> QED
      BY <1>4, <2>2, <3>2 DEF OneMore, OneLess, CountsOf
  <2>3. CASE u = r
    <3>1. Places(b, n, u) = Places(a, n, u) \ {0} /\ 0 \in Places(a, n, u)
      BY <1>1, <1>2, <1>3, <1>4, <2>3 DEF Places
    <3>2. CountIn(b, n, u) = CountIn(a, n, u) - 1
      BY <2>1, <3>1, FS_RemoveElement DEF CountIn
    <3> QED
      BY <1>4, <2>3, <3>2 DEF OneMore, OneLess, CountsOf
  <2>4. CASE u # v /\ u # r
    <3>1. Places(b, n, u) = Places(a, n, u)
      BY <1>2, <1>3, <1>4, <2>4 DEF Places
    <3> QED
      BY <2>4, <3>1 DEF OneMore, OneLess, CountsOf, CountIn
  <2> QED
    BY <2>2, <2>3, <2>4
<1>6. CountsOf(b, n) = OneMore(OneLess(CountsOf(a, n), r), v)
  BY <1>5 DEF OneMore, OneLess, CountsOf
<1> QED
  BY <1>2, <1>6 DEF b

LEMMA HeapFacts ==
  ASSUME HeapInv
  PROVE  /\ heap \in [0 .. HeapSize - 1 -> Int] /\ heap \in HeapArray
         /\ heapNodes \in 0 .. HeapSize /\ heapNodes \in Nat /\ heapNodes - 1 <= HeapSize - 1
         /\ HeapSize \in Nat /\ HeapSize - 1 \in Int /\ HeapSize \in Nat \ {0}
         /\ heapGiven \in [Values -> Nat]
         /\ TypeFine(heap, heapNodes, top, sel, heapGiven, order)
         /\ OrderFine(heap, heapNodes, top, sel, order)
         /\ HoldFine(heap, heapNodes, top, heapGiven)
BY HeapConstantsFit DEF HeapInv, HeapFine, TypeFine, HeapArray, HeapConstants

LEMMA HeapAddNode ==
  ASSUME HeapInv, NEW v \in Values, Heap!AddNode(v)
  PROVE  HeapInv'
<1>1. /\ ~ top /\ sel = Heap!Idle /\ heapNodes < HeapSize
      /\ heap' = [heap EXCEPT ![heapNodes] = v]
      /\ heapNodes' = heapNodes + 1
      /\ heapGiven' = OneMore(heapGiven, v)
      /\ order' = <<"none", 0>>
      /\ top' = top /\ sel' = sel
  BY DEF Heap!AddNode, OneMore
<1>2. heap \in HeapArray /\ heapNodes \in 0 .. HeapSize - 1
  BY <1>1, HeapFacts
<1>3. /\ heap' \in HeapArray /\ heap'[heapNodes] = v /\ \A i \in 0 .. heapNodes - 1 : heap'[i] = heap[i]
      /\ CountsOf(heap', heapNodes + 1) = OneMore(CountsOf(heap, heapNodes), v)
  <2>1. LET b == [heap EXCEPT ![heapNodes] = v] IN
          /\ b \in HeapArray /\ b[heapNodes] = v /\ \A i \in 0 .. heapNodes - 1 : b[i] = heap[i]
          /\ CountsOf(b, heapNodes + 1) = OneMore(CountsOf(heap, heapNodes), v)
    BY <1>2, CountsMore
  <2> QED
    BY <1>1, <2>1
<1>4. OrderFine(heap', heapNodes', top', sel', order')
  BY <1>1 DEF OrderFine
<1>5. TypeFine(heap', heapNodes', top', sel', heapGiven', order')
  <2>1. heapGiven' \in [Values -> Nat]
    BY <1>1, HeapFacts, AboveMore
  <2>2. heapNodes + 1 \in 0 .. HeapSize
    BY <1>1, <1>2, HeapFacts
  <2>3. \A i \in 0 .. (heapNodes + 1) - 1 : i \in 0 .. heapNodes - 1 \/ i = heapNodes
    BY <1>2
  <2>4. \A i \in 0 .. (heapNodes + 1) - 1 : heap'[i] \in Values
    BY <1>3, <2>3, HeapFacts DEF TypeFine
  <2> QED
    BY <1>1, <1>3, <2>1, <2>2, <2>4, HeapFacts DEF TypeFine
<1>6. HoldFine(heap', heapNodes', top', heapGiven')
  BY <1>1, <1>3, HeapFacts DEF HoldFine
<1> QED
  BY <1>4, <1>5, <1>6 DEF HeapInv, HeapFine

LEMMA HeapCreate ==
  ASSUME HeapInv, NEW max \in BOOLEAN, Heap!CreateMaxOrMinHeap(max)
  PROVE  HeapInv'
<1>1. /\ ~ top /\ sel = Heap!Idle
      /\ heap' = Heap!CreateHeap(heap, heapNodes, max)
      /\ order' = <<IF max THEN "max" ELSE "min", 0>>
      /\ heapNodes' = heapNodes /\ top' = top /\ sel' = sel /\ heapGiven' = heapGiven
  BY DEF Heap!CreateMaxOrMinHeap
<1>2. SiftsTo(heap, heap', HeapSize - 1, heapNodes, 0, max)
  BY <1>1, HeapFacts, CreateHeapIs
<1>3. OrderFine(heap', heapNodes, top, sel, order')
  BY <1>1, <1>2 DEF OrderFine, SiftsTo
<1>4. sel \in [biggest : BOOLEAN, left : Int, right : Int, k : Int]
  BY HeapFacts DEF TypeFine
<1>5. heap' \in HeapArray /\ Rearranged(heap, heap', heapNodes, 0, heapNodes - 1)
  BY <1>2 DEF SiftsTo, HeapArray
<1>6. HeapFine(heap, heapNodes, top, sel, heapGiven, order)
  BY DEF HeapInv
<1>7. HeapFine(heap', heapNodes, top, sel, heapGiven, order')
  BY <1>1, <1>3, <1>4, <1>5, <1>6, FineRearranged
<1> QED
  BY <1>1, <1>7 DEF HeapInv

LEMMA AscendingHeap ==
  ASSUME NEW a \in HeapArray, NEW n \in 0 .. HeapSize, Ascends(a, n)
  PROVE  HeapFrom(a, n, 0, FALSE)
<1> SUFFICES ASSUME NEW p \in Nat, NEW c \in {2 * p + 1, 2 * p + 2}, c < n
             PROVE  ~ IsBefore(FALSE, a[c], a[p])
  BY DEF HeapFrom, KidsBehind
<1>1. HeapSize \in Nat
  BY HeapConstantsFit DEF HeapConstants
<1>2. c \in 0 .. n - 1 /\ p \in 0 .. n - 1 /\ p < c /\ c \in 0 .. HeapSize - 1 /\ p \in 0 .. HeapSize - 1
  BY <1>1
<1>3. a[p] <= a[c] /\ a[p] \in Int /\ a[c] \in Int
  BY <1>2 DEF Ascends, HeapArray
<1> QED
  BY <1>3 DEF IsBefore, Heap!Before

LEMMA HeapSort ==
  ASSUME HeapInv, Heap!SortHeap
  PROVE  HeapInv'
<1> DEFINE b == Heap!CreateHeap(heap, heapNodes, TRUE)
<1>1. /\ sel = Heap!Idle
      /\ heap' = Heap!SortDown(b, heapNodes)
      /\ order' = <<"sorted", 0>>
      /\ heapNodes' = heapNodes /\ top' = top /\ sel' = sel /\ heapGiven' = heapGiven
  BY DEF Heap!SortHeap
<1> HIDE DEF b
<1>2. SiftsTo(heap, b, HeapSize - 1, heapNodes, 0, TRUE)
  <2>1. TRUE \in BOOLEAN
    OBVIOUS
  <2> QED
    BY <2>1, HeapFacts, CreateHeapIs DEF b
<1>3. b \in HeapArray /\ Rearranged(heap, b, heapNodes, 0, heapNodes - 1) /\ HeapFrom(b, heapNodes, 0, TRUE)
  BY <1>2 DEF SiftsTo, HeapArray
<1>4. heap' \in HeapArray /\ Ascends(heap', heapNodes) /\ Rearranged(b, heap', heapNodes, 0, heapNodes - 1)
  BY <1>1, <1>3, HeapFacts, SortDownIs DEF HeapArray
<1>5. Rearranged(heap, heap', heapNodes, 0, heapNodes - 1)
  <2>1. DOMAIN b = DOMAIN heap
    BY <1>3, HeapFacts DEF HeapArray
  <2> QED
    BY <1>3, <1>4, <2>1, RearrangedAgain
<1>6. OrderFine(heap', heapNodes, top, sel, order')
  <2>1. HeapFrom(heap', heapNodes, 0, FALSE)
    BY <1>4, HeapFacts, AscendingHeap
  <2> QED
    BY <1>1, <1>4, <2>1 DEF OrderFine
<1>7. sel \in [biggest : BOOLEAN, left : Int, right : Int, k : Int]
  BY HeapFacts DEF TypeFine
<1>8. HeapFine(heap, heapNodes, top, sel, heapGiven, order)
  BY DEF HeapInv
<1>9. HeapFine(heap', heapNodes, top, sel, heapGiven, order')
  BY <1>1, <1>4, <1>5, <1>6, <1>7, <1>8, FineRearranged
<1> QED
  BY <1>1, <1>9 DEF HeapInv

LEMMA HeapSelect ==
  ASSUME HeapInv, NEW max \in BOOLEAN, NEW k \in 1 .. heapNodes, Heap!Select(max, k)
  PROVE  HeapInv'
<1>1. /\ ~ top /\ sel = Heap!Idle
      /\ sel' = [biggest |-> max, left |-> 0, right |-> heapNodes - 1, k |-> k]
      /\ order' = <<"none", 0>>
      /\ heap' = heap /\ heapNodes' = heapNodes /\ top' = top /\ heapGiven' = heapGiven
  BY DEF Heap!Select
<1>2. /\ sel' \in [biggest : BOOLEAN, left : Int, right : Int, k : Int]
      /\ 0 <= sel'.left /\ sel'.right <= heapNodes - 1 /\ order'[1] = "none"
  BY <1>1, HeapFacts
<1>3. OrderFine(heap, heapNodes, top, sel', order')
  <2>1. sel'.k - 1 \in sel'.left .. sel'.right
    BY <1>1, HeapFacts
  <2>2. Sep(heap, heapNodes, max, 0) /\ Sep(heap, heapNodes, max, (heapNodes - 1) + 1)
    BY HeapFacts DEF Sep
  <2> QED
    BY <1>1, <2>1, <2>2 DEF OrderFine
<1>4. HeapFine(heap, heapNodes, top, sel, heapGiven, order) /\ heap \in HeapArray
      /\ Rearranged(heap, heap, heapNodes, 0, heapNodes - 1)
  BY HeapFacts, NotRearranged DEF HeapInv
<1>5. HeapFine(heap, heapNodes, top, sel', heapGiven, order')
  BY <1>1, <1>2, <1>3, <1>4, FineRearranged
<1> QED
  BY <1>1, <1>5 DEF HeapInv

(* What a rearrangement of l .. r leaves of a place that divides the nodes *)
(* before or behind it.                                                    *)
LEMMA SepStays ==
  ASSUME NEW a \in HeapArray, NEW n \in 0 .. HeapSize, NEW b, NEW max, NEW k \in Int, NEW l \in Int, NEW r \in Int,
         0 <= l, r <= n - 1, Rearranged(a, b, n, l, r), k <= l \/ k > r, Sep(a, n, max, k)
  PROVE  Sep(b, n, max, k)
<1>1. HeapSize \in Nat
  BY HeapConstantsFit DEF HeapConstants
<1>2. ASSUME NEW x \in 0 .. n - 1 PROVE \E y \in 0 .. n - 1 : b[x] = a[y] /\ (x < k <=> y < k)
  <2>1. CASE x \in l .. r
    <3>1. PICK y \in l .. r : b[x] = a[y]
      BY <2>1 DEF Rearranged
    <3>2. y \in 0 .. n - 1 /\ (x < k <=> y < k)
      BY <2>1
    <3> QED
      BY <3>1, <3>2
  <2>2. CASE x \notin l .. r
    <3>1. x \in DOMAIN a
      BY <1>1 DEF HeapArray
    <3> QED
      BY <2>2, <3>1 DEF Rearranged
  <2> QED
    BY <2>1, <2>2
<1>3. SUFFICES ASSUME NEW i \in 0 .. n - 1, NEW j \in 0 .. n - 1, i < k, k <= j
               PROVE  ~ IsBefore(max, b[j], b[i])
  BY DEF Sep
<1>4. PICK x \in 0 .. n - 1 : b[i] = a[x] /\ x < k
  BY <1>2, <1>3
<1>5. PICK y \in 0 .. n - 1 : b[j] = a[y] /\ k <= y
  <2>1. ~ (j < k)
    BY <1>3
  <2>2. PICK y \in 0 .. n - 1 : b[j] = a[y] /\ ~ (y < k)
    BY <1>2, <2>1
  <2> QED
    BY <2>2
<1> QED
  BY <1>4, <1>5 DEF Sep

(* The pivot's place and the one after it divide the nodes.                *)
LEMMA SepAtPivot ==
  ASSUME NEW a \in HeapArray, NEW n \in 0 .. HeapSize, NEW max \in BOOLEAN,
         NEW left \in 0 .. n - 1, NEW right \in left .. n - 1, NEW c, NEW p,
         Parted(c, p, HeapSize - 1, n, left, right, max), a = p[1],
         Sep(a, n, max, left), Sep(a, n, max, right + 1), NEW k \in {p[2], p[2] + 1}
  PROVE  Sep(a, n, max, k)
<1> DEFINE pos == p[2]
<1>1. HeapSize \in Nat
  BY HeapConstantsFit DEF HeapConstants
<1>2. /\ pos \in left .. right
      /\ \A j \in left .. pos - 1 : IsBefore(max, a[j], a[pos])
      /\ \A j \in pos + 1 .. right : ~ IsBefore(max, a[j], a[pos])
  BY DEF Parted
<1>3. k \in {pos, pos + 1}
  OBVIOUS
<1> HIDE DEF pos
<1>4. SUFFICES ASSUME NEW i \in 0 .. n - 1, NEW j \in 0 .. n - 1, i < k, k <= j
               PROVE  ~ IsBefore(max, a[j], a[i])
  BY DEF Sep
<1>5. /\ i \in 0 .. HeapSize - 1 /\ j \in 0 .. HeapSize - 1 /\ pos \in 0 .. HeapSize - 1
      /\ a[i] \in Int /\ a[j] \in Int /\ a[pos] \in Int
  BY <1>1, <1>2 DEF HeapArray
<1>6. CASE i < left
  <2>1. left <= j
    BY <1>2, <1>3, <1>4
  <2> QED
    BY <1>6, <2>1 DEF Sep
<1>7. CASE j > right
  <2>1. i < right + 1 /\ right + 1 <= j
    BY <1>2, <1>3, <1>4, <1>7
  <2> QED
    BY <2>1 DEF Sep
<1>8. CASE ~ (i < left) /\ ~ (j > right)
  <2>1. i = pos \/ i \in left .. pos - 1
    BY <1>2, <1>3, <1>4, <1>8
  <2>2. j = pos \/ j \in pos + 1 .. right
    BY <1>2, <1>3, <1>4, <1>8
  <2>3. i # j
    BY <1>2, <1>3, <1>4
  <2>4. ~ IsBefore(max, a[j], a[pos])
    BY <1>2, <1>5, <2>2, BeforeOrder
  <2>5. ~ IsBefore(max, a[pos], a[i])
    BY <1>2, <1>5, <2>1, BeforeOrder
  <2> QED
    BY <1>5, <2>4, <2>5, BeforeOrder
<1> QED
  BY <1>6, <1>7, <1>8

LEMMA HeapSelectStep ==
  ASSUME HeapInv, Heap!SelectStep
  PROVE  HeapInv'
<1> DEFINE N == HeapSize - 1
           n == heapNodes
           max == sel.biggest
           left == sel.left
           right == sel.right
<1>1. PICK index \in IF sel.biggest THEN sel.left .. sel.right ELSE {sel.left} :
        LET a == IF sel.biggest THEN heap ELSE Heap!MedianLeft(heap, sel.left, sel.right)
            p == Heap!Partition(Heap!ExchangeNodes(a, index, sel.right), sel.left, sel.right, sel.biggest)
        IN  /\ heap' = p[1]
            /\ sel' = Heap!Narrowed(p[2])
            /\ order' = IF sel' = Heap!Idle THEN <<IF sel.biggest THEN "big" ELSE "small", sel.k>> ELSE order
  BY DEF Heap!SelectStep
<1>2. /\ sel # Heap!Idle /\ heapNodes' = heapNodes /\ top' = top /\ heapGiven' = heapGiven
      /\ order[1] = "none"
  BY HeapFacts DEF Heap!SelectStep, TypeFine
<1> DEFINE a == IF max THEN heap ELSE Heap!MedianLeft(heap, left, right)
           b == Heap!ExchangeNodes(a, index, right)
           p == Heap!Partition(b, left, right, max)
<1>3. /\ heap' = p[1]
      /\ sel' = Heap!Narrowed(p[2])
      /\ order' = IF sel' = Heap!Idle THEN <<IF max THEN "big" ELSE "small", sel.k>> ELSE order
  BY <1>1
<1>4. /\ sel \in [biggest : BOOLEAN, left : Int, right : Int, k : Int] /\ ~ top
      /\ max \in BOOLEAN /\ left \in 0 .. n - 1 /\ right \in left .. n - 1 /\ sel.k - 1 \in left .. right
      /\ Sep(heap, n, max, left) /\ Sep(heap, n, max, right + 1)
  <2>1. /\ sel \in [biggest : BOOLEAN, left : Int, right : Int, k : Int] /\ ~ top
        /\ 0 <= left /\ right <= n - 1 /\ sel.k - 1 \in left .. right
        /\ Sep(heap, n, max, left) /\ Sep(heap, n, max, right + 1)
    BY <1>2, HeapFacts DEF TypeFine, OrderFine
  <2>2. left \in Int /\ right \in Int /\ max \in BOOLEAN /\ sel.k \in Int
    BY <2>1
  <2> QED
    BY <2>1, <2>2, HeapFacts
<1>5. index \in left .. right /\ right \in left .. right
  BY <1>1, <1>4
<1> HIDE DEF max, left, right
<1>6. ExchangesTo(heap, a, N, n, left, right)
  <2>1. ExchangesTo(heap, heap, N, n, left, right)
    BY HeapFacts, NotRearranged DEF ExchangesTo
  <2>2. ExchangesTo(heap, Heap!MedianLeft(heap, left, right), N, n, left, right)
    BY <1>4, HeapFacts, MedianIs
  <2> QED
    BY <2>1, <2>2
<1> HIDE DEF a
<1>7. ExchangesTo(heap, b, N, n, left, right)
  BY <1>4, <1>5, <1>6, HeapFacts, OneExchange
<1> HIDE DEF b
<1>8. Parted(b, p, N, n, left, right, max)
  <2>1. b \in [0 .. N -> Int]
    BY <1>7 DEF ExchangesTo
  <2>2. max \in BOOLEAN /\ left \in 0 .. n - 1 /\ right \in left .. n - 1
    BY <1>4
  <2>3. N \in Int /\ n \in Nat /\ n - 1 <= N
    BY HeapFacts
  <2> QED
    BY <2>1, <2>2, <2>3, PartitionIs
<1> HIDE DEF p
<1>9. heap' \in HeapArray /\ Rearranged(heap, heap', n, left, right) /\ p[2] \in left .. right
  <2>1. p[1] \in [0 .. N -> Int] /\ Rearranged(b, p[1], n, left, right) /\ p[2] \in left .. right
    BY <1>8 DEF Parted
  <2>2. b \in [0 .. N -> Int] /\ Rearranged(heap, b, n, left, right) /\ DOMAIN b = DOMAIN heap
    BY <1>7, HeapFacts DEF ExchangesTo
  <2>3. Rearranged(heap, p[1], n, left, right)
    BY <2>1, <2>2, RearrangedAgain
  <2> QED
    BY <1>3, <2>1, <2>3 DEF HeapArray
<1>10. Sep(heap', n, max, left) /\ Sep(heap', n, max, right + 1)
  <2>1. left \in Int /\ right \in Int /\ right + 1 \in Int /\ 0 <= left /\ right <= n - 1 /\ left <= left /\ right + 1 > right
    BY <1>4
  <2>2. Sep(heap', n, max, left)
    BY <1>4, <1>9, <2>1, HeapFacts, SepStays
  <2>3. Sep(heap', n, max, right + 1)
    BY <1>4, <1>9, <2>1, HeapFacts, SepStays
  <2> QED
    BY <2>2, <2>3
<1>11. Sep(heap', n, max, p[2]) /\ Sep(heap', n, max, p[2] + 1)
  BY <1>3, <1>4, <1>8, <1>9, <1>10, HeapFacts, SepAtPivot
<1> DEFINE pos == p[2]
<1>12. /\ sel' \in [biggest : BOOLEAN, left : Int, right : Int, k : Int]
       /\ sel' # Heap!Idle => 0 <= sel'.left /\ sel'.right <= n - 1 /\ order'[1] = "none"
       /\ OrderFine(heap', n, top, sel', order')
  <2>1. sel' = IF pos = sel.k - 1 THEN Heap!Idle
               ELSE IF pos > sel.k - 1 THEN [sel EXCEPT !.right = pos - 1] ELSE [sel EXCEPT !.left = pos + 1]
    BY <1>3 DEF Heap!Narrowed
  <2>2. pos \in left .. right /\ pos \in Int /\ sel.k \in Int /\ left \in Int /\ right \in Int
    BY <1>4, <1>9
  <2> HIDE DEF pos
  <2>3. CASE pos = sel.k - 1
    <3>1. sel' = Heap!Idle /\ order' = <<IF max THEN "big" ELSE "small", sel.k>> /\ pos + 1 = sel.k
      BY <1>3, <2>1, <2>2, <2>3
    <3>2. sel' \in [biggest : BOOLEAN, left : Int, right : Int, k : Int]
      BY <3>1 DEF Heap!Idle
    <3>3. Sep(heap', n, max, sel.k)
      BY <1>11, <3>1 DEF pos
    <3>4. OrderFine(heap', n, top, sel', order')
      <4>1. sel.k = order'[2] /\ order'[1] = (IF max THEN "big" ELSE "small")
        BY <3>1
      <4> QED
        BY <1>4, <3>1, <3>3, <4>1 DEF OrderFine
    <3> QED
      BY <3>1, <3>2, <3>4
  <2>4. CASE pos # sel.k - 1
    <3>1. sel.biggest = max /\ sel.left = left /\ sel.right = right
      BY DEF max, left, right
    <3>2. /\ sel' \in [biggest : BOOLEAN, left : Int, right : Int, k : Int]
          /\ 0 <= sel'.left /\ sel'.right <= n - 1 /\ sel'.biggest = max
          /\ sel'.k - 1 \in sel'.left .. sel'.right
          /\ Sep(heap', n, max, sel'.left) /\ Sep(heap', n, max, sel'.right + 1)
      <4>1. CASE pos > sel.k - 1
        <5>1. sel' = [sel EXCEPT !.right = pos - 1]
          BY <2>1, <2>4, <4>1
        <5>2. sel'.left = left /\ sel'.right = pos - 1 /\ sel'.biggest = max /\ sel'.k = sel.k
              /\ sel' \in [biggest : BOOLEAN, left : Int, right : Int, k : Int]
          BY <1>4, <2>2, <3>1, <5>1
        <5>3. (pos - 1) + 1 = pos /\ 0 <= left /\ pos - 1 <= n - 1 /\ sel.k - 1 \in left .. pos - 1
          <6>1. n \in Nat
            BY HeapFacts
          <6> QED
            BY <1>4, <2>2, <4>1, <6>1
        <5>4. Sep(heap', n, max, pos)
          BY <1>11 DEF pos
        <5> QED
          BY <1>10, <5>2, <5>3, <5>4
      <4>2. CASE ~ (pos > sel.k - 1)
        <5>1. sel' = [sel EXCEPT !.left = pos + 1]
          BY <2>1, <2>4, <4>2
        <5>2. sel'.left = pos + 1 /\ sel'.right = right /\ sel'.biggest = max /\ sel'.k = sel.k
              /\ sel' \in [biggest : BOOLEAN, left : Int, right : Int, k : Int]
          BY <1>4, <2>2, <3>1, <5>1
        <5>3. 0 <= pos + 1 /\ right <= n - 1 /\ sel.k - 1 \in pos + 1 .. right
          BY <1>4, <2>2, <2>4, <4>2
        <5>4. Sep(heap', n, max, pos + 1)
          BY <1>11 DEF pos
        <5> QED
          BY <1>10, <5>2, <5>3, <5>4
      <4> QED
        BY <4>1, <4>2
    <3>4. sel' # Heap!Idle
      <4>1. sel'.k > 0
        BY <3>2
      <4> QED
        BY <4>1 DEF Heap!Idle
    <3>3. order' = order /\ order'[1] = "none"
      BY <1>2, <1>3, <3>4
    <3>5. OrderFine(heap', n, top, sel', order')
      BY <1>4, <3>2, <3>3 DEF OrderFine
    <3> QED
      BY <3>2, <3>3, <3>5
  <2>5. pos = sel.k - 1 \/ pos # sel.k - 1
    OBVIOUS
  <2> QED
    BY <2>3, <2>4, <2>5, ZenonT(30)
<1>13. Rearranged(heap, heap', n, 0, n - 1)
  <2>1. left .. right \subseteq 0 .. n - 1
    BY <1>4, HeapFacts
  <2>2. 0 .. n - 1 \subseteq DOMAIN heap
    BY HeapFacts
  <2> QED
    BY <1>9, <2>1, <2>2, RearrangedWithin
<1>14. HeapFine(heap, n, top, sel, heapGiven, order)
  BY DEF HeapInv
<1>15. HeapFine(heap', n, top, sel', heapGiven, order')
  BY <1>4, <1>9, <1>12, <1>13, <1>14, FineRearranged
<1> QED
  BY <1>2, <1>15 DEF HeapInv

(* Nothing below the root of a min heap is less.                           *)
LEMMA RootIsLeast ==
  ASSUME NEW a \in HeapArray, NEW n \in 1 .. HeapSize, \A i \in 0 .. n - 1 : a[i] \in Values,
         HeapFrom(a, n, 0, FALSE)
  PROVE  LeastIs(CountsOf(a, n), a[0]) /\ a[0] \in Values
<1>1. /\ HeapSize \in Nat /\ n \in Nat /\ n - 1 <= HeapSize - 1 /\ 0 \in 0 .. n - 1
      /\ Values \subseteq Int /\ a \in [0 .. HeapSize - 1 -> Int] /\ HeapSize - 1 \in Int
  BY HeapConstantsFit DEF HeapConstants, HeapArray
<1>2. a[0] \in Values
  BY <1>1
<1>3. CountsOf(a, n)[a[0]] > 0
  <2>1. 0 \in Places(a, n, a[0])
    BY <1>1 DEF Places
  <2>2. CountIn(a, n, a[0]) # 0 /\ CountIn(a, n, a[0]) \in Nat
    <3>1. IsFiniteSet(Places(a, n, a[0])) /\ CountIn(a, n, a[0]) \in Nat
      BY <1>1, PlacesFinite
    <3>2. CountIn(a, n, a[0]) = 0 <=> Places(a, n, a[0]) = {}
      BY <3>1, FS_EmptySet DEF CountIn
    <3> QED
      BY <2>1, <3>1, <3>2
  <2> QED
    BY <1>2, <2>2 DEF CountsOf
<1>4. ASSUME NEW w \in Values, w < a[0] PROVE CountsOf(a, n)[w] = 0
  <2>1. Places(a, n, w) = {}
    <3>1. SUFFICES ASSUME NEW x \in 0 .. n - 1, a[x] = w PROVE FALSE
      BY DEF Places
    <3>2. ~ IsBefore(FALSE, a[x], a[0])
      <4>1. FALSE \in BOOLEAN
        OBVIOUS
      <4> QED
        BY <1>1, <4>1, RootFirst
    <3> QED
      BY <1>4, <3>1, <3>2 DEF IsBefore, Heap!Before
  <2> QED
    BY <2>1, FS_EmptySet DEF CountsOf, CountIn
<1> QED
  BY <1>2, <1>3, <1>4 DEF LeastIs

(* What a shown node must leave of a CTopNHeap.                            *)
LEMMA HeapCheckTo ==
  ASSUME HeapInv, top, NEW v \in Values, heap' \in HeapArray, heapNodes' \in 0 .. HeapSize,
         HeapFrom(heap', heapNodes', 0, FALSE), \A i \in 0 .. heapNodes' - 1 : heap'[i] \in Values,
         Fits(CountsOf(heap', heapNodes'), OneMore(heapGiven, v), heapNodes', HeapSize),
         heapGiven' = OneMore(heapGiven, v), order' = <<"none", 0>>, top' = top, sel' = sel
  PROVE  HeapInv'
<1>1. OrderFine(heap', heapNodes', top', sel', order')
  <2>1. sel = Heap!Idle
    BY HeapFacts DEF TypeFine
  <2> QED
    BY <2>1 DEF OrderFine
<1>2. TypeFine(heap', heapNodes', top', sel', heapGiven', order')
  <2>1. heapGiven' \in [Values -> Nat]
    BY HeapFacts, AboveMore
  <2> QED
    BY <2>1, HeapFacts DEF TypeFine
<1>3. HoldFine(heap', heapNodes', top', heapGiven')
  BY DEF HoldFine
<1> QED
  BY <1>1, <1>2, <1>3 DEF HeapInv, HeapFine

LEMMA HeapCheckFills ==
  ASSUME HeapInv, top, NEW v \in Values, heapNodes < HeapSize,
         heap' = Heap!CreateHeap([heap EXCEPT ![heapNodes] = v], heapNodes + 1, FALSE),
         heapNodes' = heapNodes + 1,
         heapGiven' = OneMore(heapGiven, v), order' = <<"none", 0>>, top' = top, sel' = sel
  PROVE  HeapInv'
<1> DEFINE c == [heap EXCEPT ![heapNodes] = v]
           m == heapNodes + 1
<1>1. /\ heap \in HeapArray /\ heapNodes \in 0 .. HeapSize - 1 /\ m \in 0 .. HeapSize /\ m \in Nat
      /\ m - 1 <= HeapSize - 1 /\ HeapSize - 1 \in Int
  BY HeapFacts
<1>2. /\ c \in HeapArray /\ c[heapNodes] = v /\ \A i \in 0 .. heapNodes - 1 : c[i] = heap[i]
      /\ CountsOf(c, m) = OneMore(CountsOf(heap, heapNodes), v)
  BY <1>1, CountsMore
<1>3. \A i \in 0 .. m - 1 : c[i] \in Values
  <2>1. \A i \in 0 .. m - 1 : i \in 0 .. heapNodes - 1 \/ i = heapNodes
    BY <1>1
  <2>2. \A i \in 0 .. heapNodes - 1 : heap[i] \in Values
    BY HeapFacts DEF TypeFine
  <2> HIDE DEF c, m
  <2> QED
    BY <1>2, <2>1, <2>2
<1>4. heap' = Heap!CreateHeap(c, m, FALSE) /\ heapNodes' = m
  OBVIOUS
<1> HIDE DEF c
<1>5. SiftsTo(c, heap', HeapSize - 1, m, 0, FALSE)
  <2>1. c \in [0 .. HeapSize - 1 -> Int] /\ FALSE \in BOOLEAN
    BY <1>2 DEF HeapArray
  <2> HIDE DEF m
  <2> QED
    BY <1>1, <1>4, <2>1, CreateHeapIs
<1>6. Fits(OneMore(CountsOf(heap, heapNodes), v), OneMore(heapGiven, v), m, HeapSize)
  <2>1. Fits(CountsOf(heap, heapNodes), heapGiven, heapNodes, HeapSize)
    BY HeapFacts DEF HoldFine
  <2>2. heapNodes \in Nat /\ HeapSize \in Nat
    BY HeapFacts
  <2> QED
    BY <2>1, <2>2, FitsMore
<1> HIDE DEF m
<1>7. heap' \in HeapArray /\ HeapFrom(heap', m, 0, FALSE) /\ Rearranged(c, heap', m, 0, m - 1)
  BY <1>5 DEF SiftsTo, HeapArray
<1>8. CountsOf(heap', m) = CountsOf(c, m) /\ \A i \in 0 .. m - 1 : heap'[i] \in Values
  <2> DEFINE b == heap'
  <2>1. Rearranged(c, b, m, 0, m - 1)
    BY <1>7
  <2>2. OfValues(c, m)
    BY <1>3 DEF OfValues
  <2> HIDE DEF b
  <2>3. CountsOf(b, m) = CountsOf(c, m) /\ OfValues(b, m)
    BY <2>1, <2>2, RearrangedHolds
  <2> QED
    BY <2>3 DEF OfValues, b
<1> QED
  BY <1>1, <1>2, <1>4, <1>6, <1>7, <1>8, HeapCheckTo

LEMMA HeapCheckReplaces ==
  ASSUME HeapInv, top, NEW v \in Values, heapNodes = HeapSize, v > heap[0],
         heap' = Heap!Sift([heap EXCEPT ![0] = v], HeapSize, 0, FALSE), heapNodes' = heapNodes,
         heapGiven' = OneMore(heapGiven, v), order' = <<"none", 0>>, top' = top, sel' = sel
  PROVE  HeapInv'
<1> DEFINE c == [heap EXCEPT ![0] = v]
           n == HeapSize
           r == heap[0]
<1>1. /\ heap \in HeapArray /\ heap \in [0 .. n - 1 -> Int] /\ n \in 1 .. HeapSize /\ n \in Nat
      /\ n - 1 <= n - 1 /\ n - 1 \in Int
      /\ 0 \in 0 .. n - 1 /\ 0 + 1 = 1 /\ FALSE \in BOOLEAN
      /\ HeapFrom(heap, n, 0, FALSE) /\ \A i \in 0 .. n - 1 : heap[i] \in Values
  <2>1. HeapSize \in Nat /\ 1 <= HeapSize /\ heap \in HeapArray /\ heap \in [0 .. HeapSize - 1 -> Int]
    BY HeapFacts
  <2>2. HeapFrom(heap, heapNodes, 0, FALSE) /\ \A i \in 0 .. heapNodes - 1 : heap[i] \in Values
    BY HeapFacts DEF TypeFine, OrderFine
  <2>3. heapNodes = n
    OBVIOUS
  <2>4. n \in 1 .. n /\ n \in 0 .. n /\ n \in Nat /\ n - 1 \in Int /\ 0 \in 0 .. n - 1 /\ n - 1 <= n - 1
    BY <2>1
  <2>5. HeapFrom(heap, n, 0, FALSE) /\ \A i \in 0 .. n - 1 : heap[i] \in Values
    BY <2>2, <2>3
  <2>6. heap \in [0 .. n - 1 -> Int] /\ 0 + 1 = 1 /\ FALSE \in BOOLEAN
    BY <2>1
  <2> HIDE DEF n
  <2> QED
    BY <2>1, <2>4, <2>5, <2>6 DEF n
<1>2. LeastIs(CountsOf(heap, n), r) /\ r \in Values
  BY <1>1, RootIsLeast
<1>3. v # r /\ v \in Int /\ r \in Int
  <2>1. \A x, y \in Int : x > y => x # y
    OBVIOUS
  <2>2. v \in Int /\ heap[0] \in Int /\ v > heap[0]
    BY <1>2, HeapConstantsFit DEF HeapConstants
  <2> QED
    BY <2>1, <2>2
<1>4. /\ c \in HeapArray /\ c[0] = v /\ \A i \in 1 .. n - 1 : c[i] = heap[i]
      /\ CountsOf(c, n) = OneMore(OneLess(CountsOf(heap, n), r), v)
  <2>1. LET b == [heap EXCEPT ![0] = v] IN
          /\ b \in HeapArray /\ b[0] = v /\ \A i \in 1 .. HeapSize - 1 : b[i] = heap[i]
          /\ CountsOf(b, HeapSize) = OneMore(OneLess(CountsOf(heap, HeapSize), heap[0]), v)
    <3>1. heap \in HeapArray /\ HeapSize \in 1 .. HeapSize /\ heap[0] \in Values /\ v # heap[0]
      BY <1>1, <1>2, <1>3
    <3> QED
      BY <3>1, CountsInstead
  <2> QED
    BY <2>1
<1>5. heap' = Heap!Sift(c, n, 0, FALSE)
  OBVIOUS
<1> HIDE DEF c, n, r
<1>6. c \in [0 .. n - 1 -> Int]
  BY <1>4 DEF HeapArray, n
<1>7. HeapFrom(c, n, 0 + 1, FALSE)
  <2>1. HeapFrom(c, n, 1, FALSE)
    BY <1>1, <1>4, RootReplaced
  <2> QED
    BY <1>1, <2>1
<1>8. SiftsTo(c, heap', n - 1, n, 0, FALSE)
  BY <1>1, <1>5, <1>6, <1>7, SiftIs
<1>9. heap' \in HeapArray /\ HeapFrom(heap', n, 0, FALSE) /\ Rearranged(c, heap', n, 0, n - 1)
  BY <1>8 DEF SiftsTo, HeapArray, n
<1>10. \A i \in 0 .. n - 1 : c[i] \in Values
  <2>1. \A i \in 0 .. n - 1 : i = 0 \/ i \in 1 .. n - 1
    BY <1>1
  <2> QED
    BY <1>1, <1>4, <2>1
<1>11. CountsOf(heap', n) = CountsOf(c, n) /\ \A i \in 0 .. n - 1 : heap'[i] \in Values
  <2> DEFINE b == heap'
  <2>1. Rearranged(c, b, n, 0, n - 1)
    BY <1>9
  <2>2. OfValues(c, n)
    BY <1>10 DEF OfValues
  <2> HIDE DEF b
  <2>3. CountsOf(b, n) = CountsOf(c, n) /\ OfValues(b, n)
    BY <2>1, <2>2, RearrangedHolds
  <2> QED
    BY <2>3 DEF OfValues, b
<1>12. Fits(OneMore(OneLess(CountsOf(heap, n), r), v), OneMore(heapGiven, v), n, n)
  <2>1. Fits(CountsOf(heap, n), heapGiven, n, n)
    BY HeapFacts DEF HoldFine, n
  <2>2. v > r
    BY DEF r
  <2> QED
    BY <1>1, <1>2, <2>1, <2>2, FitsInstead
<1>13. heapNodes' = n /\ n \in 0 .. HeapSize /\ n = HeapSize
  BY <1>1 DEF n
<1>14. Fits(CountsOf(heap', n), OneMore(heapGiven, v), n, HeapSize)
  BY <1>4, <1>11, <1>12, <1>13
<1> QED
  BY <1>9, <1>11, <1>13, <1>14, HeapCheckTo

LEMMA HeapCheckPasses ==
  ASSUME HeapInv, top, NEW v \in Values, heapNodes = HeapSize, v <= heap[0],
         heap' = heap, heapNodes' = heapNodes,
         heapGiven' = OneMore(heapGiven, v), order' = <<"none", 0>>, top' = top, sel' = sel
  PROVE  HeapInv'
<1> DEFINE n == HeapSize
           r == heap[0]
<1>1. /\ heap \in HeapArray /\ n \in 1 .. HeapSize /\ n \in Nat /\ n \in 0 .. HeapSize
      /\ HeapFrom(heap, n, 0, FALSE) /\ \A i \in 0 .. n - 1 : heap[i] \in Values
  <2>1. HeapSize \in Nat /\ 1 <= HeapSize /\ heap \in HeapArray /\ heap \in [0 .. HeapSize - 1 -> Int]
    BY HeapFacts
  <2>2. HeapFrom(heap, heapNodes, 0, FALSE) /\ \A i \in 0 .. heapNodes - 1 : heap[i] \in Values
    BY HeapFacts DEF TypeFine, OrderFine
  <2>3. heapNodes = n
    OBVIOUS
  <2>4. n \in 1 .. n /\ n \in 0 .. n /\ n \in Nat /\ n - 1 \in Int /\ 0 \in 0 .. n - 1 /\ n - 1 <= n - 1
    BY <2>1
  <2>5. HeapFrom(heap, n, 0, FALSE) /\ \A i \in 0 .. n - 1 : heap[i] \in Values
    BY <2>2, <2>3
  <2> QED
    BY <2>1, <2>4, <2>5
<1>2. LeastIs(CountsOf(heap, n), r) /\ r \in Values
  BY <1>1, RootIsLeast
<1>3. heap' = heap /\ heapNodes' = n
  OBVIOUS
<1>4. Fits(CountsOf(heap, n), heapGiven, n, n) /\ v <= r /\ n = HeapSize
  BY HeapFacts DEF HoldFine
<1> HIDE DEF n, r
<1>5. Fits(CountsOf(heap, n), OneMore(heapGiven, v), n, n)
  BY <1>1, <1>2, <1>4, FitsStill
<1> QED
  BY <1>1, <1>3, <1>4, <1>5, HeapCheckTo

LEMMA HeapCheckNode ==
  ASSUME HeapInv, NEW v \in Values, Heap!CheckNode(v)
  PROVE  HeapInv'
<1>1. /\ top /\ heapGiven' = OneMore(heapGiven, v) /\ order' = <<"none", 0>>
      /\ top' = top /\ sel' = sel
      /\ \/ /\ heapNodes < HeapSize
            /\ heap' = Heap!CreateHeap([heap EXCEPT ![heapNodes] = v], heapNodes + 1, FALSE)
            /\ heapNodes' = heapNodes + 1
         \/ /\ heapNodes = HeapSize /\ v > heap[0]
            /\ heap' = Heap!Sift([heap EXCEPT ![0] = v], HeapSize, 0, FALSE)
            /\ heapNodes' = heapNodes
         \/ /\ heapNodes = HeapSize /\ v <= heap[0]
            /\ heap' = heap /\ heapNodes' = heapNodes
  BY DEF Heap!CheckNode, OneMore
<1> QED
  BY <1>1, HeapCheckFills, HeapCheckReplaces, HeapCheckPasses

LEMMA HeapBorn ==
  ASSUME NEW isTop \in BOOLEAN, Heap!InitWith(isTop)
  PROVE  HeapInv
<1>0. /\ HeapSize \in Nat /\ 0 \in 0 .. HeapSize /\ HeapSize - 1 \in Int
      /\ IsFiniteSet(Values) /\ Values \subseteq Int
  BY HeapConstantsFit DEF HeapConstants
<1>1. /\ heap = [i \in 0 .. HeapSize - 1 |-> 0] /\ heapNodes = 0 /\ top = isTop /\ sel = Heap!Idle
      /\ heapGiven = [v \in Values |-> 0] /\ order = <<"none", 0>>
  BY DEF Heap!InitWith
<1>2. 0 .. 0 - 1 = {} /\ heapGiven \in [Values -> Nat] /\ heap \in HeapArray
  BY <1>1 DEF HeapArray
<1>3. TypeFine(heap, heapNodes, top, sel, heapGiven, order)
  <2>1. Heap!Idle \in [biggest : BOOLEAN, left : Int, right : Int, k : Int]
    BY DEF Heap!Idle
  <2> QED
    BY <1>0, <1>1, <1>2, <2>1 DEF TypeFine
<1>4. OrderFine(heap, heapNodes, top, sel, order)
  <2>1. HeapFrom(heap, 0, 0, FALSE)
    BY DEF HeapFrom, KidsBehind
  <2> QED
    BY <1>1, <2>1 DEF OrderFine
<1>5. CountsOf(heap, 0) = heapGiven
  <2>1. \A v \in Values : CountIn(heap, 0, v) = 0
    <3>1. \A v \in Values : Places(heap, 0, v) = {}
      BY <1>2 DEF Places
    <3> QED
      BY <3>1, FS_EmptySet DEF CountIn
  <2> QED
    BY <1>1, <2>1 DEF CountsOf
<1>6. Fits(heapGiven, heapGiven, 0, HeapSize)
  <2>1. SumOf(heapGiven, Values) = 0
    <3>1. heapGiven \in [Values -> Int] /\ \A v \in Values : heapGiven[v] = 0
      BY <1>1
    <3> QED
      BY <1>0, <3>1, SumOfNothing
  <2>2. ASSUME NEW w \in Values PROVE heapGiven[w] = Kept(heapGiven, HeapSize, w)
    <3>1. Above(heapGiven, w) \in Nat /\ Above(heapGiven, w) + heapGiven[w] <= 0 /\ heapGiven[w] = 0
      BY <1>1, <1>2, <2>1, AboveIs
    <3> QED
      BY <1>0, <3>1 DEF Kept
  <2> QED
    BY <1>2, <2>1, <2>2 DEF Fits
<1> QED
  BY <1>1, <1>3, <1>4, <1>5, <1>6 DEF HeapInv, HeapFine, HoldFine

LEMMA HeapStep ==
  ASSUME HeapInv, [Heap!Next]_heapVars
  PROVE  HeapInv'
<1>1. CASE UNCHANGED heapVars
  <2>1. /\ heap' = heap /\ heapNodes' = heapNodes /\ top' = top /\ sel' = sel
        /\ heapGiven' = heapGiven /\ order' = order
    BY <1>1 DEF heapVars
  <2> QED
    BY <2>1 DEF HeapInv
<1>2. ASSUME NEW v \in Values, Heap!AddNode(v) PROVE HeapInv'
  BY <1>2, HeapAddNode
<1>3. ASSUME NEW v \in Values, Heap!CheckNode(v) PROVE HeapInv'
  BY <1>3, HeapCheckNode
<1>4. ASSUME NEW max \in BOOLEAN, Heap!CreateMaxOrMinHeap(max) PROVE HeapInv'
  BY <1>4, HeapCreate
<1>5. ASSUME NEW max \in BOOLEAN, NEW k \in 1 .. heapNodes, Heap!Select(max, k) PROVE HeapInv'
  BY <1>5, HeapSelect
<1>6. CASE Heap!SortHeap
  BY <1>6, HeapSort
<1>7. CASE Heap!SelectStep
  BY <1>7, HeapSelectStep
<1> QED
  BY <1>1, <1>2, <1>3, <1>4, <1>5, <1>6, <1>7 DEF Heap!Next

LEMMA ParentFirst ==
  ASSUME NEW a, NEW n \in Nat, NEW max \in BOOLEAN, HeapFrom(a, n, 0, max), NEW i \in 1 .. n - 1
  PROVE  ~ IsBefore(max, a[i], a[(i - 1) \div 2])
<1>1. i \in Nat \ {0} /\ i < n
  OBVIOUS
<1>2. PICK p \in Nat : p = (i - 1) \div 2 /\ i \in {2 * p + 1, 2 * p + 2}
  BY <1>1, ParentIs
<1>3. ~ IsBefore(max, a[i], a[p])
  <2>1. p \in Nat /\ p >= 0
    BY <1>2
  <2>2. KidsBehind(a, n, max, p, p)
    BY <2>1 DEF HeapFrom
  <2>3. \A k \in {2 * p + 1, 2 * p + 2} : k < n => ~ IsBefore(max, a[k], a[p])
    BY <2>2 DEF KidsBehind
  <2> QED
    BY <1>1, <1>2, <2>3
<1> QED
  BY <1>2, <1>3

LEMMA HeapOrdered ==
  ASSUME HeapInv
  PROVE  Heap!Ordered
<1> DEFINE max == order[1] = "max"
<1>1. /\ heapNodes \in Nat /\ OrderFine(heap, heapNodes, top, sel, order)
      /\ TypeFine(heap, heapNodes, top, sel, heapGiven, order)
  BY HeapFacts
<1>2. ASSUME order[1] = "max" \/ order[1] = "min" \/ top,
             NEW i \in Heap!Held, i > 0
      PROVE  ~ Heap!Before(order[1] = "max", heap[i], heap[(i - 1) \div 2])
  <2>1. CASE max
    <3>1. HeapFrom(heap, heapNodes, 0, TRUE)
      BY <1>1, <2>1 DEF OrderFine
    <3>2. i \in 1 .. heapNodes - 1 /\ TRUE \in BOOLEAN
      BY <1>1, <1>2 DEF Heap!Held
    <3>3. ~ IsBefore(TRUE, heap[i], heap[(i - 1) \div 2])
      BY <1>1, <3>1, <3>2, ParentFirst
    <3> QED
      BY <2>1, <3>3 DEF IsBefore, Heap!Before
  <2>2. CASE ~ max
    <3>1. HeapFrom(heap, heapNodes, 0, FALSE)
      BY <1>1, <1>2, <2>2 DEF OrderFine
    <3>2. i \in 1 .. heapNodes - 1 /\ FALSE \in BOOLEAN
      BY <1>1, <1>2 DEF Heap!Held
    <3>3. ~ IsBefore(FALSE, heap[i], heap[(i - 1) \div 2])
      BY <1>1, <3>1, <3>2, ParentFirst
    <3> QED
      BY <2>2, <3>3 DEF IsBefore, Heap!Before
  <2> QED
    BY <2>1, <2>2
<1>3. ASSUME order[1] = "sorted", NEW i \in Heap!Held, NEW j \in Heap!Held, i < j
      PROVE  heap[i] <= heap[j]
  BY <1>1, <1>3 DEF OrderFine, Ascends, Heap!Held
<1>4. ASSUME order[1] \in {"big", "small"} PROVE Heap!Separated(order[1] = "big", order[2])
  <2>1. CASE order[1] = "big"
    <3>1. Sep(heap, heapNodes, TRUE, order[2])
      BY <1>1, <2>1 DEF OrderFine
    <3> QED
      BY <2>1, <3>1 DEF Heap!Separated, Sep, IsBefore, Heap!Held, Heap!Before
  <2>2. CASE order[1] = "small"
    <3>1. Sep(heap, heapNodes, FALSE, order[2])
      BY <1>1, <2>2 DEF OrderFine
    <3> QED
      BY <2>2, <3>1 DEF Heap!Separated, Sep, IsBefore, Heap!Held, Heap!Before
  <2> QED
    BY <1>4, <2>1, <2>2
<1>5. ASSUME sel # Heap!Idle
      PROVE  /\ sel.k - 1 \in sel.left .. sel.right
             /\ Heap!Separated(sel.biggest, sel.left) /\ Heap!Separated(sel.biggest, sel.right + 1)
  BY <1>1, <1>5 DEF OrderFine, Heap!Separated, Sep, IsBefore, Heap!Held
<1> QED
  BY <1>2, <1>3, <1>4, <1>5 DEF Heap!Ordered

LEMMA KeptIs ==
  ASSUME NEW g \in Nat, NEW x \in Int
  PROVE  Heap!Max({0, Heap!Min({g, x})}) = IF x <= 0 THEN 0 ELSE IF g <= x THEN g ELSE x
<1> DEFINE m == IF g <= x THEN g ELSE x
<1>1. Heap!Min({g, x}) = m
  <2>1. m \in {g, x} /\ \A y \in {g, x} : m <= y
    OBVIOUS
  <2>2. \A z \in {g, x} : (\A y \in {g, x} : z <= y) => z = m
    OBVIOUS
  <2> HIDE DEF m
  <2> QED
    BY <2>1, <2>2 DEF Heap!Min
<1>2. m \in Int /\ (m <= 0 <=> x <= 0 \/ g = 0)
  OBVIOUS
<1>3. Heap!Max({0, m}) = IF m <= 0 THEN 0 ELSE m
  <2> DEFINE h == IF m <= 0 THEN 0 ELSE m
  <2> HIDE DEF m
  <2>1. h \in {0, m} /\ \A y \in {0, m} : h >= y
    BY <1>2
  <2>2. \A z \in {0, m} : (\A y \in {0, m} : z >= y) => z = h
    BY <1>2
  <2> HIDE DEF h
  <2>3. Heap!Max({0, m}) = h
    BY <2>1, <2>2 DEF Heap!Max
  <2> QED
    BY <2>3 DEF h
<1> QED
  BY <1>1, <1>2, <1>3

LEMMA HeapHolds ==
  ASSUME HeapInv
  PROVE  Heap!Holds
<1> SUFFICES ASSUME NEW v \in Values
             PROVE  Heap!Cardinality({i \in Heap!Held : heap[i] = v})
                      = IF top THEN Heap!Max({0, Heap!Min({heapGiven[v], HeapSize - Heap!Bigger(v)})})
                        ELSE heapGiven[v]
  BY DEF Heap!Holds
<1>1. HoldFine(heap, heapNodes, top, heapGiven) /\ heapGiven \in [Values -> Nat] /\ HeapSize \in Nat
  BY HeapFacts
<1>2. Heap!Cardinality({i \in Heap!Held : heap[i] = v}) = CountsOf(heap, heapNodes)[v]
  BY DEF Heap!Cardinality, Cardinality, Heap!Held, CountsOf, CountIn, Places, Heap!IsFiniteSet, IsFiniteSet
<1>3. Heap!Bigger(v) = Above(heapGiven, v)
  BY DEF Heap!Bigger, Above, SumOf, MapThenSumSet, MapThenFoldSet, Heap!MapThenSumSet, Heap!MapThenFoldSet
<1>4. CASE top
  <2>1. CountsOf(heap, heapNodes)[v] = Kept(heapGiven, HeapSize, v)
    BY <1>1, <1>4 DEF HoldFine, Fits
  <2>2. HeapSize - Above(heapGiven, v) \in Int /\ heapGiven[v] \in Nat
    <3>1. Above(heapGiven, v) \in Nat
      BY <1>1, AboveIs
    <3> QED
      BY <1>1, <3>1
  <2>3. Kept(heapGiven, HeapSize, v) = Heap!Max({0, Heap!Min({heapGiven[v], HeapSize - Above(heapGiven, v)})})
    BY <2>2, KeptIs DEF Kept
  <2> QED
    BY <1>2, <1>3, <1>4, <2>1, <2>3
<1>5. CASE ~ top
  BY <1>1, <1>2, <1>5 DEF HoldFine
<1> QED
  BY <1>4, <1>5
-----------------------------------------------------------------------------
(* CSortArray.                                                             *)
Cells == [0 .. ArraySize -> Int]

LEMMA ArrayConstants == ArraySize \in Nat /\ ArraySize \in Int /\ Values \subseteq Int
BY ArrayAssumption DEF Array!ArrayOK

(* reverse, after k rounds and at the end.                                 *)
Turning(a, b, begin, end, k) ==
  /\ b \in Cells
  /\ \A x \in 0 .. ArraySize :
       b[x] = IF x \in begin .. end /\ (x < begin + k \/ x > end - k) THEN a[begin + end - x] ELSE a[x]

Turned(a, b, begin, end) ==
  /\ b \in Cells
  /\ \A x \in 0 .. ArraySize : b[x] = IF x \in begin .. end THEN a[begin + end - x] ELSE a[x]

TurnStep(b, begin, end, k) ==
  IF begin + k - 1 >= end - k + 1 THEN b
  ELSE [b EXCEPT ![begin + k - 1] = b[end - k + 1], ![end - k + 1] = b[begin + k - 1]]

LEMMA TurnStepType ==
  ASSUME NEW b \in Cells, NEW begin \in Nat, NEW end \in Int, end <= ArraySize, NEW k \in Nat, k > 0
  PROVE  TurnStep(b, begin, end, k) \in Cells
<1> DEFINE l == begin + k - 1
           r == end - k + 1
<1>1. CASE l >= r
  BY <1>1 DEF TurnStep
<1>2. CASE ~ (l >= r)
  <2>1. l \in 0 .. ArraySize /\ r \in 0 .. ArraySize
    BY <1>2, ArrayConstants
  <2>2. b[l] \in Int /\ b[r] \in Int
    BY <2>1 DEF Cells
  <2> QED
    BY <1>2, <2>2 DEF TurnStep, Cells
<1> QED
  BY <1>1, <1>2

LEMMA TurnStepIs ==
  ASSUME NEW a \in Cells, NEW b, NEW begin \in Nat, NEW end \in Int, end <= ArraySize,
         NEW k \in Nat, k > 0, Turning(a, b, begin, end, k - 1)
  PROVE  Turning(a, TurnStep(b, begin, end, k), begin, end, k)
<1> DEFINE l == begin + k - 1
           r == end - k + 1
           c == TurnStep(b, begin, end, k)
<1>1. c \in Cells
  BY TurnStepType DEF Turning
<1>2. l \in Int /\ r \in Int /\ begin + (k - 1) = l /\ end - (k - 1) = r /\ begin + end - l = r
      /\ begin + end - r = l /\ begin + k = l + 1 /\ end - k = r - 1
  OBVIOUS
<1>3. ASSUME NEW x \in 0 .. ArraySize
      PROVE  c[x] = IF x \in begin .. end /\ (x < begin + k \/ x > end - k) THEN a[begin + end - x] ELSE a[x]
  <2>1. b[x] = IF x \in begin .. end /\ (x < l \/ x > r) THEN a[begin + end - x] ELSE a[x]
    BY <1>2 DEF Turning
  <2>2. CASE l >= r
    <3>1. c = b
      BY <2>2 DEF TurnStep
    <3> HIDE DEF c, l, r
    <3>2. x \in Int /\ (~ (x < l \/ x > r) => x = l /\ x = r)
      BY <1>2, <2>2
    <3> QED
      BY <1>2, <2>1, <2>2, <3>1, <3>2
  <2>3. CASE ~ (l >= r)
    <3>1. l \in 0 .. ArraySize /\ r \in 0 .. ArraySize /\ l \in begin .. end /\ r \in begin .. end /\ l # r
      BY <2>3, ArrayConstants
    <3>2. c = [b EXCEPT ![l] = b[r], ![r] = b[l]]
      BY <2>3 DEF TurnStep
    <3> HIDE DEF c
    <3>3. b[l] = a[l] /\ b[r] = a[r]
      BY <1>2, <2>3, <3>1 DEF Turning
    <3>4. c[x] = IF x = l THEN a[r] ELSE IF x = r THEN a[l] ELSE b[x]
      <4>1. b \in Cells
        BY DEF Turning
      <4> HIDE DEF l, r
      <4> QED
        BY <3>1, <3>2, <3>3, <4>1 DEF Cells
    <3> HIDE DEF l, r
    <3>5. x = l \/ x = r \/ (x < l + 1 \/ x > r - 1 <=> x < l \/ x > r)
      BY <1>2
    <3>6. l < l + 1 /\ r > r - 1
      BY <1>2
    <3> QED
      BY <1>2, <2>1, <3>1, <3>4, <3>5, <3>6
  <2> QED
    BY <2>2, <2>3
<1> QED
  BY <1>1, <1>3 DEF Turning

LEMMA ReverseIs ==
  ASSUME NEW a \in Cells, NEW begin \in Nat, NEW end \in Int, end <= ArraySize - 1
  PROVE  Turned(a, Array!Reverse(a, begin, end), begin, end)
<1> DEFINE N == ArraySize
           Step(b, k) == TurnStep(b, begin, end, k)
           Loop(f) == f = [k \in 0 .. N |-> IF k = 0 THEN a ELSE Step(f[k - 1], k)]
           turned == CHOOSE f : Loop(f)
           F == [q \in (0 .. N - 1) \X Cells |-> Step(q[2], q[1] + 1)]
<1>1. Array!Reverse(a, begin, end) = turned[N]
  BY DEF Array!Reverse, TurnStep
<1>2. N \in Nat /\ N \in Int /\ 0 \in Int /\ 0 <= N /\ end <= N
  BY ArrayConstants
<1>3. \A b \in Cells : \A k \in 0 .. N - 1 : Step(b, k + 1) \in Cells
  BY <1>2, TurnStepType
<1> HIDE DEF Step
<1>4. F \in [(0 .. N - 1) \X Cells -> Cells]
  BY <1>3
<1>5. Loop(turned)
  <2> HIDE DEF F, N
  <2>1. PICK f \in [0 .. N -> Cells] : CountsUp(f, 0, N, a, F)
    BY <1>2, <1>4, UpExists
  <2>2. \A k \in 0 .. N : k # 0 => F[<<k - 1, f[k - 1]>>] = Step(f[k - 1], k)
    <3>1. ASSUME NEW k \in 0 .. N, k # 0
          PROVE  <<k - 1, f[k - 1]>> \in (0 .. N - 1) \X Cells /\ (k - 1) + 1 = k
      <4>1. k - 1 \in 0 .. N - 1 /\ k - 1 \in 0 .. N
        BY <1>2, <3>1
      <4> QED
        BY <4>1
    <3> QED
      BY <3>1 DEF F
  <2>3. Loop(f)
    BY <2>1, <2>2 DEF CountsUp
  <2> QED
    BY <2>3
<1> HIDE DEF turned
<1> DEFINE T == {k \in 0 .. N : Turning(a, turned[k], begin, end, k)}
<1>6. 0 \in T
  <2>1. turned[0] = a
    BY <1>2, <1>5
  <2>2. Turning(a, a, begin, end, 0)
    BY DEF Turning
  <2> QED
    BY <1>2, <2>1, <2>2
<1>7. ASSUME NEW k \in 0 .. N - 1, k \in T PROVE k + 1 \in T
  <2>1. k + 1 \in 0 .. N /\ k + 1 # 0 /\ (k + 1) - 1 = k /\ k + 1 \in Nat /\ k + 1 > 0
    BY <1>2
  <2>2. turned[k + 1] = Step(turned[k], k + 1)
    BY <1>5, <2>1
  <2>3. Turning(a, turned[k], begin, end, (k + 1) - 1)
    BY <1>7, <2>1
  <2> HIDE DEF T, N
  <2>4. Turning(a, Step(turned[k], k + 1), begin, end, k + 1)
    BY <1>2, <2>1, <2>3, TurnStepIs DEF Step, N
  <2> QED
    BY <2>1, <2>2, <2>4 DEF T
<1> HIDE DEF T
<1>8. N \in T
  <2> HIDE DEF N
  <2>1. \A k \in 0 .. N : k \in T
    BY <1>2, <1>6, <1>7, Upward
  <2> QED
    BY <1>2, <2>1
<1>9. Turning(a, turned[N], begin, end, N)
  BY <1>8 DEF T
<1>10. \A x \in 0 .. N : x \in begin .. end => x < begin + N
  BY <1>2
<1> QED
  BY <1>1, <1>9, <1>10 DEF Turning, Turned

LEMMA TurnedKeeps ==
  ASSUME NEW a, NEW b, NEW begin \in Nat, NEW end \in Int, Turned(a, b, begin, end),
         NEW n \in 0 .. ArraySize, end <= n - 1
  PROVE  \A v : CountIn(b, n, v) = CountIn(a, n, v)
<1> DEFINE s == [x \in 0 .. n - 1 |-> IF x \in begin .. end THEN begin + end - x ELSE x]
<1>1. n \in Nat /\ 0 .. n - 1 \subseteq 0 .. ArraySize
  BY ArrayConstants
<1>2. \A x \in 0 .. n - 1 : x \in begin .. end => /\ begin + end - x \in 0 .. n - 1
                                                  /\ begin + end - x \in begin .. end
                                                  /\ begin + end - (begin + end - x) = x
  BY <1>1
<1>3. s \in [0 .. n - 1 -> 0 .. n - 1]
  BY <1>2
<1>4. \A x \in 0 .. n - 1 : s[s[x]] = x
  BY <1>2
<1>5. \A x \in 0 .. n - 1 : b[x] = a[s[x]]
  BY <1>1 DEF Turned
<1> HIDE DEF s
<1>6. \A x \in 0 .. n - 1 : s[s[x]] = x /\ b[x] = a[s[x]]
  BY <1>4, <1>5
<1>7. InPairs(a, b, n, s)
  BY <1>3, <1>6 DEF InPairs
<1>8. n \in Nat
  BY <1>1
<1> QED
  BY <1>7, <1>8, PairsCount

(* Remainders.                                                             *)
LEMMA TimesAtLeast ==
  ASSUME NEW n \in Nat, NEW k \in Int, k >= 1
  PROVE  k * n >= n
OBVIOUS

LEMMA DivisionIs ==
  ASSUME NEW x \in Int, NEW n \in Nat, n > 0
  PROVE  \E q \in Int : \E r \in 0 .. n - 1 : x = q * n + r /\ x % n = r
<1> DEFINE q == x \div n
           r == x % n
<1>1. r \in 0 .. n - 1
  OBVIOUS
<1>2. q \in Int
  OBVIOUS
<1>3. x = n * q + r
  OBVIOUS
<1>4. n * q = q * n
  BY <1>2
<1> HIDE DEF q
<1>5. x = q * n + r
  BY <1>3, <1>4
<1> QED
  BY <1>1, <1>2, <1>5

LEMMA RemainderIs ==
  ASSUME NEW n \in Nat, n > 0, NEW q \in Int, NEW j \in 0 .. n - 1, NEW x \in Int, x = q * n + j
  PROVE  x % n = j
<1>1. PICK p \in Int : \E r \in 0 .. n - 1 : x = p * n + r /\ x % n = r
  BY DivisionIs
<1>2. PICK r \in 0 .. n - 1 : x = p * n + r /\ x % n = r
  BY <1>1
<1>3. q * n \in Int /\ p * n \in Int /\ (q - p) * n = q * n - p * n /\ (p - q) * n = p * n - q * n
  OBVIOUS
<1>4. CASE q > p
  <2>1. (q - p) * n >= n
    BY <1>4, TimesAtLeast
  <2> QED
    BY <1>2, <1>3, <2>1
<1>5. CASE p > q
  <2>1. (p - q) * n >= n
    BY <1>5, TimesAtLeast
  <2> QED
    BY <1>2, <1>3, <2>1
<1>6. CASE p = q
  <2>1. \A y \in Int : y + j = y + r => r = j
    OBVIOUS
  <2>2. q * n + j = q * n + r /\ q * n \in Int
    BY <1>2, <1>3, <1>6
  <2>3. r = j
    BY <2>1, <2>2
  <2> QED
    BY <1>2, <2>3
<1> QED
  BY <1>4, <1>5, <1>6

LEMMA RemIs ==
  ASSUME NEW k \in Int, NEW n \in Nat, n > 0
  PROVE  \E q \in Int : \E m \in 1 - n .. n - 1 : k = q * n + m /\ Array!Rem(k, n) = m
<1>1. CASE k < 0
  <2>1. -k \in Int
    OBVIOUS
  <2>2. PICK q \in Int : \E r \in 0 .. n - 1 : -k = q * n + r /\ (-k) % n = r
    BY <2>1, DivisionIs
  <2>3. PICK r \in 0 .. n - 1 : -k = q * n + r /\ (-k) % n = r
    BY <2>2
  <2>4. Array!Rem(k, n) = -r
    BY <1>1, <2>3 DEF Array!Rem
  <2>5. (-q) * n = -(q * n) /\ -q \in Int /\ q * n \in Int
    OBVIOUS
  <2>6. k = -(q * n) + (-r) /\ -r \in 1 - n .. n - 1
    BY <2>3, <2>5
  <2>7. k = (-q) * n + (-r)
    BY <2>5, <2>6
  <2> QED
    BY <2>4, <2>5, <2>6, <2>7
<1>2. CASE ~ (k < 0)
  <2>1. PICK q \in Int : \E r \in 0 .. n - 1 : k = q * n + r /\ k % n = r
    BY DivisionIs
  <2>2. PICK r \in 0 .. n - 1 : k = q * n + r /\ k % n = r
    BY <2>1
  <2>3. Array!Rem(k, n) = r /\ r \in 1 - n .. n - 1
    BY <1>2, <2>2 DEF Array!Rem
  <2> QED
    BY <2>2, <2>3
<1> QED
  BY <1>1, <1>2

(* The three reversals put the first d values behind the others.           *)
RotatedTo(a, c, n, d) ==
  /\ c \in Cells
  /\ \A x \in 0 .. n - 1 : c[x] = a[IF x + d <= n - 1 THEN x + d ELSE x + d - n]
  /\ \A v : CountIn(c, n, v) = CountIn(a, n, v)

LEMMA RotatedIs ==
  ASSUME array \in Cells, arrayNodes \in 1 .. ArraySize, NEW d \in 0 .. arrayNodes - 1,
         NEW split, split = d - 1
  PROVE  RotatedTo(array, Array!Rotated(split), arrayNodes, d)
<1> DEFINE n == arrayNodes
           End == n - 1
           a1 == Array!Reverse(array, 0, split)
           a2 == Array!Reverse(a1, split + 1, End)
           c == Array!Reverse(a2, 0, End)
<1>1. Array!Rotated(split) = c
  BY DEF Array!Rotated, Array!End
<1>2. /\ n \in Nat /\ n \in 0 .. ArraySize /\ End \in Int /\ End <= ArraySize - 1 /\ End <= n - 1
      /\ split \in Int /\ split <= ArraySize - 1 /\ split <= n - 1 /\ 0 \in Nat /\ split + 1 \in Nat /\ split + 1 = d
      /\ \A x \in 0 .. n - 1 : x \in 0 .. ArraySize
  BY ArrayConstants
<1> HIDE DEF n, End
<1>3. Turned(array, a1, 0, split)
  BY <1>2, ReverseIs
<1>4. a1 \in Cells
  BY <1>3 DEF Turned
<1>5. Turned(a1, a2, split + 1, End)
  <2> HIDE DEF a1
  <2> QED
    BY <1>2, <1>4, ReverseIs
<1>6. a2 \in Cells
  BY <1>5 DEF Turned
<1>7. Turned(a2, c, 0, End)
  <2> HIDE DEF a2
  <2> QED
    BY <1>2, <1>6, ReverseIs
<1> HIDE DEF a1, a2, c
<1>8. \A v : CountIn(c, n, v) = CountIn(array, n, v)
  <2>1. \A v : CountIn(a1, n, v) = CountIn(array, n, v)
    BY <1>2, <1>3, TurnedKeeps
  <2>2. \A v : CountIn(a2, n, v) = CountIn(a1, n, v)
    BY <1>2, <1>5, TurnedKeeps
  <2>3. \A v : CountIn(c, n, v) = CountIn(a2, n, v)
    BY <1>2, <1>7, TurnedKeeps
  <2> QED
    BY <2>1, <2>2, <2>3
<1>9. ASSUME NEW x \in 0 .. n - 1
      PROVE  c[x] = array[IF x + d <= n - 1 THEN x + d ELSE x + d - n]
  <2>1. n \in Int /\ d \in 0 .. n - 1 /\ split = d - 1 /\ End = n - 1
    BY <1>2 DEF n, End
  <2>2. x \in 0 .. ArraySize /\ x \in 0 .. End /\ 0 + End - x \in 0 .. n - 1 /\ 0 + End - x \in 0 .. ArraySize
    BY <1>2, <2>1
  <2>3. c[x] = a2[0 + End - x]
    BY <1>7, <2>2 DEF Turned
  <2>4. CASE x + d <= n - 1
    <3>1. 0 + End - x \in split + 1 .. End /\ split + 1 + End - (0 + End - x) = x + d
          /\ x + d \in 0 .. ArraySize /\ x + d \notin 0 .. split
      BY <1>2, <2>1, <2>2, <2>4
    <3>2. a2[0 + End - x] = a1[x + d]
      BY <1>5, <2>2, <3>1 DEF Turned
    <3>3. a1[x + d] = array[x + d]
      BY <1>3, <3>1 DEF Turned
    <3> QED
      BY <2>3, <2>4, <3>2, <3>3
  <2>5. CASE ~ (x + d <= n - 1)
    <3>1. 0 + End - x \notin split + 1 .. End /\ 0 + End - x \in 0 .. split
          /\ 0 + split - (0 + End - x) = x + d - n
      BY <1>2, <2>1, <2>2, <2>5
    <3>2. a2[0 + End - x] = a1[0 + End - x]
      BY <1>5, <2>2, <3>1 DEF Turned
    <3>3. a1[0 + End - x] = array[0 + split - (0 + End - x)]
      BY <1>3, <2>2, <3>1 DEF Turned
    <3> QED
      BY <2>3, <2>5, <3>1, <3>2, <3>3
  <2> QED
    BY <2>4, <2>5
<1>10. c \in Cells
  BY <1>7 DEF Turned
<1>11. RotatedTo(array, c, n, d)
  BY <1>8, <1>9, <1>10 DEF RotatedTo
<1> QED
  BY <1>1, <1>11 DEF n

(* cycle(k) moves every value k places to the right, round the end.        *)
LEMMA CycleIs ==
  ASSUME array \in Cells, arrayNodes \in 0 .. ArraySize, NEW k \in Int, Array!Cycle(k)
  PROVE  /\ array' \in Cells
         /\ \A v : CountIn(array', arrayNodes, v) = CountIn(array, arrayNodes, v)
         /\ \A i \in 0 .. arrayNodes - 1 : array'[(i + k) % arrayNodes] = array[i]
<1> DEFINE n == arrayNodes
           m == Array!Rem(k, n)
           d == IF m > 0 THEN n - m ELSE -m
           split == IF m > 0 THEN Array!End - m ELSE -m - 1
<1>1. n >= 2 /\ array' = Array!Rotated(split)
  BY DEF Array!Cycle
<1>2. n \in Nat /\ n > 0 /\ arrayNodes \in 1 .. ArraySize
  BY <1>1, ArrayConstants
<1>3. PICK q \in Int : \E j \in 1 - n .. n - 1 : k = q * n + j /\ m = j
  <2> HIDE DEF n
  <2> QED
    BY <1>2, RemIs
<1>4. m \in 1 - n .. n - 1 /\ k = q * n + m
  BY <1>3
<1>5. Array!End = n - 1
  BY DEF Array!End
<1> HIDE DEF m
<1>6. d \in 0 .. arrayNodes - 1 /\ split = d - 1
  BY <1>2, <1>4, <1>5
<1> HIDE DEF d, split
<1>7. RotatedTo(array, array', n, d)
  BY <1>1, <1>2, <1>6, RotatedIs
<1>8. ASSUME NEW i \in 0 .. n - 1 PROVE array'[(i + k) % n] = array[i]
  <2> HIDE DEF n
  <2>0. q * n \in Int /\ m \in Int /\ n \in Int /\ (q + 1) * n = q * n + n /\ (q - 1) * n = q * n - n
        /\ i + k \in Int /\ q \in Int /\ q + 1 \in Int /\ q - 1 \in Int
    BY <1>2, <1>4
  <2>1. d = IF m > 0 THEN n - m ELSE -m
    BY DEF d
  <2>2. CASE i + m \in 0 .. n - 1
    <3>1. i + k = q * n + (i + m)
      BY <1>4, <2>0
    <3>2. (i + k) % n = i + m
      <4> DEFINE x == i + k
                 j == i + m
                 p == q
      <4>1. n \in Nat /\ n > 0 /\ p \in Int /\ j \in 0 .. n - 1 /\ x \in Int
        BY <1>2, <2>0, <2>2
      <4>2. x = p * n + j
        BY <3>1
      <4> HIDE DEF x, j, p
      <4>3. x % n = j
        BY <4>1, <4>2, RemainderIs
      <4> QED
        BY <4>3 DEF x, j
    <3>3. i = IF (i + m) + d <= n - 1 THEN (i + m) + d ELSE (i + m) + d - n
      BY <1>4, <2>0, <2>1, <2>2
    <3> QED
      BY <1>7, <2>2, <3>2, <3>3 DEF RotatedTo
  <2>3. CASE i + m >= n
    <3>0. i + m - n \in 0 .. n - 1
      BY <1>4, <2>0, <2>3
    <3>1. i + k = (q + 1) * n + (i + m - n)
      BY <1>4, <2>0
    <3>2. (i + k) % n = i + m - n
      <4> DEFINE x == i + k
                 j == i + m - n
                 p == q + 1
      <4>1. n \in Nat /\ n > 0 /\ p \in Int /\ j \in 0 .. n - 1 /\ x \in Int
        BY <1>2, <2>0, <3>0
      <4>2. x = p * n + j
        BY <3>1
      <4> HIDE DEF x, j, p
      <4>3. x % n = j
        BY <4>1, <4>2, RemainderIs
      <4> QED
        BY <4>3 DEF x, j
    <3>3. i = IF (i + m - n) + d <= n - 1 THEN (i + m - n) + d ELSE (i + m - n) + d - n
      BY <1>4, <2>0, <2>1, <2>3
    <3> QED
      BY <1>7, <3>0, <3>2, <3>3 DEF RotatedTo
  <2>4. CASE i + m < 0
    <3>0. i + m + n \in 0 .. n - 1
      BY <1>4, <2>0, <2>4
    <3>1. i + k = (q - 1) * n + (i + m + n)
      BY <1>4, <2>0
    <3>2. (i + k) % n = i + m + n
      <4> DEFINE x == i + k
                 j == i + m + n
                 p == q - 1
      <4>1. n \in Nat /\ n > 0 /\ p \in Int /\ j \in 0 .. n - 1 /\ x \in Int
        BY <1>2, <2>0, <3>0
      <4>2. x = p * n + j
        BY <3>1
      <4> HIDE DEF x, j, p
      <4>3. x % n = j
        BY <4>1, <4>2, RemainderIs
      <4> QED
        BY <4>3 DEF x, j
    <3>3. i = IF (i + m + n) + d <= n - 1 THEN (i + m + n) + d ELSE (i + m + n) + d - n
      BY <1>4, <2>0, <2>1, <2>4
    <3> QED
      BY <1>7, <3>0, <3>2, <3>3 DEF RotatedTo
  <2> QED
    BY <2>0, <2>2, <2>3, <2>4
<1> QED
  BY <1>7, <1>8 DEF RotatedTo

(* shift, from the far end down to place k.                                *)
MovedRight(a, b, end, n, k) ==
  /\ b \in Cells
  /\ \A x \in 0 .. ArraySize : k <= x /\ x <= end /\ x + n <= ArraySize - 1 => b[x + n] = a[x]
  /\ \A x \in 0 .. ArraySize : x < k => b[x] = a[x]

(* shift, from the front up to place k.                                    *)
MovedLeft(a, b, begin, n, k) ==
  /\ b \in Cells
  /\ \A x \in 0 .. ArraySize : begin <= x /\ x <= k /\ x + n >= 0 => b[x + n] = a[x]
  /\ \A x \in 0 .. ArraySize : x > k => b[x] = a[x]

RightStep(b, n, i) == [b EXCEPT ![Array!Min({i + n, ArraySize - 1})] = b[i]]

LeftStep(b, n, i) == [b EXCEPT ![Array!Max({i + n, 0})] = b[i]]

LEMMA Clamped ==
  ASSUME NEW x \in Int, NEW y \in Int
  PROVE  /\ Array!Min({x, y}) = IF x <= y THEN x ELSE y
         /\ Array!Max({x, y}) = IF x <= y THEN y ELSE x
<1>1. Array!Min({x, y}) = IF x <= y THEN x ELSE y
  <2> DEFINE m == IF x <= y THEN x ELSE y
  <2>1. m \in {x, y} /\ \A z \in {x, y} : m <= z
    OBVIOUS
  <2>2. \A w \in {x, y} : (\A z \in {x, y} : w <= z) => w = m
    OBVIOUS
  <2> HIDE DEF m
  <2>3. Array!Min({x, y}) = m
    BY <2>1, <2>2 DEF Array!Min
  <2> QED
    BY <2>3 DEF m
<1>2. Array!Max({x, y}) = IF x <= y THEN y ELSE x
  <2> DEFINE m == IF x <= y THEN y ELSE x
  <2>1. m \in {x, y} /\ \A z \in {x, y} : m >= z
    OBVIOUS
  <2>2. \A w \in {x, y} : (\A z \in {x, y} : w >= z) => w = m
    OBVIOUS
  <2> HIDE DEF m
  <2>3. Array!Max({x, y}) = m
    BY <2>1, <2>2 DEF Array!Max
  <2> QED
    BY <2>3 DEF m
<1> QED
  BY <1>1, <1>2

LEMMA RightStepIs ==
  ASSUME NEW a \in Cells, NEW b, NEW end \in Int, end <= ArraySize - 1, NEW n \in Nat, n > 0,
         NEW k \in Nat, k <= end, MovedRight(a, b, end, n, k + 1)
  PROVE  MovedRight(a, RightStep(b, n, k), end, n, k)
<1> DEFINE t == IF k + n <= ArraySize - 1 THEN k + n ELSE ArraySize - 1
           c == RightStep(b, n, k)
<1>1. ArraySize \in Int /\ k \in 0 .. ArraySize /\ t \in 0 .. ArraySize /\ k <= t
  BY ArrayConstants
<1>2. c = [b EXCEPT ![t] = b[k]]
  <2>1. k + n \in Int /\ ArraySize - 1 \in Int
    BY <1>1
  <2>2. Array!Min({k + n, ArraySize - 1}) = t
    BY <2>1, Clamped
  <2> HIDE DEF t
  <2> QED
    BY <2>2 DEF RightStep
<1>3. b \in [0 .. ArraySize -> Int] /\ b[k] = a[k] /\ b[k] \in Int
  <2>1. k < k + 1
    OBVIOUS
  <2> QED
    BY <1>1, <2>1 DEF MovedRight, Cells
<1> HIDE DEF c
<1>4. c \in Cells /\ c[t] = a[k] /\ \A x \in 0 .. ArraySize : x # t => c[x] = b[x]
  <2> HIDE DEF t
  <2> QED
    BY <1>1, <1>2, <1>3 DEF Cells
<1>5. ASSUME NEW x \in 0 .. ArraySize, k <= x, x <= end, x + n <= ArraySize - 1
      PROVE  c[x + n] = a[x]
  <2>1. CASE x = k
    <3>1. t = x + n
      BY <1>5, <2>1
    <3> QED
      BY <1>4, <2>1, <3>1
  <2>2. CASE x # k
    <3>1. x + n # t /\ x + n \in 0 .. ArraySize /\ k + 1 <= x
      BY <1>1, <1>5, <2>2
    <3>2. b[x + n] = a[x]
      BY <1>5, <3>1 DEF MovedRight
    <3> QED
      BY <1>4, <3>1, <3>2
  <2> QED
    BY <2>1, <2>2
<1>6. ASSUME NEW x \in 0 .. ArraySize, x < k PROVE c[x] = a[x]
  <2>1. x # t /\ x < k + 1
    BY <1>1, <1>6
  <2> QED
    BY <1>4, <2>1 DEF MovedRight
<1> QED
  BY <1>4, <1>5, <1>6 DEF MovedRight, c

LEMMA LeftStepIs ==
  ASSUME NEW a \in Cells, NEW b, NEW begin \in Nat, NEW n \in Int, n < 0,
         NEW k \in begin .. ArraySize, MovedLeft(a, b, begin, n, k - 1)
  PROVE  MovedLeft(a, LeftStep(b, n, k), begin, n, k)
<1> DEFINE t == IF k + n <= 0 THEN 0 ELSE k + n
           c == LeftStep(b, n, k)
<1>1. ArraySize \in Int /\ k \in 0 .. ArraySize /\ t \in 0 .. ArraySize /\ t <= k
  BY ArrayConstants
<1>2. c = [b EXCEPT ![t] = b[k]]
  <2>1. k + n \in Int /\ 0 \in Int
    BY <1>1
  <2>2. Array!Max({k + n, 0}) = t
    BY <2>1, Clamped
  <2> HIDE DEF t
  <2> QED
    BY <2>2 DEF LeftStep
<1>3. b \in [0 .. ArraySize -> Int] /\ b[k] = a[k] /\ b[k] \in Int
  <2>1. k > k - 1
    OBVIOUS
  <2> QED
    BY <1>1, <2>1 DEF MovedLeft, Cells
<1> HIDE DEF c
<1>4. c \in Cells /\ c[t] = a[k] /\ \A x \in 0 .. ArraySize : x # t => c[x] = b[x]
  <2> HIDE DEF t
  <2> QED
    BY <1>1, <1>2, <1>3 DEF Cells
<1>5. ASSUME NEW x \in 0 .. ArraySize, begin <= x, x <= k, x + n >= 0
      PROVE  c[x + n] = a[x]
  <2>1. CASE x = k
    <3>1. t = x + n
      BY <1>5, <2>1
    <3> QED
      BY <1>4, <2>1, <3>1
  <2>2. CASE x # k
    <3>1. x + n # t /\ x + n \in 0 .. ArraySize /\ x <= k - 1
      BY <1>1, <1>5, <2>2
    <3>2. b[x + n] = a[x]
      BY <1>5, <3>1 DEF MovedLeft
    <3> QED
      BY <1>4, <3>1, <3>2
  <2> QED
    BY <2>1, <2>2
<1>6. ASSUME NEW x \in 0 .. ArraySize, x > k PROVE c[x] = a[x]
  <2>1. x # t /\ x > k - 1
    BY <1>1, <1>6
  <2> QED
    BY <1>4, <2>1 DEF MovedLeft
<1> QED
  BY <1>4, <1>5, <1>6 DEF MovedLeft, c

LEMMA ShiftRightIs ==
  ASSUME NEW a \in Cells, NEW begin \in Nat, NEW end \in Int, begin <= end + 1, end <= ArraySize - 1,
         NEW n \in Nat, n > 0
  PROVE  MovedRight(a, Array!ShiftRight(a, begin, end, n), end, n, begin)
<1> DEFINE m == end + 1
           Step(b, i) == RightStep(b, n, i)
           Loop(f) == f = [i \in begin .. m |-> IF i = m THEN a ELSE Step(f[i + 1], i)]
           moved == CHOOSE f : Loop(f)
           F == [q \in (begin .. m - 1) \X Cells |-> Step(q[2], q[1])]
<1>1. Array!ShiftRight(a, begin, end, n) = moved[begin]
  BY DEF Array!ShiftRight, RightStep
<1>2. m \in Int /\ begin \in Int /\ begin <= m
  OBVIOUS
<1>3. \A b \in Cells : \A i \in begin .. m - 1 : Step(b, i) \in Cells
  <2>1. \A i \in begin .. m - 1 : i \in 0 .. ArraySize
    BY ArrayConstants
  <2> QED
    BY <2>1 DEF RightStep, Cells
<1> HIDE DEF Step, m
<1>4. F \in [(begin .. m - 1) \X Cells -> Cells]
  BY <1>3
<1>5. Loop(moved)
  <2> HIDE DEF F
  <2>1. PICK f \in [begin .. m -> Cells] : CountsDown(f, begin, m, a, F)
    BY <1>2, <1>4, DownExists
  <2>2. \A i \in begin .. m : i # m => F[<<i, f[i + 1]>>] = Step(f[i + 1], i)
    <3>1. ASSUME NEW i \in begin .. m, i # m PROVE <<i, f[i + 1]>> \in (begin .. m - 1) \X Cells
      <4>1. i \in begin .. m - 1 /\ i + 1 \in begin .. m
        BY <1>2, <3>1
      <4> QED
        BY <4>1
    <3> QED
      BY <3>1 DEF F
  <2>3. Loop(f)
    BY <2>1, <2>2 DEF CountsDown
  <2> QED
    BY <2>3
<1> HIDE DEF moved
<1> DEFINE T == {k \in begin .. m : MovedRight(a, moved[k], end, n, k)}
<1>6. m \in T
  <2>1. moved[m] = a /\ m \in begin .. m
    BY <1>2, <1>5
  <2>2. MovedRight(a, a, end, n, m)
    BY DEF MovedRight, m
  <2> QED
    BY <2>1, <2>2
<1>7. ASSUME NEW k \in begin .. m - 1, k + 1 \in T PROVE k \in T
  <2>1. k \in begin .. m /\ k # m /\ k \in Nat /\ k <= end
    BY <1>2 DEF m
  <2>2. moved[k] = Step(moved[k + 1], k)
    BY <1>5, <2>1
  <2>3. MovedRight(a, moved[k + 1], end, n, k + 1)
    BY <1>7
  <2> HIDE DEF T
  <2>4. MovedRight(a, Step(moved[k + 1], k), end, n, k)
    BY <2>1, <2>3, RightStepIs DEF Step
  <2> QED
    BY <2>1, <2>2, <2>4 DEF T
<1> HIDE DEF T
<1>8. begin \in T
  <2>1. \A k \in begin .. m : k \in T
    BY <1>2, <1>6, <1>7, Downward
  <2> QED
    BY <1>2, <2>1
<1> QED
  BY <1>1, <1>8 DEF T

LEMMA ShiftLeftIs ==
  ASSUME NEW a \in Cells, NEW begin \in Nat, NEW end \in Int, begin - 1 <= end, end <= ArraySize,
         NEW n \in Int, n < 0
  PROVE  MovedLeft(a, Array!ShiftLeft(a, begin, end, n), begin, n, end)
<1> DEFINE m == begin - 1
           Step(b, i) == LeftStep(b, n, i)
           Loop(f) == f = [i \in m .. end |-> IF i = m THEN a ELSE Step(f[i - 1], i)]
           moved == CHOOSE f : Loop(f)
           F == [q \in (m .. end - 1) \X Cells |-> Step(q[2], q[1] + 1)]
<1>1. Array!ShiftLeft(a, begin, end, n) = moved[end]
  BY DEF Array!ShiftLeft, LeftStep
<1>2. m \in Int /\ m <= end
  OBVIOUS
<1>3. \A b \in Cells : \A i \in m .. end - 1 : Step(b, i + 1) \in Cells
  <2>1. \A i \in m .. end - 1 : i + 1 \in 0 .. ArraySize
    BY ArrayConstants
  <2> HIDE DEF m
  <2>2. ASSUME NEW b \in Cells, NEW i \in m .. end - 1 PROVE Step(b, i + 1) \in Cells
    <3>1. b[i + 1] \in Int
      BY <2>1 DEF Cells
    <3> QED
      BY <3>1 DEF LeftStep, Cells
  <2> QED
    BY <2>2
<1> HIDE DEF Step, m
<1>4. F \in [(m .. end - 1) \X Cells -> Cells]
  BY <1>3
<1>5. Loop(moved)
  <2> HIDE DEF F
  <2>1. PICK f \in [m .. end -> Cells] : CountsUp(f, m, end, a, F)
    BY <1>2, <1>4, UpExists
  <2>2. \A i \in m .. end : i # m => F[<<i - 1, f[i - 1]>>] = Step(f[i - 1], i)
    <3>1. ASSUME NEW i \in m .. end, i # m
          PROVE  <<i - 1, f[i - 1]>> \in (m .. end - 1) \X Cells /\ (i - 1) + 1 = i
      <4>1. i - 1 \in m .. end - 1 /\ i - 1 \in m .. end
        BY <1>2, <3>1
      <4> QED
        BY <4>1
    <3> QED
      BY <3>1 DEF F
  <2>3. Loop(f)
    <3>1. \A i \in m .. end : i # m => i - 1 \in m .. end - 1 /\ (i - 1) + 1 = i
      BY <1>2
    <3> QED
      BY <2>1, <2>2, <3>1 DEF CountsUp
  <2> QED
    BY <2>3
<1> HIDE DEF moved
<1> DEFINE T == {k \in m .. end : MovedLeft(a, moved[k], begin, n, k)}
<1>6. m \in T
  <2>1. moved[m] = a /\ m \in m .. end
    BY <1>2, <1>5
  <2>2. MovedLeft(a, a, begin, n, m)
    BY DEF MovedLeft, m
  <2> QED
    BY <2>1, <2>2
<1>7. ASSUME NEW k \in m .. end - 1, k \in T PROVE k + 1 \in T
  <2>1. k + 1 \in m .. end /\ k + 1 # m /\ (k + 1) - 1 = k /\ k + 1 \in begin .. ArraySize
    BY <1>2, ArrayConstants DEF m
  <2>2. moved[k + 1] = Step(moved[k], k + 1)
    BY <1>5, <2>1
  <2>3. MovedLeft(a, moved[k], begin, n, (k + 1) - 1)
    BY <1>7, <2>1
  <2> HIDE DEF T
  <2>4. MovedLeft(a, Step(moved[k], k + 1), begin, n, k + 1)
    BY <2>1, <2>3, LeftStepIs DEF Step
  <2> QED
    BY <2>1, <2>2, <2>4 DEF T
<1> HIDE DEF T
<1>8. end \in T
  <2>1. \A k \in m .. end : k \in T
    BY <1>2, <1>6, <1>7, Upward
  <2> QED
    BY <1>2, <2>1
<1> QED
  BY <1>1, <1>8 DEF T

(* shift(k) moves every value by k; those that fall off the front are lost.*)
LEMMA ShiftIs ==
  ASSUME array \in Cells, arrayNodes \in 0 .. ArraySize, NEW k \in Int, Array!Shift(k)
  PROVE  /\ array' \in Cells
         /\ \A i \in 0 .. arrayNodes - 1 : i + k >= 0 => array'[i + k] = array[i]
<1>1. /\ k # 0 /\ arrayNodes + k \in 0 .. ArraySize
      /\ array' = IF k > 0 THEN Array!ShiftRight(array, 0, arrayNodes, k)
                  ELSE Array!ShiftLeft(array, 0, arrayNodes, k)
  BY DEF Array!Shift
<1>2. /\ ArraySize \in Nat /\ arrayNodes \in Int /\ 0 \in Nat /\ 0 <= arrayNodes + 1 /\ 0 - 1 <= arrayNodes
      /\ arrayNodes <= ArraySize /\ \A i \in 0 .. arrayNodes - 1 : i \in 0 .. ArraySize
  BY ArrayConstants
<1>3. CASE k > 0
  <2>1. arrayNodes <= ArraySize - 1 /\ k \in Nat
    BY <1>1, <1>2, <1>3
  <2>2. MovedRight(array, array', arrayNodes, k, 0)
    <3>1. MovedRight(array, Array!ShiftRight(array, 0, arrayNodes, k), arrayNodes, k, 0)
      BY <1>2, <1>3, <2>1, ShiftRightIs
    <3> QED
      BY <1>1, <1>3, <3>1
  <2>3. \A i \in 0 .. arrayNodes - 1 : 0 <= i /\ i <= arrayNodes /\ i + k <= ArraySize - 1
    BY <1>1, <1>2, <1>3
  <2> QED
    BY <1>2, <2>2, <2>3 DEF MovedRight
<1>4. CASE ~ (k > 0)
  <2>1. k < 0
    BY <1>1, <1>4
  <2>2. MovedLeft(array, array', 0, k, arrayNodes)
    <3>1. MovedLeft(array, Array!ShiftLeft(array, 0, arrayNodes, k), 0, k, arrayNodes)
      BY <1>2, <2>1, ShiftLeftIs
    <3> QED
      BY <1>1, <1>4, <3>1
  <2>3. \A i \in 0 .. arrayNodes - 1 : 0 <= i /\ i <= arrayNodes
    BY <1>2
  <2> QED
    BY <1>2, <2>2, <2>3 DEF MovedLeft
<1> QED
  BY <1>3, <1>4

(* c is b with a node put in at j.                                         *)
LEMMA NodePutIn ==
  ASSUME NEW b, NEW c, NEW n \in Nat, NEW j \in 0 .. n, \A x \in 0 .. j - 1 : c[x] = b[x],
         \A x \in j .. n - 1 : c[x + 1] = b[x], NEW v
  PROVE  CountIn(c, n + 1, v) = CountIn(b, n, v) + (IF c[j] = v THEN 1 ELSE 0)
<1> DEFINE S == Places(b, n, v)
           T == {y \in Places(c, n + 1, v) : y # j}
           p == [x \in S |-> IF x < j THEN x ELSE x + 1]
<1>1. ASSUME NEW x \in S PROVE /\ x \in 0 .. n - 1 /\ p[x] \in T
                               /\ p[x] = IF x < j THEN x ELSE x + 1
  <2>1. x \in 0 .. n - 1 /\ b[x] = v
    BY DEF Places
  <2>2. CASE x < j
    <3>1. x \in 0 .. j - 1 /\ x \in 0 .. (n + 1) - 1 /\ x # j /\ p[x] = x
      BY <2>1, <2>2
    <3>2. c[x] = v
      BY <2>1, <3>1
    <3> QED
      BY <2>1, <2>2, <3>1, <3>2 DEF Places
  <2>3. CASE ~ (x < j)
    <3>1. x \in j .. n - 1 /\ x + 1 \in 0 .. (n + 1) - 1 /\ x + 1 # j /\ p[x] = x + 1
      BY <2>1, <2>3
    <3>2. c[x + 1] = v
      BY <2>1, <3>1
    <3> QED
      BY <2>1, <2>3, <3>1, <3>2 DEF Places
  <2> QED
    BY <2>2, <2>3
<1>2. p \in [S -> T]
  BY <1>1
<1>3. ASSUME NEW y \in T PROVE \E x \in S : p[x] = y
  <2>1. y \in 0 .. (n + 1) - 1 /\ c[y] = v /\ y # j
    BY DEF Places
  <2>2. CASE y < j
    <3>1. y \in 0 .. j - 1 /\ y \in 0 .. n - 1
      BY <2>1, <2>2
    <3>2. y \in S
      BY <2>1, <3>1 DEF Places
    <3> QED
      BY <2>2, <3>2
  <2>3. CASE ~ (y < j)
    <3>1. y - 1 \in j .. n - 1 /\ y - 1 \in 0 .. n - 1 /\ (y - 1) + 1 = y /\ ~ (y - 1 < j)
      BY <2>1, <2>3
    <3>2. b[y - 1] = v
      BY <2>1, <3>1
    <3>3. y - 1 \in S
      BY <3>1, <3>2 DEF Places
    <3> QED
      BY <3>1, <3>3
  <2> QED
    BY <2>2, <2>3
<1>4. ASSUME NEW x \in S, NEW y \in S, p[x] = p[y] PROVE x = y
  <2>1. x \in Int /\ y \in Int /\ (IF x < j THEN x ELSE x + 1) = (IF y < j THEN y ELSE y + 1)
    BY <1>1, <1>4
  <2> QED
    BY <2>1
<1>5. IsFiniteSet(S) /\ CountIn(b, n, v) = Cardinality(S)
  BY PlacesFinite DEF CountIn
<1>6. j \in 0 .. (n + 1) - 1 /\ j \notin T
  OBVIOUS
<1>7. Places(c, n + 1, v) = IF c[j] = v THEN T \cup {j} ELSE T
  BY <1>6 DEF Places
<1> HIDE DEF S, T, p
<1>8. IsFiniteSet(T) /\ Cardinality(T) = Cardinality(S)
  <2>1. PlaceByPlace(p, S, T)
    BY <1>2, <1>3, <1>4 DEF PlaceByPlace
  <2> QED
    BY <1>5, <2>1, SameSize
<1>9. Cardinality(T \cup {j}) = Cardinality(T) + 1 /\ Cardinality(S) \in Nat
  BY <1>5, <1>6, <1>8, FS_AddElement, FS_CardinalityType
<1> QED
  BY <1>5, <1>7, <1>8, <1>9 DEF CountIn

(* Where a round of sort puts its node.                                    *)
PlaceOf(b, i) ==
  LET larger == {j \in 0 .. i - 1 : array[i] < b[j]} IN IF larger = {} THEN i ELSE Array!Min(larger)

LEMMA PlaceIs ==
  ASSUME NEW b, NEW i \in Nat
  PROVE  /\ PlaceOf(b, i) \in 0 .. i
         /\ \A x \in 0 .. PlaceOf(b, i) - 1 : ~ (array[i] < b[x])
         /\ PlaceOf(b, i) < i => array[i] < b[PlaceOf(b, i)]
<1> DEFINE larger == {j \in 0 .. i - 1 : array[i] < b[j]}
<1>1. CASE larger = {}
  <2>1. PlaceOf(b, i) = i
    BY <1>1 DEF PlaceOf
  <2> QED
    BY <1>1, <2>1
<1>2. CASE larger # {}
  <2> DEFINE j == PlaceOf(b, i)
  <2>1. j = Array!Min(larger)
    BY <1>2 DEF PlaceOf
  <2>2. \E l \in larger : \A y \in larger : l <= y
    <3>1. larger \in SUBSET Nat
      OBVIOUS
    <3> QED
      BY <1>2, <3>1, LeastExists
  <2> HIDE DEF j
  <2>3. j \in larger /\ \A y \in larger : j <= y
    <3> HIDE DEF larger
    <3> QED
      BY <2>1, <2>2 DEF Array!Min
  <2>4. \A x \in 0 .. j - 1 : x \notin larger
    BY <2>3
  <2>5. j \in 0 .. i - 1 /\ array[i] < b[j] /\ j \in 0 .. i /\ \A x \in 0 .. j - 1 : x \in 0 .. i - 1
    BY <2>3
  <2> QED
    BY <2>4, <2>5 DEF j
<1> QED
  BY <1>1, <1>2

(* A round of sort.                                                        *)
PutIn(b, c, i, j) ==
  /\ c \in Cells /\ j \in 0 .. i /\ c[j] = array[i]
  /\ \A x \in 0 .. j - 1 : c[x] = b[x]
  /\ \A x \in j .. i - 1 : c[x + 1] = b[x]

LEMMA InsertedIs ==
  ASSUME array \in Cells, NEW b \in Cells, NEW i \in 0 .. ArraySize - 1
  PROVE  PutIn(b, Array!Inserted(b, i), i, PlaceOf(b, i))
<1> DEFINE j == PlaceOf(b, i)
           s == Array!ShiftRight(b, j, i - 1, 1)
           c == [s EXCEPT ![j] = array[i]]
<1>1. Array!Inserted(b, i) = c
  BY DEF Array!Inserted, PlaceOf
<1>2. ArraySize \in Nat /\ i \in Nat /\ i \in 0 .. ArraySize
  BY ArrayConstants
<1>3. j \in 0 .. i
  BY <1>2, PlaceIs
<1> HIDE DEF j
<1>4. MovedRight(b, s, i - 1, 1, j)
  <2>1. j \in Nat /\ i - 1 \in Int /\ j <= (i - 1) + 1 /\ i - 1 <= ArraySize - 1 /\ 1 \in Nat /\ 1 > 0
    BY <1>2, <1>3
  <2> QED
    BY <2>1, ShiftRightIs
<1> HIDE DEF s
<1>5. s \in [0 .. ArraySize -> Int] /\ array[i] \in Int /\ j \in 0 .. ArraySize
  BY <1>2, <1>3, <1>4 DEF MovedRight, Cells
<1>6. c \in Cells /\ c[j] = array[i] /\ \A x \in 0 .. ArraySize : x # j => c[x] = s[x]
  BY <1>5 DEF Cells
<1> HIDE DEF c
<1>7. ASSUME NEW x \in 0 .. j - 1 PROVE c[x] = b[x]
  <2>1. x \in 0 .. ArraySize /\ x # j /\ x < j
    BY <1>2, <1>3
  <2> QED
    BY <1>4, <1>6, <2>1 DEF MovedRight
<1>8. ASSUME NEW x \in j .. i - 1 PROVE c[x + 1] = b[x]
  <2>1. x \in 0 .. ArraySize /\ x + 1 \in 0 .. ArraySize /\ x + 1 # j /\ j <= x /\ x <= i - 1
        /\ x + 1 <= ArraySize - 1
    BY <1>2, <1>3
  <2> QED
    BY <1>4, <1>6, <2>1 DEF MovedRight
<1> QED
  BY <1>1, <1>3, <1>6, <1>7, <1>8 DEF PutIn, j

(* The first i nodes in ascending order.                                   *)
SortedOf(c, i) == c \in Cells /\ Ascends(c, i) /\ \A v : CountIn(c, i, v) = CountIn(array, i, v)

LEMMA InsertedSorts ==
  ASSUME array \in Cells, NEW i \in 0 .. ArraySize - 1, NEW b, SortedOf(b, i)
  PROVE  SortedOf(Array!Inserted(b, i), i + 1)
<1> DEFINE j == PlaceOf(b, i)
           c == Array!Inserted(b, i)
           u == array[i]
<1>1. b \in Cells /\ PutIn(b, c, i, j)
  BY InsertedIs DEF SortedOf
<1>2. i \in Nat /\ ArraySize \in Nat /\ i \in 0 .. ArraySize
  BY ArrayConstants
<1>3. /\ \A x \in 0 .. j - 1 : ~ (u < b[x])
      /\ j < i => u < b[j]
  BY <1>2, PlaceIs
<1> HIDE DEF c, j
<1>4. u \in Int /\ \A x \in 0 .. i : b[x] \in Int
  <2>1. \A x \in 0 .. i : x \in 0 .. ArraySize
    BY <1>2
  <2> QED
    BY <1>1, <1>2, <2>1 DEF Cells
<1> HIDE DEF u
<1>5. j \in 0 .. i
  BY <1>1 DEF PutIn
<1>6. \A x \in 0 .. j - 1 : b[x] <= u
  <2>1. \A x \in 0 .. j - 1 : x \in 0 .. i
    BY <1>2, <1>5
  <2> QED
    BY <1>3, <1>4, <2>1
<1>7. \A x \in j .. i - 1 : u <= b[x]
  <2>1. SUFFICES ASSUME NEW x \in j .. i - 1 PROVE u <= b[x]
    OBVIOUS
  <2>2. j < i /\ x \in 0 .. i - 1 /\ j \in 0 .. i - 1 /\ (x = j \/ j < x) /\ x \in 0 .. i
    BY <1>2, <1>5
  <2>3. x = j \/ b[j] <= b[x]
    BY <2>2 DEF SortedOf, Ascends
  <2> QED
    BY <1>3, <1>4, <1>5, <2>2, <2>3
<1>8. \A x \in 0 .. i : c[x] = IF x < j THEN b[x] ELSE IF x = j THEN u ELSE b[x - 1]
  <2>1. SUFFICES ASSUME NEW x \in 0 .. i
                 PROVE  c[x] = IF x < j THEN b[x] ELSE IF x = j THEN u ELSE b[x - 1]
    OBVIOUS
  <2>2. CASE x < j
    <3>1. x \in 0 .. j - 1
      BY <1>2, <1>5, <2>2
    <3> QED
      BY <1>1, <2>2, <3>1 DEF PutIn
  <2>3. CASE x = j
    <3>1. ~ (x < j)
      BY <1>2, <1>5, <2>3
    <3> QED
      BY <1>1, <2>3, <3>1 DEF PutIn, u
  <2>4. CASE x > j
    <3>1. x - 1 \in j .. i - 1 /\ (x - 1) + 1 = x /\ ~ (x < j) /\ x # j
      BY <1>2, <1>5, <2>4
    <3>2. c[(x - 1) + 1] = b[x - 1]
      BY <1>1, <3>1 DEF PutIn
    <3> QED
      BY <3>1, <3>2
  <2> QED
    BY <1>2, <1>5, <2>2, <2>3, <2>4
<1>9. Ascends(c, i + 1)
  <2>1. SUFFICES ASSUME NEW x \in 0 .. (i + 1) - 1, NEW y \in 0 .. (i + 1) - 1, x < y
                 PROVE  c[x] <= c[y]
    BY DEF Ascends
  <2>2. x \in 0 .. i /\ y \in 0 .. i /\ x < y /\ \A z, w \in 0 .. i - 1 : z < w => b[z] <= b[w]
    BY <1>2, <2>1 DEF SortedOf, Ascends
  <2>3. CASE y < j
    <3>1. x < j /\ x \in 0 .. i - 1 /\ y \in 0 .. i - 1
      BY <1>2, <1>5, <2>2, <2>3
    <3>2. c[x] = b[x] /\ c[y] = b[y]
      BY <1>8, <2>2, <2>3, <3>1
    <3> QED
      BY <2>2, <3>1, <3>2
  <2>4. CASE y = j
    <3>1. x < j /\ x \in 0 .. j - 1 /\ ~ (y < j)
      BY <1>2, <1>5, <2>2, <2>4
    <3>2. c[x] = b[x] /\ c[y] = u
      BY <1>8, <2>2, <2>4, <3>1
    <3> QED
      BY <1>6, <3>1, <3>2
  <2>5. CASE y > j
    <3>1. ~ (y < j) /\ y # j /\ y - 1 \in 0 .. i - 1 /\ y - 1 \in j .. i - 1 /\ y - 1 \in 0 .. i
      BY <1>2, <1>5, <2>2, <2>5
    <3>2. c[y] = b[y - 1]
      BY <1>8, <2>2, <3>1
    <3>3. CASE x < j
      <4>1. x \in 0 .. j - 1 /\ x \in 0 .. i
        BY <1>2, <1>5, <2>2, <3>3
      <4>2. c[x] = b[x] /\ b[x] <= u /\ u <= b[y - 1] /\ b[x] \in Int /\ b[y - 1] \in Int
        BY <1>4, <1>6, <1>7, <1>8, <2>2, <3>1, <3>3, <4>1
      <4> QED
        BY <1>4, <3>2, <4>2
    <3>4. CASE x = j
      <4>1. ~ (x < j)
        BY <1>5, <3>4
      <4>2. c[x] = u
        BY <1>8, <2>2, <3>4, <4>1
      <4> QED
        BY <1>7, <3>1, <3>2, <4>2
    <3>5. CASE x > j
      <4>1. ~ (x < j) /\ x # j /\ x - 1 \in 0 .. i - 1 /\ x - 1 < y - 1
        BY <1>2, <1>5, <2>2, <3>5
      <4>2. c[x] = b[x - 1]
        BY <1>8, <2>2, <4>1
      <4> QED
        BY <2>2, <3>1, <3>2, <4>1, <4>2
    <3> QED
      BY <1>5, <2>2, <3>3, <3>4, <3>5
  <2> QED
    BY <1>5, <2>2, <2>3, <2>4, <2>5
<1>10. ASSUME NEW v PROVE CountIn(c, i + 1, v) = CountIn(array, i + 1, v)
  <2>1. CountIn(c, i + 1, v) = CountIn(b, i, v) + (IF c[j] = v THEN 1 ELSE 0)
    <3>1. \A x \in 0 .. j - 1 : c[x] = b[x]
      BY <1>1 DEF PutIn
    <3>2. \A x \in j .. i - 1 : c[x + 1] = b[x]
      BY <1>1 DEF PutIn
    <3>3. i \in Nat /\ j \in 0 .. i
      BY <1>2, <1>5
    <3> QED
      BY <3>1, <3>2, <3>3, NodePutIn
  <2>2. CountIn(array, i + 1, v) = CountIn(array, i, v) + (IF array[i] = v THEN 1 ELSE 0)
    <3>1. i \in 0 .. i /\ (\A x \in 0 .. i - 1 : array[x] = array[x])
          /\ (\A x \in i .. i - 1 : array[x + 1] = array[x])
      BY <1>2
    <3> QED
      BY <1>2, <3>1, NodePutIn
  <2>3. CountIn(b, i, v) = CountIn(array, i, v) /\ c[j] = array[i]
    BY <1>1 DEF SortedOf, PutIn
  <2> QED
    BY <2>1, <2>2, <2>3
<1>11. c \in Cells
  BY <1>1 DEF PutIn
<1> QED
  BY <1>9, <1>10, <1>11 DEF SortedOf, c

LEMMA InsertAllIs ==
  ASSUME array \in Cells, arrayNodes \in 0 .. ArraySize, NEW b \in Cells
  PROVE  SortedOf(Array!InsertAll(b), arrayNodes)
<1> DEFINE n == arrayNodes
           Step(d, i) == Array!Inserted(d, i)
           Loop(f) == f = [i \in 0 .. n |-> IF i = 0 THEN b ELSE Step(f[i - 1], i - 1)]
           filled == CHOOSE f : Loop(f)
           F == [q \in (0 .. n - 1) \X Cells |-> Step(q[2], q[1])]
<1>1. Array!InsertAll(b) = filled[n]
  BY DEF Array!InsertAll
<1>2. n \in Nat /\ n \in Int /\ 0 \in Int /\ 0 <= n /\ \A i \in 0 .. n - 1 : i \in 0 .. ArraySize - 1
  BY ArrayConstants
<1> HIDE DEF n
<1>3. \A d \in Cells : \A i \in 0 .. n - 1 : Step(d, i) \in Cells
  BY <1>2, InsertedIs DEF PutIn
<1> HIDE DEF Step
<1>4. F \in [(0 .. n - 1) \X Cells -> Cells]
  BY <1>3
<1>5. Loop(filled)
  <2> HIDE DEF F
  <2>1. PICK f \in [0 .. n -> Cells] : CountsUp(f, 0, n, b, F)
    BY <1>2, <1>4, UpExists
  <2>2. \A i \in 0 .. n : i # 0 => F[<<i - 1, f[i - 1]>>] = Step(f[i - 1], i - 1)
    <3>1. ASSUME NEW i \in 0 .. n, i # 0 PROVE <<i - 1, f[i - 1]>> \in (0 .. n - 1) \X Cells
      <4>1. i - 1 \in 0 .. n - 1 /\ i - 1 \in 0 .. n
        BY <1>2, <3>1
      <4> QED
        BY <4>1
    <3> QED
      BY <3>1 DEF F
  <2>3. Loop(f)
    <3>1. \A i \in 0 .. n : i # 0 => i - 1 \in 0 .. n - 1 /\ (i - 1) + 1 = i
      BY <1>2
    <3> QED
      BY <2>1, <2>2, <3>1 DEF CountsUp
  <2> QED
    BY <2>3
<1> HIDE DEF filled
<1> DEFINE T == {i \in 0 .. n : SortedOf(filled[i], i)}
<1>6. 0 \in T
  <2>1. filled[0] = b /\ 0 \in 0 .. n
    BY <1>2, <1>5
  <2>2. Ascends(b, 0)
    BY DEF Ascends
  <2>3. \A v : CountIn(b, 0, v) = CountIn(array, 0, v)
    <3>1. \A v : Places(b, 0, v) = {} /\ Places(array, 0, v) = {}
      <4>1. 0 .. 0 - 1 = {}
        OBVIOUS
      <4> QED
        BY <4>1, Zenon DEF Places
    <3> QED
      BY <3>1 DEF CountIn
  <2> QED
    BY <2>1, <2>2, <2>3 DEF SortedOf
<1>7. ASSUME NEW i \in 0 .. n - 1, i \in T PROVE i + 1 \in T
  <2>1. i + 1 \in 0 .. n /\ i + 1 # 0 /\ (i + 1) - 1 = i /\ i \in 0 .. ArraySize - 1
    BY <1>2
  <2>2. filled[i + 1] = Step(filled[i], i)
    BY <1>5, <2>1
  <2>3. SortedOf(filled[i], i)
    BY <1>7
  <2> HIDE DEF T
  <2>4. SortedOf(Step(filled[i], i), i + 1)
    BY <2>1, <2>3, InsertedSorts DEF Step
  <2> QED
    BY <2>1, <2>2, <2>4 DEF T
<1> HIDE DEF T
<1>8. n \in T
  <2>1. \A i \in 0 .. n : i \in T
    BY <1>2, <1>6, <1>7, Upward
  <2> QED
    BY <1>2, <2>1
<1> QED
  BY <1>1, <1>8 DEF T, n

(* What the calls of CSortArray keep.                                      *)
ArrayInv ==
  /\ array \in Cells /\ arrayNodes \in 0 .. ArraySize
  /\ arrayGiven = CountsOf(array, arrayNodes)
  /\ sorted => Ascends(array, arrayNodes)

LEMMA CountsStay ==
  ASSUME NEW a, NEW b, NEW n, \A v : CountIn(b, n, v) = CountIn(a, n, v)
  PROVE  CountsOf(b, n) = CountsOf(a, n)
BY DEF CountsOf

LEMMA ArrayBorn ==
  ASSUME NEW memory \in Array!Memory, Array!InitWith(memory)
  PROVE  ArrayInv
<1>1. array = memory /\ arrayNodes = 0 /\ arrayGiven = [v \in Values |-> 0] /\ sorted = FALSE
  BY DEF Array!InitWith
<1>2. array \in Cells /\ arrayNodes \in 0 .. ArraySize
  <2>1. memory \in [0 .. ArraySize -> Values]
    BY DEF Array!Memory
  <2>2. \A i \in 0 .. ArraySize : memory[i] \in Int
    BY <2>1, ArrayConstants
  <2> QED
    BY <1>1, <2>1, <2>2, ArrayConstants DEF Cells
<1>3. CountsOf(array, 0) = arrayGiven
  <2>1. \A v \in Values : Places(array, 0, v) = {}
    BY DEF Places
  <2> QED
    BY <1>1, <2>1, FS_EmptySet DEF CountsOf, CountIn
<1> QED
  BY <1>1, <1>2, <1>3 DEF ArrayInv

LEMMA ArrayAddValue ==
  ASSUME ArrayInv, NEW v \in Values, Array!AddValue(v)
  PROVE  ArrayInv'
<1> DEFINE n == arrayNodes
<1>1. /\ n < ArraySize /\ array' = [array EXCEPT ![n] = v] /\ arrayNodes' = n + 1
      /\ arrayGiven' = [arrayGiven EXCEPT ![v] = @ + 1] /\ sorted' = FALSE
  BY DEF Array!AddValue
<1>2. /\ n \in Nat /\ n \in 0 .. n /\ n + 1 \in 0 .. ArraySize /\ n \in 0 .. ArraySize /\ v \in Int
      /\ array \in [0 .. ArraySize -> Int]
      /\ \A x \in 0 .. n - 1 : x \in 0 .. ArraySize /\ x # n
  BY <1>1, ArrayConstants DEF ArrayInv, Cells
<1> HIDE DEF n
<1>3. array' \in Cells /\ array'[n] = v /\ \A x \in 0 .. n - 1 : array'[x] = array[x]
  BY <1>1, <1>2 DEF Cells
<1>4. ASSUME NEW u PROVE CountIn(array', n + 1, u) = CountIn(array, n, u) + (IF array'[n] = u THEN 1 ELSE 0)
  <2>1. \A x \in n .. n - 1 : array'[x + 1] = array[x]
    BY <1>2
  <2>2. \A x \in 0 .. n - 1 : array'[x] = array[x]
    BY <1>3
  <2>3. n \in Nat /\ n \in 0 .. n
    BY <1>2
  <2> DEFINE b == array'
  <2>4. (\A x \in 0 .. n - 1 : b[x] = array[x]) /\ (\A x \in n .. n - 1 : b[x + 1] = array[x])
    BY <2>1, <2>2
  <2> HIDE DEF b
  <2>5. CountIn(b, n + 1, u) = CountIn(array, n, u) + (IF b[n] = u THEN 1 ELSE 0)
    BY <2>3, <2>4, NodePutIn
  <2> QED
    BY <2>5 DEF b
<1>5. arrayGiven' = CountsOf(array', n + 1)
  <2>1. arrayGiven = CountsOf(array, n)
    BY DEF ArrayInv, n
  <2>2. ASSUME NEW u \in Values PROVE arrayGiven'[u] = CountIn(array', n + 1, u)
    <3>1. CountIn(array, n, u) \in Nat
      BY <1>2, PlacesFinite
    <3>2. arrayGiven[u] = CountIn(array, n, u) /\ u \in DOMAIN arrayGiven
      BY <2>1 DEF CountsOf
    <3>3. arrayGiven'[u] = IF v = u THEN arrayGiven[u] + 1 ELSE arrayGiven[u]
      BY <1>1, <3>2
    <3>4. CountIn(array', n + 1, u) = CountIn(array, n, u) + (IF v = u THEN 1 ELSE 0)
      BY <1>3, <1>4
    <3> QED
      BY <3>1, <3>2, <3>3, <3>4
  <2>3. arrayGiven' = [u \in Values |-> arrayGiven'[u]]
    BY <1>1, <2>1 DEF CountsOf
  <2> QED
    BY <2>2, <2>3 DEF CountsOf
<1> QED
  BY <1>1, <1>2, <1>3, <1>5 DEF ArrayInv

LEMMA ArrayReverseAll ==
  ASSUME ArrayInv, Array!ReverseAll
  PROVE  ArrayInv'
<1>1. /\ array' = Array!Reverse(array, 0, arrayNodes - 1) /\ sorted' = FALSE
      /\ arrayNodes' = arrayNodes /\ arrayGiven' = arrayGiven
  BY DEF Array!ReverseAll, Array!End
<1>2. /\ array \in Cells /\ arrayNodes \in 0 .. ArraySize /\ 0 \in Nat /\ arrayNodes - 1 \in Int
      /\ arrayNodes - 1 <= ArraySize - 1 /\ arrayNodes - 1 <= arrayNodes - 1
  BY ArrayConstants DEF ArrayInv
<1>3. Turned(array, array', 0, arrayNodes - 1)
  BY <1>1, <1>2, ReverseIs
<1>4. \A v : CountIn(array', arrayNodes, v) = CountIn(array, arrayNodes, v)
  BY <1>2, <1>3, TurnedKeeps
<1>5. CountsOf(array', arrayNodes) = CountsOf(array, arrayNodes)
  BY <1>4, CountsStay
<1> QED
  BY <1>1, <1>3, <1>5 DEF ArrayInv, Turned

LEMMA ArrayCycle ==
  ASSUME ArrayInv, NEW k \in Int, Array!Cycle(k)
  PROVE  ArrayInv'
<1>1. arrayNodes' = arrayNodes /\ arrayGiven' = arrayGiven /\ sorted' = FALSE
  BY DEF Array!Cycle
<1>2. array' \in Cells /\ \A v : CountIn(array', arrayNodes, v) = CountIn(array, arrayNodes, v)
  BY CycleIs DEF ArrayInv
<1>3. CountsOf(array', arrayNodes) = CountsOf(array, arrayNodes)
  BY <1>2, CountsStay
<1> QED
  BY <1>1, <1>2, <1>3 DEF ArrayInv

LEMMA ArrayShift ==
  ASSUME ArrayInv, NEW k \in Int, Array!Shift(k)
  PROVE  ArrayInv'
<1>1. /\ arrayNodes + k \in 0 .. ArraySize /\ arrayNodes' = arrayNodes + k /\ sorted' = FALSE
      /\ arrayGiven' = Array!Count(array', arrayNodes')
  BY DEF Array!Shift
<1>2. array' \in Cells
  BY ShiftIs DEF ArrayInv
<1>3. Array!Count(array', arrayNodes') = CountsOf(array', arrayNodes')
  BY DEF Array!Count, CountsOf, CountIn, Places, Array!Cardinality, Cardinality, Array!IsFiniteSet, IsFiniteSet
<1> QED
  BY <1>1, <1>2, <1>3 DEF ArrayInv

LEMMA ArraySort ==
  ASSUME ArrayInv, Array!Sort
  PROVE  ArrayInv'
<1>1. PICK memory \in [arrayNodes .. ArraySize -> Values] :
        array' = Array!InsertAll([i \in 0 .. ArraySize |-> IF i < arrayNodes THEN 0 ELSE memory[i]])
  BY DEF Array!Sort
<1>2. arrayNodes' = arrayNodes /\ arrayGiven' = arrayGiven
  BY DEF Array!Sort
<1> DEFINE b == [i \in 0 .. ArraySize |-> IF i < arrayNodes THEN 0 ELSE memory[i]]
<1>3. b \in Cells
  <2>1. ASSUME NEW i \in 0 .. ArraySize PROVE (IF i < arrayNodes THEN 0 ELSE memory[i]) \in Int
    <3>1. i < arrayNodes \/ i \in arrayNodes .. ArraySize
      BY ArrayConstants DEF ArrayInv
    <3>2. i \in arrayNodes .. ArraySize => memory[i] \in Values
      OBVIOUS
    <3>3. 0 \in Int
      OBVIOUS
    <3> QED
      BY <3>1, <3>2, <3>3, ArrayConstants
  <2> QED
    BY <2>1 DEF Cells
<1>4. array' = Array!InsertAll(b)
  BY <1>1
<1> HIDE DEF b
<1>5. SortedOf(array', arrayNodes)
  BY <1>3, <1>4, InsertAllIs DEF ArrayInv
<1>6. array' \in Cells /\ Ascends(array', arrayNodes)
      /\ \A v : CountIn(array', arrayNodes, v) = CountIn(array, arrayNodes, v)
  BY <1>5 DEF SortedOf
<1>7. CountsOf(array', arrayNodes) = CountsOf(array, arrayNodes)
  BY <1>6, CountsStay
<1> QED
  BY <1>2, <1>6, <1>7 DEF ArrayInv

LEMMA ShiftsAreIntegers == Array!Shifts \subseteq Int
BY ArrayConstants DEF Array!Shifts

LEMMA ArrayStep ==
  ASSUME ArrayInv, [Array!Next]_arrayVars
  PROVE  ArrayInv'
<1>1. CASE UNCHANGED arrayVars
  <2>1. array' = array /\ arrayNodes' = arrayNodes /\ arrayGiven' = arrayGiven /\ sorted' = sorted
    BY <1>1 DEF arrayVars
  <2> QED
    BY <2>1 DEF ArrayInv
<1>2. ASSUME NEW v \in Values, Array!AddValue(v) PROVE ArrayInv'
  BY <1>2, ArrayAddValue
<1>3. ASSUME NEW k \in Array!Shifts, Array!Cycle(k) PROVE ArrayInv'
  BY <1>3, ArrayCycle, ShiftsAreIntegers
<1>4. ASSUME NEW k \in Array!Shifts, Array!Shift(k) PROVE ArrayInv'
  BY <1>4, ArrayShift, ShiftsAreIntegers
<1>5. CASE Array!ReverseAll
  BY <1>5, ArrayReverseAll
<1>6. CASE Array!Sort
  BY <1>6, ArraySort
<1> QED
  BY <1>1, <1>2, <1>3, <1>4, <1>5, <1>6 DEF Array!Next

LEMMA ArrayMoves ==
  ASSUME ArrayInv
  PROVE  Array!Moves
<1>1. ASSUME NEW k \in Array!Shifts, Array!Cycle(k), NEW i \in Array!Held
      PROVE  array'[(i + k) % arrayNodes] = array[i]
  <2>1. k \in Int /\ i \in 0 .. arrayNodes - 1
    BY ShiftsAreIntegers DEF Array!Held
  <2>2. \A x \in 0 .. arrayNodes - 1 : array'[(x + k) % arrayNodes] = array[x]
    BY <1>1, <2>1, CycleIs DEF ArrayInv
  <2> QED
    BY <2>1, <2>2
<1>2. ASSUME NEW k \in Array!Shifts, Array!Shift(k), NEW i \in Array!Held, i + k >= 0
      PROVE  array'[i + k] = array[i]
  <2>1. k \in Int /\ i \in 0 .. arrayNodes - 1
    BY ShiftsAreIntegers DEF Array!Held
  <2>2. \A x \in 0 .. arrayNodes - 1 : x + k >= 0 => array'[x + k] = array[x]
    BY <1>2, <2>1, ShiftIs DEF ArrayInv
  <2> QED
    BY <1>2, <2>1, <2>2
<1> QED
  BY <1>1, <1>2 DEF Array!Moves

LEMMA ArrayOrdered ==
  ASSUME ArrayInv
  PROVE  Array!Ordered /\ Array!Holds
<1>1. Array!Ordered
  BY DEF ArrayInv, Ascends, Array!Ordered, Array!Held
<1>2. Array!Holds
  <2>1. SUFFICES ASSUME NEW v \in Values
                 PROVE  Array!Cardinality({i \in Array!Held : array[i] = v}) = arrayGiven[v]
    BY DEF Array!Holds
  <2>2. Array!Cardinality({i \in Array!Held : array[i] = v}) = CountsOf(array, arrayNodes)[v]
    BY DEF Array!Cardinality, Cardinality, Array!Held, CountsOf, CountIn, Places, Array!IsFiniteSet, IsFiniteSet
  <2> QED
    BY <2>2 DEF ArrayInv
<1> QED
  BY <1>1, <1>2
-----------------------------------------------------------------------------
(* The containers together: a step of one leaves the others as they are.   *)
LEMMA StepsOfTheArrays ==
  ASSUME [Next]_vars
  PROVE  [Heap!Next]_heapVars /\ [Array!Next]_arrayVars
<1>1. CASE UNCHANGED vars
  BY <1>1 DEF vars
<1>2. CASE UseTree
  BY <1>2 DEF UseTree
<1>3. CASE UseHash
  BY <1>3 DEF UseHash
<1>4. CASE UseTrie
  BY <1>4 DEF UseTrie
<1>5. CASE UseHeap
  BY <1>5 DEF UseHeap
<1>6. CASE UseArray
  BY <1>6 DEF UseArray
<1> QED
  BY <1>1, <1>2, <1>3, <1>4, <1>5, <1>6 DEF Next

(* The inductive invariant of heaps and array: what each call keeps.       *)
ArraysInv == HeapInv /\ ArrayInv

(* It holds in every state of every sequence of calls.                     *)
THEOREM ArraysInvariant == Spec => []ArraysInv
<1>1. Init => ArraysInv
  <2>1. ASSUME Init PROVE HeapInv
    <3>1. PICK isTop \in BOOLEAN : Heap!InitWith(isTop)
      BY <2>1 DEF Init
    <3> QED
      BY <3>1, HeapBorn
  <2>2. ASSUME Init PROVE ArrayInv
    <3>1. PICK memory \in Array!Memory : Array!InitWith(memory)
      BY <2>2 DEF Init
    <3> QED
      BY <3>1, ArrayBorn
  <2> QED
    BY <2>1, <2>2 DEF ArraysInv
<1>2. ArraysInv /\ [Next]_vars => ArraysInv'
  BY StepsOfTheArrays, HeapStep, ArrayStep DEF ArraysInv
<1> QED
  BY <1>1, <1>2, PTL DEF Spec

(* After every call CHeap, CTopNHeap and CSortArray are in the order it    *)
(* promises, and a selection narrows its range round the place it looks    *)
(* for: for every finite set of keys, every size and sequence of calls.    *)
THEOREM OrderedCorrect == Spec => []Ordered
<1>1. ArraysInv => Ordered
  BY HeapOrdered, ArrayOrdered DEF ArraysInv, Ordered
<1> QED
  BY <1>1, ArraysInvariant, PTL

(* No call of CHeap or CSortArray loses or invents a node, and CTopNHeap   *)
(* holds, of all the nodes it was ever shown, exactly the SIZE largest.    *)
THEOREM HoldsCorrect == Spec => []Holds
<1>1. ArraysInv => Holds
  BY HeapHolds, ArrayOrdered DEF ArraysInv, Holds
<1> QED
  BY <1>1, ArraysInvariant, PTL

(* cycle(n) and shift(n) of CSortArray move every value n places, round    *)
(* the end or off it, for each n that may be given.                        *)
THEOREM MovesCorrect == Spec => Moves
<1>1. ArraysInv /\ [Next]_vars => [Array!Moves]_arrayVars
  BY ArrayMoves DEF ArraysInv
<1> QED
  BY <1>1, ArraysInvariant, PTL DEF Spec, Moves
=============================================================================
