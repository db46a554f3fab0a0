---------------------------- MODULE ListTheorems ----------------------------
(***************************************************************************)
(* What appending to a list, taking from its end and joining two lists do  *)
(* to what they hold; and what the sums over a finite set are.             *)
(***************************************************************************)
EXTENDS Lists, FiniteSetsExt, SequenceTheorems, FiniteSetTheorems, WellFoundedInduction, TLAPS

LEMMA AppendIds ==
  ASSUME NEW S, NEW s \in Seq(S), NEW e \in S
  PROVE  /\ Append(s, e) \in Seq(S)
         /\ IdsOf(Append(s, e)) = IdsOf(s) \cup {e}
         /\ NoRepeat(s) /\ e \notin IdsOf(s) => NoRepeat(Append(s, e))
BY DEF IdsOf, NoRepeat

LEMMA FrontIds ==
  ASSUME NEW S, NEW s \in Seq(S), s # <<>>
  PROVE  /\ SubSeq(s, 1, Len(s) - 1) \in Seq(S)
         /\ Len(SubSeq(s, 1, Len(s) - 1)) = Len(s) - 1
         /\ s[Len(s)] \in S /\ s[Len(s)] \in IdsOf(s)
         /\ NoRepeat(s) => /\ NoRepeat(SubSeq(s, 1, Len(s) - 1))
                           /\ IdsOf(SubSeq(s, 1, Len(s) - 1)) = IdsOf(s) \ {s[Len(s)]}
<1> DEFINE f == SubSeq(s, 1, Len(s) - 1)
<1>1. Len(s) \in Nat \ {0} /\ DOMAIN s = 1 .. Len(s)
  OBVIOUS
<1>2. f \in Seq(S) /\ Len(f) = Len(s) - 1 /\ \A i \in 1 .. (Len(s) - 1) : f[i] = s[i]
  BY <1>1
<1>3. DOMAIN f = 1 .. (Len(s) - 1)
  BY <1>2
<1>4. s[Len(s)] \in S /\ s[Len(s)] \in IdsOf(s)
  BY <1>1 DEF IdsOf
<1>5. ASSUME NoRepeat(s)
      PROVE  NoRepeat(f) /\ IdsOf(f) = IdsOf(s) \ {s[Len(s)]}
  <2> HIDE DEF f
  <2>1. NoRepeat(f)
    BY <1>1, <1>2, <1>3, <1>5 DEF NoRepeat
  <2>2. ASSUME NEW x \in IdsOf(f) PROVE x \in IdsOf(s) \ {s[Len(s)]}
    <3>1. PICK i \in 1 .. (Len(s) - 1) : x = s[i]
      BY <1>2, <1>3 DEF IdsOf
    <3> QED
      BY <1>1, <1>5, <3>1 DEF NoRepeat, IdsOf
  <2>3. ASSUME NEW x \in IdsOf(s) \ {s[Len(s)]} PROVE x \in IdsOf(f)
    <3>1. PICK i \in 1 .. Len(s) : x = s[i] /\ i # Len(s)
      BY <1>1 DEF IdsOf
    <3>2. i \in 1 .. (Len(s) - 1)
      <4> DEFINE n == Len(s)
      <4>1. n \in Nat /\ i \in 1 .. n /\ i # n
        BY <1>1, <3>1
      <4> HIDE DEF n
      <4>2. i \in 1 .. (n - 1)
        BY <4>1
      <4> QED
        BY <4>2 DEF n
    <3>3. f[i] = x
      BY <1>2, <3>1, <3>2
    <3> QED
      BY <1>3, <3>2, <3>3 DEF IdsOf
  <2> QED
    BY <2>1, <2>2, <2>3
<1> QED
  BY <1>2, <1>4, <1>5

LEMMA EmptyIds == IdsOf(<<>>) = {} /\ NoRepeat(<<>>)
BY DEF IdsOf, NoRepeat

LEMMA ConcatIds ==
  ASSUME NEW S, NEW s \in Seq(S), NEW t \in Seq(S)
  PROVE  /\ s \o t \in Seq(S)
         /\ IdsOf(s \o t) = IdsOf(s) \cup IdsOf(t)
         /\ NoRepeat(s \o t) <=> NoRepeat(s) /\ NoRepeat(t) /\ IdsOf(s) \cap IdsOf(t) = {}
<1> DEFINE m == Len(s)
           n == Len(t)
           c == s \o t
<1>1. /\ m \in Nat /\ n \in Nat
      /\ DOMAIN s = 1 .. m /\ DOMAIN t = 1 .. n
  BY LenProperties
<1>2. /\ c \in Seq(S) /\ Len(c) = m + n
      /\ \A i \in 1 .. (m + n) : c[i] = IF i <= m THEN s[i] ELSE t[i - m]
  BY ConcatProperties
<1>3. DOMAIN c = 1 .. (m + n)
  BY <1>2, LenProperties
<1> HIDE DEF m, n, c
<1>4. \A i \in 1 .. m : i \in 1 .. (m + n) /\ c[i] = s[i]
  BY <1>1, <1>2
<1>5. \A i \in 1 .. n : m + i \in 1 .. (m + n) /\ c[m + i] = t[i]
  BY <1>1, <1>2
<1>6. \A i \in 1 .. (m + n) : \/ i \in 1 .. m /\ c[i] = s[i]
                              \/ i - m \in 1 .. n /\ c[i] = t[i - m]
  BY <1>1, <1>2
<1>7. IdsOf(c) = IdsOf(s) \cup IdsOf(t)
  <2>1. ASSUME NEW x \in IdsOf(c) PROVE x \in IdsOf(s) \cup IdsOf(t)
    <3>1. PICK i \in 1 .. (m + n) : x = c[i]
      BY <1>3, <2>1 DEF IdsOf
    <3> QED
      BY <1>1, <1>6, <3>1 DEF IdsOf
  <2>2. ASSUME NEW i \in 1 .. m PROVE s[i] \in IdsOf(c)
    BY <1>3, <1>4, <2>2 DEF IdsOf
  <2>3. ASSUME NEW i \in 1 .. n PROVE t[i] \in IdsOf(c)
    BY <1>3, <1>5, <2>3 DEF IdsOf
  <2>4. IdsOf(s) \subseteq IdsOf(c) /\ IdsOf(t) \subseteq IdsOf(c)
    BY <1>1, <2>2, <2>3 DEF IdsOf
  <2> QED
    BY <2>1, <2>4
<1>8. ASSUME NoRepeat(c) PROVE NoRepeat(s) /\ NoRepeat(t) /\ IdsOf(s) \cap IdsOf(t) = {}
  <2>1. NoRepeat(s)
    BY <1>1, <1>3, <1>4, <1>8 DEF NoRepeat
  <2>2. ASSUME NEW i \in 1 .. n, NEW j \in 1 .. n, t[i] = t[j] PROVE i = j
    <3>1. m + i = m + j
      BY <1>3, <1>5, <1>8, <2>2 DEF NoRepeat
    <3> QED
      BY <1>1, <3>1
  <2>3. ASSUME NEW i \in 1 .. m, NEW j \in 1 .. n PROVE s[i] # t[j]
    <3>1. i # m + j
      BY <1>1
    <3> QED
      BY <1>3, <1>4, <1>5, <1>8, <3>1 DEF NoRepeat
  <2> QED
    BY <1>1, <2>1, <2>2, <2>3 DEF NoRepeat, IdsOf
<1>9. ASSUME NoRepeat(s), NoRepeat(t), IdsOf(s) \cap IdsOf(t) = {} PROVE NoRepeat(c)
  <2>1. SUFFICES ASSUME NEW i \in 1 .. (m + n), NEW j \in 1 .. (m + n), c[i] = c[j]
                 PROVE  i = j
    BY <1>3 DEF NoRepeat
  <2>2. CASE i \in 1 .. m /\ c[i] = s[i] /\ j \in 1 .. m /\ c[j] = s[j]
    BY <1>1, <1>9, <2>1, <2>2 DEF NoRepeat
  <2>3. CASE i - m \in 1 .. n /\ c[i] = t[i - m] /\ j - m \in 1 .. n /\ c[j] = t[j - m]
    <3>1. i - m = j - m
      BY <1>1, <1>9, <2>1, <2>3 DEF NoRepeat
    <3> QED
      BY <1>1, <3>1
  <2>4. ASSUME NEW k \in 1 .. m, NEW l \in 1 .. n PROVE s[k] # t[l]
    BY <1>1, <1>9 DEF IdsOf
  <2> QED
    BY <1>6, <2>1, <2>2, <2>3, <2>4
<1> QED
  BY <1>2, <1>7, <1>8, <1>9 DEF c

(* A list without repetition is as long as the set of what it holds.       *)
LEMMA CountIds ==
  ASSUME NEW S, NEW s \in Seq(S), NoRepeat(s)
  PROVE  IsFiniteSet(IdsOf(s)) /\ Cardinality(IdsOf(s)) = Len(s)
<1>1. /\ Len(s) \in Nat /\ s \in [1 .. Len(s) -> S] /\ DOMAIN s = 1 .. Len(s)
  BY LenProperties
<1>2. s \in Bijection(1 .. Len(s), IdsOf(s))
  BY <1>1 DEF Bijection, Injection, Surjection, IsInjective, IdsOf, NoRepeat
<1>3. IsFiniteSet(1 .. Len(s)) /\ Cardinality(1 .. Len(s)) = Len(s)
  BY <1>1, FS_Interval
<1> QED
  BY <1>2, <1>3, FS_Bijection DEF ExistsBijection

(* Appending to the second of two joined lists.                            *)
LEMMA ConcatAppend ==
  ASSUME NEW S, NEW s \in Seq(S), NEW t \in Seq(S), NEW e \in S
  PROVE  s \o Append(t, e) = Append(s \o t, e)
<1> DEFINE m == Len(s)
           n == Len(t)
           u == Append(t, e)
           c == s \o t
<1>1. m \in Nat /\ n \in Nat
  BY LenProperties
<1>2. u \in Seq(S) /\ Len(u) = n + 1 /\ u[n + 1] = e /\ \A i \in 1 .. n : u[i] = t[i]
  BY AppendProperties
<1>3. /\ c \in Seq(S) /\ Len(c) = m + n
      /\ \A i \in 1 .. (m + n) : c[i] = IF i <= m THEN s[i] ELSE t[i - m]
  BY ConcatProperties
<1> HIDE DEF u, c
<1>4. /\ s \o u \in Seq(S) /\ Len(s \o u) = m + (n + 1)
      /\ \A i \in 1 .. (m + (n + 1)) : (s \o u)[i] = IF i <= m THEN s[i] ELSE u[i - m]
  <2>1. /\ s \o u \in Seq(S) /\ Len(s \o u) = Len(s) + Len(u)
        /\ \A i \in 1 .. Len(s) + Len(u) : (s \o u)[i] = IF i <= Len(s) THEN s[i] ELSE u[i - Len(s)]
    BY <1>2, ConcatProperties
  <2> QED
    BY <1>2, <2>1
<1>5. /\ Append(c, e) \in Seq(S) /\ Len(Append(c, e)) = m + n + 1
      /\ Append(c, e)[m + n + 1] = e /\ \A i \in 1 .. (m + n) : Append(c, e)[i] = c[i]
  BY <1>3, AppendProperties
<1> HIDE DEF m, n
<1>6. ASSUME NEW i \in 1 .. (m + (n + 1)) PROVE (s \o u)[i] = Append(c, e)[i]
  <2>1. CASE i <= m
    BY <1>1, <1>3, <1>4, <1>5, <2>1
  <2>2. CASE i > m /\ i <= m + n
    <3>1. i - m \in 1 .. n /\ i \in 1 .. (m + n) /\ ~(i <= m)
      BY <1>1, <2>2
    <3> QED
      BY <1>2, <1>3, <1>4, <1>5, <3>1
  <2>3. CASE i = m + n + 1
    <3>1. i - m = n + 1 /\ ~(i <= m)
      BY <1>1, <2>3
    <3> QED
      BY <1>2, <1>4, <1>5, <2>3, <3>1
  <2>4. i <= m \/ (i > m /\ i <= m + n) \/ i = m + n + 1
    BY <1>1
  <2> QED
    BY <2>1, <2>2, <2>3, <2>4
<1> QED
  BY <1>1, <1>4, <1>5, <1>6, SeqEqual DEF u, c

(* Moving the first of the second list to the end of the first one.        *)
LEMMA ConcatMove ==
  ASSUME NEW S, NEW s \in Seq(S), NEW t \in Seq(S), t # <<>>
  PROVE  Append(s, Head(t)) \o Tail(t) = s \o t
<1>1. Head(t) \in S /\ Tail(t) \in Seq(S) /\ t = <<Head(t)>> \o Tail(t) /\ <<Head(t)>> \in Seq(S)
  <2>1. Head(t) \in S /\ Tail(t) \in Seq(S)
    BY HeadTailProperties
  <2>2. <<Head(t)>> \in Seq(S)
    BY <2>1
  <2>3. /\ Len(<<Head(t)>>) = 1 /\ <<Head(t)>>[1] = Head(t)
        /\ Len(t) \in Nat \ {0} /\ Len(Tail(t)) = Len(t) - 1
        /\ \A i \in 1 .. Len(Tail(t)) : Tail(t)[i] = t[i + 1]
        /\ Head(t) = t[1]
    BY HeadTailProperties, LenProperties, EmptySeq
  <2> DEFINE c == <<Head(t)>> \o Tail(t)
             n == Len(t)
  <2>4. /\ c \in Seq(S) /\ Len(c) = 1 + (n - 1)
        /\ \A i \in 1 .. 1 + (n - 1) : c[i] = IF i <= 1 THEN t[1] ELSE Tail(t)[i - 1]
    BY <2>1, <2>2, <2>3, ConcatProperties
  <2> HIDE DEF c, n
  <2>5. n \in Nat \ {0}
    BY <2>3 DEF n
  <2>6. ASSUME NEW i \in 1 .. n PROVE c[i] = t[i]
    <3>1. CASE i = 1
      BY <2>4, <2>5, <3>1
    <3>2. CASE i # 1
      <4>1. i - 1 \in 1 .. (n - 1) /\ ~(i <= 1) /\ i \in 1 .. 1 + (n - 1) /\ (i - 1) + 1 = i
        BY <2>5, <3>2
      <4>2. Tail(t)[i - 1] = t[i]
        BY <2>3, <4>1 DEF n
      <4> QED
        BY <2>4, <4>1, <4>2
    <3> QED
      BY <3>1, <3>2
  <2>7. c = t
    BY <2>4, <2>5, <2>6, SeqEqual DEF n
  <2> QED
    BY <2>1, <2>2, <2>7 DEF c
<1>2. Append(s, Head(t)) = s \o <<Head(t)>>
  BY <1>1, AppendIsConcat
<1>3. (s \o <<Head(t)>>) \o Tail(t) = s \o (<<Head(t)>> \o Tail(t))
  BY <1>1, ConcatAssociative
<1> QED
  BY <1>1, <1>2, <1>3

(* A set of numbers has a least one, and a bounded one a last one.         *)
LEMMA LeastExists ==
  ASSUME NEW S \in SUBSET Nat, S # {}
  PROVE  \E m \in S : \A p \in S : m <= p
<1>1. PICK m \in S : \A p \in S : ~ (<<p, m>> \in OpToRel(<, Nat))
  BY NatLessThanWellFounded, WFMin
<1>2. ASSUME NEW p \in S PROVE m <= p
  <2>1. m \in Nat /\ p \in Nat
    OBVIOUS
  <2>2. <<p, m>>[1] = p /\ <<p, m>>[2] = m /\ <<p, m>> \in Nat \X Nat
    BY <2>1
  <2>3. ~ (p < m)
    BY <1>1, <2>2 DEF OpToRel
  <2> QED
    BY <2>1, <2>3
<1> QED
  BY <1>2

LEMMA LastExists ==
  ASSUME NEW N \in Nat, NEW S \in SUBSET (1 .. N), S # {}
  PROVE  \E m \in S : \A p \in S : p <= m
<1> DEFINE T == {N - p : p \in S}
<1>1. T \in SUBSET Nat /\ T # {}
  <2>1. \A p \in S : N - p \in Nat
    OBVIOUS
  <2>2. T \subseteq Nat
    BY <2>1
  <2>3. PICK p \in S : TRUE
    OBVIOUS
  <2>4. N - p \in T
    BY <2>3
  <2> QED
    BY <2>2, <2>4
<1>2. PICK t \in T : \A u \in T : t <= u
  BY <1>1, LeastExists
<1>3. PICK m \in S : t = N - m
  BY <1>2
<1>4. \A p \in S : N - m <= N - p
  BY <1>2, <1>3
<1>5. \A p \in S : p <= m
  BY <1>3, <1>4
<1> QED
  BY <1>5

(* Sums of the elements of A that start over at the numbers in Z: the      *)
(* function that is meant by its recursive definition exists.              *)
SumsTo(g, n, Z, A) == g = [p \in 0 .. n |-> IF p \in Z THEN 0 ELSE g[p - 1] + A[p - 1]]

LEMMA SumsExist ==
  ASSUME NEW Z, 0 \in Z, NEW A
  PROVE  \E f : f = [p \in Nat |-> IF p \in Z THEN 0 ELSE f[p - 1] + A[p - 1]]
<1>1. ASSUME NEW n \in Nat PROVE \E g : SumsTo(g, n, Z, A)
  <2> DEFINE T == {k \in Nat : ~ \E g : SumsTo(g, k, Z, A)}
  <2>1. SUFFICES ASSUME T # {} PROVE FALSE
    OBVIOUS
  <2>2. PICK m \in T : \A k \in T : m <= k
    <3>1. T \in SUBSET Nat
      OBVIOUS
    <3> QED
      BY <2>1, <3>1, LeastExists
  <2>3. CASE m = 0
    <3> DEFINE g == [p \in 0 .. 0 |-> 0]
    <3>1. g = [p \in 0 .. 0 |-> IF p \in Z THEN 0 ELSE g[p - 1] + A[p - 1]]
      <4>1. \A p \in 0 .. 0 : p = 0
        OBVIOUS
      <4> QED
        BY <4>1
    <3>2. SumsTo(g, 0, Z, A)
      BY <3>1 DEF SumsTo
    <3> QED
      BY <2>2, <2>3, <3>2
  <2>4. CASE m # 0
    <3>1. m - 1 \in Nat /\ m - 1 \notin T
      BY <2>2, <2>4
    <3>2. PICK g : SumsTo(g, m - 1, Z, A)
      BY <3>1
    <3> DEFINE h == [p \in 0 .. m |-> IF p = m THEN IF p \in Z THEN 0 ELSE g[p - 1] + A[p - 1] ELSE g[p]]
    <3>3. ASSUME NEW p \in 0 .. m
          PROVE  h[p] = IF p \in Z THEN 0 ELSE h[p - 1] + A[p - 1]
      <4>1. p \notin Z => p - 1 \in 0 .. (m - 1) /\ p - 1 \in 0 .. m /\ p - 1 # m
        BY <2>2
      <4>2. p \notin Z => h[p - 1] = g[p - 1]
        BY <4>1
      <4>3. CASE p = m
        BY <4>2, <4>3
      <4>4. CASE p # m
        <5>1. p \in 0 .. (m - 1)
          BY <2>2, <4>4
        <5>2. g[p] = IF p \in Z THEN 0 ELSE g[p - 1] + A[p - 1]
          BY <3>2, <5>1 DEF SumsTo
        <5> QED
          BY <4>2, <4>4, <5>2
      <4> QED
        BY <4>3, <4>4
    <3>4. h = [p \in 0 .. m |-> h[p]]
      OBVIOUS
    <3> HIDE DEF h
    <3>5. SumsTo(h, m, Z, A)
      BY <3>3, <3>4 DEF SumsTo
    <3> QED
      BY <2>2, <3>5
  <2> QED
    BY <2>3, <2>4
<1>2. ASSUME NEW m \in Nat, NEW k \in Nat, m <= k, NEW g, SumsTo(g, m, Z, A), NEW h, SumsTo(h, k, Z, A),
             NEW n \in 0 .. m
      PROVE  g[n] = h[n]
  <2> DEFINE T == {p \in 0 .. m : g[p] # h[p]}
  <2>1. SUFFICES ASSUME T # {} PROVE FALSE
    OBVIOUS
  <2>2. PICK p \in T : \A q \in T : p <= q
    <3>1. T \in SUBSET Nat
      OBVIOUS
    <3> QED
      BY <2>1, <3>1, LeastExists
  <2>3. p \in 0 .. m /\ p \in 0 .. k
    BY <1>2, <2>2
  <2>4. /\ g[p] = IF p \in Z THEN 0 ELSE g[p - 1] + A[p - 1]
        /\ h[p] = IF p \in Z THEN 0 ELSE h[p - 1] + A[p - 1]
    BY <1>2, <2>3 DEF SumsTo
  <2>5. CASE p \in Z
    BY <2>2, <2>4, <2>5
  <2>6. CASE p \notin Z
    <3>1. p - 1 \in 0 .. m /\ p - 1 \notin T
      BY <2>2, <2>3, <2>6
    <3> QED
      BY <2>2, <2>4, <2>6, <3>1
  <2> QED
    BY <2>5, <2>6
<1> DEFINE of(n) == CHOOSE g : SumsTo(g, n, Z, A)
           f == [n \in Nat |-> of(n)[n]]
<1>3. \A n \in Nat : SumsTo(of(n), n, Z, A)
  BY <1>1
<1> HIDE DEF of
<1>4. ASSUME NEW n \in Nat PROVE f[n] = IF n \in Z THEN 0 ELSE f[n - 1] + A[n - 1]
  <2>1. of(n)[n] = IF n \in Z THEN 0 ELSE of(n)[n - 1] + A[n - 1]
    <3>1. SumsTo(of(n), n, Z, A) /\ n \in 0 .. n
      BY <1>3
    <3> QED
      BY <3>1 DEF SumsTo
  <2>2. n \notin Z => of(n)[n - 1] = of(n - 1)[n - 1]
    <3>1. SUFFICES ASSUME n \notin Z PROVE of(n)[n - 1] = of(n - 1)[n - 1]
      OBVIOUS
    <3>2. n - 1 \in Nat /\ n - 1 <= n /\ n - 1 \in 0 .. (n - 1)
      BY <3>1
    <3>3. SumsTo(of(n - 1), n - 1, Z, A) /\ SumsTo(of(n), n, Z, A)
      BY <1>3, <3>2
    <3> QED
      BY <1>2, <3>2, <3>3
  <2>3. n \notin Z => n - 1 \in Nat
    OBVIOUS
  <2> QED
    BY <2>1, <2>2, <2>3
<1>5. f = [n \in Nat |-> f[n]]
  OBVIOUS
<1> HIDE DEF f
<1>6. f = [n \in Nat |-> IF n \in Z THEN 0 ELSE f[n - 1] + A[n - 1]]
  BY <1>4, <1>5
<1> QED
  BY <1>6

(* A family of subsets of a finite set has one that is minimal.            *)
LEMMA SmallestSet ==
  ASSUME NEW S, IsFiniteSet(S), NEW B \in SUBSET SUBSET S, B # {}
  PROVE  \E T \in B : \A x \in T : T \ {x} \notin B
<1> DEFINE N == {Cardinality(T) : T \in B}
<1>1. ASSUME NEW T \in B PROVE IsFiniteSet(T) /\ Cardinality(T) \in Nat
  BY FS_Subset, FS_CardinalityType
<1>2. N \in SUBSET Nat /\ N # {}
  BY <1>1
<1>3. PICK m \in N : \A p \in N : m <= p
  <2> HIDE DEF N
  <2> QED
    BY <1>2, LeastExists
<1>4. PICK T \in B : m = Cardinality(T)
  BY <1>3
<1>5. ASSUME NEW x \in T, T \ {x} \in B PROVE FALSE
  <2>1. Cardinality(T \ {x}) = Cardinality(T) - 1
    BY <1>1, FS_RemoveElement
  <2>2. Cardinality(T) <= Cardinality(T \ {x})
    BY <1>3, <1>4, <1>5
  <2> QED
    BY <1>1, <2>1, <2>2
<1> QED
  BY <1>5

(* The sums of f over all subsets of S, as MapThenSumSet of the community  *)
(* modules computes them.                                                  *)
Pick(s) == CHOOSE x \in s : TRUE

SumsOver(a, f, S) ==
  a = [s \in SUBSET S |-> IF s = {} THEN 0 ELSE f[Pick(s)] + a[s \ {Pick(s)}]]

LEMMA PickIn == ASSUME NEW s, s # {} PROVE Pick(s) \in s
BY DEF Pick

LEMMA SetSumsExist ==
  ASSUME NEW S, IsFiniteSet(S), NEW f
  PROVE  \E a : SumsOver(a, f, S)
<1> DEFINE Upto(n) == {s \in SUBSET S : Cardinality(s) <= n}
           Partial(a, n) ==
             a = [s \in Upto(n) |-> IF s = {} THEN 0 ELSE f[Pick(s)] + a[s \ {Pick(s)}]]
           T == {n \in Nat : ~ \E a : Partial(a, n)}
<1>1. ASSUME NEW s \in SUBSET S PROVE IsFiniteSet(s) /\ Cardinality(s) \in Nat
  BY FS_Subset, FS_CardinalityType
<1>2. ASSUME T # {} PROVE FALSE
  <2>1. PICK n \in T : \A k \in T : n <= k
    <3>1. T \in SUBSET Nat
      OBVIOUS
    <3> HIDE DEF T
    <3> QED
      BY <1>2, <3>1, LeastExists
  <2>2. CASE n = 0
    <3> DEFINE a == [s \in Upto(0) |-> 0]
    <3>1. \A s \in Upto(0) : s = {}
      BY <1>1, FS_EmptySet
    <3>2. a = [s \in Upto(0) |-> IF s = {} THEN 0 ELSE f[Pick(s)] + a[s \ {Pick(s)}]]
      <4> HIDE DEF Upto
      <4> QED
        BY <3>1
    <3>3. Partial(a, 0)
      BY <3>2
    <3> QED
      BY <2>1, <2>2, <3>3
  <2>3. CASE n # 0
    <3>1. n - 1 \in Nat /\ n - 1 \notin T
      <4>1. n \in Nat
        OBVIOUS
      <4> HIDE DEF T
      <4> QED
        BY <2>1, <2>3, <4>1
    <3>2. PICK g : Partial(g, n - 1)
      BY <3>1
    <3> DEFINE a == [s \in Upto(n) |-> IF s = {} THEN 0 ELSE f[Pick(s)] + g[s \ {Pick(s)}]]
    <3>3. ASSUME NEW s \in Upto(n), s # {} PROVE a[s \ {Pick(s)}] = g[s \ {Pick(s)}]
      <4> DEFINE t == s \ {Pick(s)}
      <4>1. Pick(s) \in s
        BY <3>3, PickIn
      <4>2. Cardinality(t) = Cardinality(s) - 1
        BY <1>1, <4>1, FS_RemoveElement
      <4>3. t \in SUBSET S /\ Cardinality(s) \in Nat /\ Cardinality(s) <= n
        BY <1>1
      <4>4. t \in Upto(n) /\ t \in Upto(n - 1)
        <5>1. Cardinality(t) <= n - 1 /\ Cardinality(t) <= n
          BY <2>1, <4>2, <4>3
        <5> QED
          BY <4>3, <5>1
      <4> HIDE DEF t
      <4>5. a[t] = IF t = {} THEN 0 ELSE f[Pick(t)] + g[t \ {Pick(t)}]
        BY <4>4
      <4>6. g[t] = IF t = {} THEN 0 ELSE f[Pick(t)] + g[t \ {Pick(t)}]
        BY <3>2, <4>4
      <4> QED
        BY <4>5, <4>6 DEF t
    <3>4. \A s \in Upto(n) : a[s] = IF s = {} THEN 0 ELSE f[Pick(s)] + a[s \ {Pick(s)}]
      <4> HIDE DEF Upto
      <4> QED
        BY <3>3
    <3>5. a = [s \in Upto(n) |-> a[s]]
      OBVIOUS
    <3> HIDE DEF a, Upto
    <3>6. a = [s \in Upto(n) |-> IF s = {} THEN 0 ELSE f[Pick(s)] + a[s \ {Pick(s)}]]
      BY <3>4, <3>5
    <3>7. Partial(a, n)
      BY <3>6
    <3> QED
      BY <2>1, <3>7
  <2> QED
    BY <2>2, <2>3
<1>3. PICK a : Partial(a, Cardinality(S))
  BY <1>1, <1>2
<1>4. Upto(Cardinality(S)) = SUBSET S
  BY FS_Subset
<1>5. SumsOver(a, f, S)
  <2> HIDE DEF Upto
  <2> QED
    BY <1>3, <1>4 DEF SumsOver
<1> QED
  BY <1>5

(* f and h, with integers, differ at u only.                               *)
SameBut(f, S, h, R, u) ==
  /\ \A x \in S : f[x] \in Int
  /\ \A x \in R : h[x] \in Int
  /\ R \subseteq S
  /\ \A x \in R : x # u => h[x] = f[x]

(* Another value for one element changes the sums that element is in.      *)
LEMMA SetSumsUpdate ==
  ASSUME NEW S, NEW R, IsFiniteSet(R), NEW f, NEW h, NEW u, SameBut(f, S, h, R, u),
         NEW a, SumsOver(a, f, S), NEW b, SumsOver(b, h, R)
  PROVE  \A T \in SUBSET R :
           /\ a[T] \in Int
           /\ b[T] = a[T] + (IF u \in T THEN h[u] - f[u] ELSE 0)
<1> DEFINE Good(T) == /\ a[T] \in Int
                      /\ b[T] = a[T] + (IF u \in T THEN h[u] - f[u] ELSE 0)
           B == {T \in SUBSET R : ~ Good(T)}
<1>0. /\ \A x \in S : f[x] \in Int
      /\ \A x \in R : h[x] \in Int
      /\ R \subseteq S
      /\ \A x \in R : x # u => h[x] = f[x]
  BY DEF SameBut
<1>1. SUFFICES ASSUME B # {} PROVE FALSE
  OBVIOUS
<1>2. PICK T \in B : \A x \in T : T \ {x} \notin B
  <2>1. B \in SUBSET SUBSET R
    OBVIOUS
  <2> HIDE DEF B
  <2> QED
    BY <1>1, <2>1, SmallestSet
<1>3. /\ a[T] = IF T = {} THEN 0 ELSE f[Pick(T)] + a[T \ {Pick(T)}]
      /\ b[T] = IF T = {} THEN 0 ELSE h[Pick(T)] + b[T \ {Pick(T)}]
  <2>1. T \in SUBSET S /\ T \in SUBSET R
    BY <1>0
  <2> HIDE DEF B
  <2> QED
    BY <2>1 DEF SumsOver
<1>4. CASE T = {}
  BY <1>2, <1>3, <1>4
<1>5. CASE T # {}
  <2> DEFINE x == Pick(T)
             t == T \ {x}
  <2>1. x \in T
    BY <1>5, PickIn
  <2>2. t \in SUBSET R /\ t \notin B
    BY <1>2, <2>1
  <2>3. Good(t)
    BY <2>2
  <2>4. a[T] = f[x] + a[t] /\ b[T] = h[x] + b[t]
    BY <1>3, <1>5
  <2>5. f[x] \in Int /\ h[x] \in Int /\ x \in R /\ x \notin t
    BY <1>0, <2>1
  <2>6. u \in T <=> u \in t \/ u = x
    BY <2>1
  <2>7. x # u => h[x] = f[x]
    BY <1>0, <2>5
  <2>8. u \in t => f[u] \in Int /\ h[u] \in Int
    BY <1>0, <2>2
  <2> HIDE DEF x, t
  <2>9. Good(T)
    <3>1. CASE u = x
      BY <2>3, <2>4, <2>5, <2>6, <2>7, <3>1
    <3>2. CASE u # x
      BY <2>3, <2>4, <2>5, <2>6, <2>7, <2>8, <3>2
    <3> QED
      BY <3>1, <3>2
  <2> QED
    BY <1>2, <2>9
<1> QED
  BY <1>4, <1>5

LEMMA SetSumsChange ==
  ASSUME NEW S, IsFiniteSet(S), NEW f, NEW h, NEW u \in S,
         f \in [S -> Int], h \in [S -> Int], \A x \in S : x # u => h[x] = f[x],
         NEW a, SumsOver(a, f, S), NEW b, SumsOver(b, h, S)
  PROVE  a[S] \in Int /\ b[S] = a[S] + (h[u] - f[u])
<1>1. \A T \in SUBSET S :
        /\ a[T] \in Int
        /\ b[T] = a[T] + (IF u \in T THEN h[u] - f[u] ELSE 0)
  <2>1. SameBut(f, S, h, S, u)
    BY DEF SameBut
  <2> QED
    BY <2>1, SetSumsUpdate
<1>2. S \in SUBSET S
  OBVIOUS
<1> QED
  BY <1>1, <1>2

(* The sums over the subsets of a smaller set are the same.                *)
LEMMA SetSumsNarrow ==
  ASSUME NEW S, NEW R \in SUBSET S, IsFiniteSet(R), NEW f, \A x \in S : f[x] \in Int,
         NEW a, SumsOver(a, f, S), NEW b, SumsOver(b, f, R)
  PROVE  a[R] \in Int /\ b[R] = a[R]
<1> DEFINE Good(T) == a[T] \in Int /\ b[T] = a[T]
           B == {T \in SUBSET R : ~ Good(T)}
<1>1. ASSUME B # {} PROVE FALSE
  <2>1. PICK T \in B : \A x \in T : T \ {x} \notin B
    <3>1. B \in SUBSET SUBSET R
      OBVIOUS
    <3> HIDE DEF B
    <3> QED
      BY <1>1, <3>1, SmallestSet
  <2> DEFINE x == Pick(T)
             t == T \ {x}
  <2>2. /\ a[T] = IF T = {} THEN 0 ELSE f[x] + a[t]
        /\ b[T] = IF T = {} THEN 0 ELSE f[x] + b[t]
    <3>1. T \in SUBSET S /\ T \in SUBSET R
      OBVIOUS
    <3> HIDE DEF B
    <3> QED
      BY <3>1 DEF SumsOver
  <2>3. CASE T = {}
    BY <2>1, <2>2, <2>3
  <2>4. CASE T # {}
    <3>1. x \in T
      BY <2>4, PickIn
    <3>2. t \in SUBSET R /\ t \notin B
      BY <2>1, <3>1
    <3>3. Good(t) /\ f[x] \in Int
      BY <3>1, <3>2
    <3> QED
      BY <2>1, <2>2, <2>4, <3>3
  <2> QED
    BY <2>3, <2>4
<1>2. R \in SUBSET R /\ R \notin B
  BY <1>1
<1> QED
  BY <1>2

(* One element more.                                                       *)
LEMMA SetSumsAdd ==
  ASSUME NEW S, IsFiniteSet(S), NEW f \in [S -> Int], NEW a, SumsOver(a, f, S),
         NEW T \in SUBSET S, NEW k \in S, k \notin T
  PROVE  a[T \cup {k}] = a[T] + f[k]
<1>0. \A U \in SUBSET S : a[U] \in Int
  <2>1. SameBut(f, S, f, S, k)
    BY DEF SameBut
  <2> QED
    BY <2>1, SetSumsUpdate
<1>1. \A U \in SUBSET S : U # {} =>
        /\ a[U] = f[Pick(U)] + a[U \ {Pick(U)}]
        /\ Pick(U) \in U /\ f[Pick(U)] \in Int
  BY PickIn DEF SumsOver
<1> DEFINE B == {U \in SUBSET S : \E j \in U : a[U] # a[U \ {j}] + f[j]}
<1>2. ASSUME B # {} PROVE FALSE
  <2>1. PICK U \in B : \A x \in U : U \ {x} \notin B
    <3>1. B \in SUBSET SUBSET S
      OBVIOUS
    <3> HIDE DEF B
    <3> QED
      BY <1>2, <3>1, SmallestSet
  <2>2. PICK j \in U : a[U] # a[U \ {j}] + f[j]
    OBVIOUS
  <2> DEFINE x == Pick(U)
  <2>3. x \in U /\ a[U] = f[x] + a[U \ {x}] /\ f[x] \in Int /\ f[j] \in Int
    BY <1>1, <2>2
  <2>4. /\ U \ {x} \in SUBSET S /\ U \ {j} \in SUBSET S /\ (U \ {x}) \ {j} \in SUBSET S
        /\ (U \ {x}) \ {j} = (U \ {j}) \ {x}
    OBVIOUS
  <2>5. a[U \ {x}] \in Int /\ a[U \ {j}] \in Int /\ a[(U \ {x}) \ {j}] \in Int
    BY <1>0, <2>4
  <2>6. x # j
    <3> HIDE DEF x, B
    <3>1. SUFFICES ASSUME x = j PROVE FALSE
      OBVIOUS
    <3>2. a[U] = f[j] + a[U \ {j}]
      BY <2>3, <3>1
    <3> QED
      BY <2>2, <2>3, <2>5, <3>2
  <2>7. a[U \ {x}] = a[(U \ {x}) \ {j}] + f[j]
    <3>1. U \ {x} \notin B /\ j \in U \ {x}
      BY <2>1, <2>2, <2>3, <2>6
    <3> QED
      BY <2>4, <3>1
  <2>8. a[U \ {j}] = a[(U \ {j}) \ {x}] + f[x]
    <3>1. U \ {j} \notin B /\ x \in U \ {j}
      BY <2>1, <2>2, <2>3, <2>6
    <3> QED
      BY <2>4, <3>1
  <2> HIDE DEF x, B
  <2>9. a[(U \ {x}) \ {j}] = a[(U \ {j}) \ {x}]
    BY <2>4
  <2> QED
    BY <2>2, <2>3, <2>5, <2>7, <2>8, <2>9
<1>3. T \cup {k} \in SUBSET S /\ (T \cup {k}) \ {k} = T
  OBVIOUS
<1>4. T \cup {k} \notin B /\ k \in T \cup {k}
  BY <1>2
<1> QED
  BY <1>3, <1>4

(* Elements that are 0 do not count.                                       *)
LEMMA SetSumsZero ==
  ASSUME NEW S, IsFiniteSet(S), NEW f \in [S -> Int], NEW a, SumsOver(a, f, S),
         NEW T \in SUBSET S, \A x \in S \ T : f[x] = 0
  PROVE  a[T] = a[S]
<1> DEFINE B == {U \in SUBSET S : T \subseteq U /\ a[U] # a[T]}
<1>1. ASSUME B # {} PROVE FALSE
  <2>1. PICK U \in B : \A x \in U : U \ {x} \notin B
    <3>1. B \in SUBSET SUBSET S
      OBVIOUS
    <3> HIDE DEF B
    <3> QED
      BY <1>1, <3>1, SmallestSet
  <2>2. PICK k \in U : k \notin T
    <3>1. U # T
      OBVIOUS
    <3> QED
      BY <3>1
  <2>3. a[U \ {k}] = a[T]
    BY <2>1, <2>2
  <2>4. (U \ {k}) \cup {k} = U /\ U \ {k} \in SUBSET S /\ k \in S /\ k \notin U \ {k} /\ f[k] = 0
    BY <2>2
  <2>5. a[U] = a[U \ {k}] + f[k]
    <3> HIDE DEF B
    <3>1. a[(U \ {k}) \cup {k}] = a[U \ {k}] + f[k]
      BY <2>4, SetSumsAdd
    <3> QED
      BY <2>4, <3>1
  <2>6. a[T] \in Int
    <3>1. SameBut(f, S, f, S, k)
      BY DEF SameBut
    <3> QED
      BY <3>1, SetSumsUpdate
  <2>7. a[U] = a[T]
    BY <2>3, <2>4, <2>5, <2>6
  <2> QED
    BY <2>7
<1> QED
  BY <1>1
(* The sum of c over N, as the counters of the containers are specified.   *)
SumOf(c, N) == MapThenSumSet(LAMBDA k : c[k], N)

LEMMA SumOfIs ==
  ASSUME NEW N, IsFiniteSet(N), NEW c
  PROVE  \E a : SumsOver(a, c, N) /\ SumOf(c, N) = a[N]
<1> DEFINE a == CHOOSE a : a = [s \in SUBSET N |->
                  IF s = {} THEN 0
                  ELSE c[CHOOSE x \in s : TRUE] + a[s \ {CHOOSE x \in s : TRUE}]]
<1>1. PICK g : SumsOver(g, c, N)
  BY SetSumsExist
<1>2. SumOf(c, N) = a[N]
  BY DEF SumOf, MapThenSumSet, MapThenFoldSet
<1>3. SumsOver(a, c, N)
  BY <1>1 DEF SumsOver, Pick
<1> HIDE DEF a
<1> QED
  BY <1>2, <1>3

LEMMA SumOfPart ==
  ASSUME NEW S, IsFiniteSet(S), NEW c \in [S -> Int], NEW N \in SUBSET S, \A k \in S \ N : c[k] = 0
  PROVE  SumOf(c, N) = SumOf(c, S)
<1>1. IsFiniteSet(N)
  BY FS_Subset
<1>2. PICK a : SumsOver(a, c, S) /\ SumOf(c, S) = a[S]
  BY SumOfIs
<1>3. PICK b : SumsOver(b, c, N) /\ SumOf(c, N) = b[N]
  BY <1>1, SumOfIs
<1>4. a[N] = a[S]
  BY <1>2, SetSumsZero
<1>5. a[N] \in Int /\ b[N] = a[N]
  BY <1>1, <1>2, <1>3, SetSumsNarrow
<1> QED
  BY <1>2, <1>3, <1>4, <1>5

LEMMA SumOfNothing ==
  ASSUME NEW S, IsFiniteSet(S), NEW c \in [S -> Int], \A k \in S : c[k] = 0
  PROVE  SumOf(c, S) = 0
<1>1. PICK a : SumsOver(a, c, S) /\ SumOf(c, S) = a[S]
  BY SumOfIs
<1>2. {} \in SUBSET S /\ \A k \in S \ {} : c[k] = 0
  OBVIOUS
<1>3. a[{}] = a[S]
  BY <1>1, <1>2, SetSumsZero
<1>4. a[{}] = 0
  BY <1>1 DEF SumsOver
<1> QED
  BY <1>1, <1>3, <1>4

LEMMA SumOfChange ==
  ASSUME NEW S, IsFiniteSet(S), NEW c \in [S -> Int], NEW k \in S, NEW e \in Int
  PROVE  /\ SumOf(c, S) \in Int
         /\ SumOf([c EXCEPT ![k] = e], S) = SumOf(c, S) + (e - c[k])
<1> DEFINE d == [c EXCEPT ![k] = e]
<1>1. /\ d \in [S -> Int] /\ d[k] = e
      /\ \A x \in S : x # k => d[x] = c[x]
  OBVIOUS
<1> HIDE DEF d
<1>2. PICK a : SumsOver(a, c, S) /\ SumOf(c, S) = a[S]
  BY SumOfIs
<1>3. PICK b : SumsOver(b, d, S) /\ SumOf(d, S) = b[S]
  BY SumOfIs
<1>4. a[S] \in Int /\ b[S] = a[S] + (d[k] - c[k])
  BY <1>1, <1>2, <1>3, SetSumsChange
<1> QED
  BY <1>1, <1>2, <1>3, <1>4 DEF d

LEMMA SumOfType ==
  ASSUME NEW S, IsFiniteSet(S), NEW c \in [S -> Int]
  PROVE  SumOf(c, S) \in Int
<1>1. CASE S = {}
  <2>1. \A k \in S : c[k] = 0
    BY <1>1
  <2>2. SumOf(c, S) = 0
    BY <2>1, SumOfNothing
  <2> QED
    BY <2>2
<1>2. CASE S # {}
  <2>1. PICK k \in S : TRUE
    BY <1>2
  <2> QED
    BY <2>1, SumOfChange
<1> QED
  BY <1>1, <1>2

(* Sums over the subsets of S of what c gives its elements.                *)
LEMMA SumOfParts ==
  ASSUME NEW S, IsFiniteSet(S), NEW c \in [S -> Int]
  PROVE  \E a : /\ SumsOver(a, c, S)
                /\ \A T \in SUBSET S : SumOf(c, T) = a[T] /\ a[T] \in Int
<1>1. PICK a : SumsOver(a, c, S)
  BY SumOfIs
<1>2. ASSUME NEW T \in SUBSET S PROVE SumOf(c, T) = a[T] /\ a[T] \in Int
  <2>1. IsFiniteSet(T)
    BY FS_Subset
  <2>2. PICK b : SumsOver(b, c, T) /\ SumOf(c, T) = b[T]
    BY <2>1, SumOfIs
  <2>3. \A x \in S : c[x] \in Int
    OBVIOUS
  <2>4. a[T] \in Int /\ b[T] = a[T]
    BY <1>1, <2>1, <2>2, <2>3, SetSumsNarrow
  <2> QED
    BY <2>2, <2>4
<1> QED
  BY <1>1, <1>2

LEMMA SumOfAdd ==
  ASSUME NEW S, IsFiniteSet(S), NEW c \in [S -> Int], NEW T \in SUBSET S, NEW k \in S, k \notin T
  PROVE  SumOf(c, T) \in Int /\ SumOf(c, T \cup {k}) = SumOf(c, T) + c[k]
<1>1. PICK a : /\ SumsOver(a, c, S)
               /\ \A U \in SUBSET S : SumOf(c, U) = a[U] /\ a[U] \in Int
  BY SumOfParts
<1>2. a[T \cup {k}] = a[T] + c[k]
  <2>1. SumsOver(a, c, S)
    BY <1>1
  <2> QED
    BY <2>1, SetSumsAdd
<1>3. T \cup {k} \in SUBSET S
  OBVIOUS
<1> QED
  BY <1>1, <1>2, <1>3

LEMMA SumOfEmpty ==
  ASSUME NEW S, IsFiniteSet(S), NEW c \in [S -> Int]
  PROVE  SumOf(c, {}) = 0
<1>1. PICK a : /\ SumsOver(a, c, S)
               /\ \A U \in SUBSET S : SumOf(c, U) = a[U] /\ a[U] \in Int
  BY SumOfParts
<1>2. a[{}] = 0
  BY <1>1 DEF SumsOver
<1> QED
  BY <1>1, <1>2

(* More elements that are not negative do not have a smaller sum.          *)
LEMMA SumOfMore ==
  ASSUME NEW S, IsFiniteSet(S), NEW c \in [S -> Nat], NEW T \in SUBSET S, NEW U \in SUBSET S, T \subseteq U
  PROVE  SumOf(c, T) <= SumOf(c, U)
<1> DEFINE B == {W \in SUBSET S : T \subseteq W /\ ~ (SumOf(c, T) <= SumOf(c, W))}
<1>1. SUFFICES ASSUME B # {} PROVE FALSE
  BY <1>1
<1>2. c \in [S -> Int]
  OBVIOUS
<1>3. PICK W \in B : \A x \in W : W \ {x} \notin B
  <2>1. B \in SUBSET SUBSET S
    OBVIOUS
  <2> HIDE DEF B
  <2> QED
    BY <1>1, <2>1, SmallestSet
<1>4. SumOf(c, T) \in Int
  BY <1>2, SumOfParts
<1>5. W # T
  BY <1>3, <1>4
<1>6. PICK x \in W : x \notin T
  BY <1>3, <1>5
<1> DEFINE R == W \ {x}
<1>7. R \in SUBSET S /\ x \in S /\ x \notin R /\ R \cup {x} = W /\ T \subseteq R
  BY <1>3, <1>6
<1>8. R \notin B
  BY <1>3, <1>6
<1>9. SumOf(c, T) <= SumOf(c, R)
  BY <1>7, <1>8
<1> HIDE DEF R
<1>10. SumOf(c, R) \in Int /\ SumOf(c, W) = SumOf(c, R) + c[x]
  BY <1>2, <1>7, SumOfAdd
<1>11. c[x] \in Nat
  BY <1>7
<1> QED
  BY <1>3, <1>4, <1>9, <1>10, <1>11

(* Smaller elements do not have a greater sum.                             *)
LEMMA SumOfSmaller ==
  ASSUME NEW S, IsFiniteSet(S), NEW c \in [S -> Int], NEW d \in [S -> Int],
         NEW T \in SUBSET S, \A x \in T : c[x] <= d[x]
  PROVE  SumOf(c, T) <= SumOf(d, T)
<1> DEFINE B == {W \in SUBSET S : W \subseteq T /\ ~ (SumOf(c, W) <= SumOf(d, W))}
<1>1. SUFFICES ASSUME B # {} PROVE FALSE
  BY <1>1
<1>2. PICK W \in B : \A x \in W : W \ {x} \notin B
  BY <1>1, SmallestSet
<1>3. W # {}
  <2>1. SumOf(c, {}) = 0 /\ SumOf(d, {}) = 0
    BY SumOfEmpty
  <2> QED
    BY <1>2, <2>1
<1>4. PICK x \in W : TRUE
  BY <1>3
<1> DEFINE R == W \ {x}
<1>5. R \in SUBSET S /\ x \in S /\ x \in T /\ x \notin R /\ R \cup {x} = W /\ R \subseteq T
  BY <1>2, <1>4
<1>6. R \notin B
  BY <1>2, <1>4
<1>7. SumOf(c, R) <= SumOf(d, R)
  BY <1>5, <1>6
<1> HIDE DEF R
<1>8. SumOf(c, R) \in Int /\ SumOf(c, W) = SumOf(c, R) + c[x]
  BY <1>5, SumOfAdd
<1>9. SumOf(d, R) \in Int /\ SumOf(d, W) = SumOf(d, R) + d[x]
  BY <1>5, SumOfAdd
<1>10. c[x] \in Int /\ d[x] \in Int /\ c[x] <= d[x]
  BY <1>5
<1> QED
  BY <1>2, <1>7, <1>8, <1>9, <1>10

(* The sum over a part when one element is changed.                        *)
LEMMA SetSumsPart ==
  ASSUME NEW S, IsFiniteSet(S), NEW f, NEW h, NEW u, SameBut(f, S, h, S, u),
         NEW a, SumsOver(a, f, S), NEW b, SumsOver(b, h, S), NEW T \in SUBSET S
  PROVE  b[T] = a[T] + (IF u \in T THEN h[u] - f[u] ELSE 0)
<1>1. \A U \in SUBSET S :
        /\ a[U] \in Int
        /\ b[U] = a[U] + (IF u \in U THEN h[u] - f[u] ELSE 0)
  BY SetSumsUpdate
<1> QED
  BY <1>1

SumChanges(c, k, e, T) ==
  /\ SumOf(c, T) \in Int
  /\ k \in T => SumOf([c EXCEPT ![k] = e], T) = SumOf(c, T) + (e - c[k])
  /\ k \notin T => SumOf([c EXCEPT ![k] = e], T) = SumOf(c, T)

LEMMA SumOfPartChange ==
  ASSUME NEW S, IsFiniteSet(S), NEW c \in [S -> Int], NEW k \in S, NEW e \in Int, NEW T \in SUBSET S
  PROVE  SumChanges(c, k, e, T)
<1> DEFINE d == [c EXCEPT ![k] = e]
<1>1. /\ d \in [S -> Int] /\ d[k] = e
      /\ \A x \in S : x # k => d[x] = c[x]
  OBVIOUS
<1> HIDE DEF d
<1>2. PICK a : /\ SumsOver(a, c, S)
               /\ \A U \in SUBSET S : SumOf(c, U) = a[U] /\ a[U] \in Int
  BY SumOfParts
<1>3. PICK b : /\ SumsOver(b, d, S)
               /\ \A U \in SUBSET S : SumOf(d, U) = b[U] /\ b[U] \in Int
  BY <1>1, SumOfParts
<1>4. SameBut(c, S, d, S, k)
  BY <1>1 DEF SameBut
<1>5. b[T] = a[T] + (IF k \in T THEN d[k] - c[k] ELSE 0)
  <2>1. SumsOver(a, c, S) /\ SumsOver(b, d, S)
    BY <1>2, <1>3
  <2> QED
    BY <1>4, <2>1, SetSumsPart
<1>6. SumOf(c, T) = a[T] /\ a[T] \in Int /\ SumOf(d, T) = b[T] /\ c[k] \in Int
  BY <1>2, <1>3
<1>7. SumOf(c, T) \in Int
  BY <1>6
<1>8. k \in T => SumOf(d, T) = SumOf(c, T) + (e - c[k])
  BY <1>1, <1>5, <1>6
<1>9. k \notin T => SumOf(d, T) = SumOf(c, T)
  BY <1>5, <1>6
<1> QED
  BY <1>7, <1>8, <1>9 DEF d, SumChanges
=============================================================================
