----------------------------- MODULE DnsProofs ------------------------------
(***************************************************************************)
(* What the DNS manager keeps for any table, any names, answers in any     *)
(* order, failing statements and crashes: its event loop ends with the     *)
(* last answer, and the rows it takes are given back.                      *)
(***************************************************************************)
EXTENDS DnsManager, ListTheorems, FunctionTheorems

(* The names with a row, each once, by their age; those of the batch are   *)
(* PROCESSING.                                                             *)
RowsInv ==
  /\ NoRepeat(age) /\ IdsOf(age) = {n \in Names : table[n] # NoRow}
  /\ NoRepeat(pending)
  /\ \A n \in IdsOf(pending) : table[n] = "processing"
  /\ pc = "init" => pending = <<>>

(* How many answers are to come, while the batch is looked up and while    *)
(* the loop runs; the exit that is asked for before there is a loop comes  *)
(* from a batch that needs none, and which is never given back.            *)
LookedUp(k) == {pending[i] : i \in 1 .. k}

LoopInv ==
  /\ asked \subseteq IdsOf(pending) \ Sync
  /\ pc \in {"init", "fetch", "update", "add"} => asked = {}
  /\ pc \in {"init", "update"} => ~exit
  /\ exit /\ pc \in {"fetch", "lookup", "add"} => pending # <<>> /\ IdsOf(pending) \subseteq Sync
  /\ pc = "lookup" => /\ at <= Len(pending) + 1
                      /\ asked = LookedUp(at - 1) \ Sync
                      /\ count = Cardinality(asked) + (Len(pending) + 1 - at)
  /\ pc = "dispatch" => count = Cardinality(asked) /\ (exit <=> asked = {})

IInv == TypeOK /\ RowsInv /\ LoopInv /\ ProcessingInHand
-----------------------------------------------------------------------------
(* Some positions of a list, in order.                                     *)
LEMMA InOrderIds ==
  ASSUME NEW S, NEW s \in Seq(S), NEW P \in SUBSET DOMAIN s,
         NEW k \in Nat, NEW t \in InOrder(P, k)
  PROVE  /\ Picked(s, t) \in Seq(S)
         /\ Len(Picked(s, t)) = k
         /\ IdsOf(Picked(s, t)) \subseteq {s[p] : p \in P}
         /\ (\A p, q \in P : s[p] = s[q] => p = q) => NoRepeat(Picked(s, t))
         /\ IsFiniteSet(P) /\ k = Cardinality(P) =>
              IdsOf(Picked(s, t)) = {s[p] : p \in P}
<1> DEFINE u == Picked(s, t)
<1>1. t \in [1 .. k -> P] /\ DOMAIN t = 1 .. k /\ \A i, j \in 1 .. k : i < j => t[i] < t[j]
  BY DEF InOrder
<1>2. P \subseteq Nat /\ \A p \in P : s[p] \in S
  BY LenProperties, ElementOfSeq
<1>3. u \in [1 .. k -> S]
  BY <1>1, <1>2 DEF Picked
<1>4. u \in Seq(S) /\ Len(u) = k /\ DOMAIN u = 1 .. k
  <2>1. u \in Seq(S)
    BY <1>3, SeqDef
  <2> QED
    BY <1>3, <2>1, LenProperties
<1>5. \A i, j \in 1 .. k : t[i] = t[j] => i = j
  <2>1. \A i \in 1 .. k : t[i] \in Nat
    BY <1>1, <1>2
  <2> QED
    BY <1>1, <2>1
<1>6. \A i \in 1 .. k : u[i] = s[t[i]] /\ t[i] \in P
  BY <1>1 DEF Picked
<1> HIDE DEF u
<1>7. IdsOf(u) \subseteq {s[p] : p \in P}
  BY <1>4, <1>6 DEF IdsOf
<1>8. (\A p, q \in P : s[p] = s[q] => p = q) => NoRepeat(u)
  BY <1>4, <1>5, <1>6 DEF NoRepeat
<1>9. ASSUME IsFiniteSet(P), k = Cardinality(P) PROVE IdsOf(u) = {s[p] : p \in P}
  <2>1. t \in Injection(1 .. k, P)
    BY <1>1, <1>5 DEF Injection, IsInjective
  <2>2. Cardinality(1 .. k) = k
    BY FS_Interval
  <2>3. t \in Surjection(1 .. k, P)
    BY <1>9, <2>1, <2>2, FS_Injection
  <2>4. \A p \in P : \E i \in 1 .. k : t[i] = p
    BY <2>3 DEF Surjection
  <2>5. \A p \in P : s[p] \in IdsOf(u)
    BY <1>4, <1>6, <2>4 DEF IdsOf
  <2> QED
    BY <1>7, <2>5
<1> QED
  BY <1>4, <1>7, <1>8, <1>9 DEF u

(* The front of a list.                                                    *)
LEMMA FirstIds ==
  ASSUME NEW S, NEW s \in Seq(S), NEW k \in 0 .. Len(s)
  PROVE  IdsOf(First(s, k)) \subseteq IdsOf(s) /\ (k = Len(s) => First(s, k) = s)
<1>1. Len(s) \in Nat /\ s \in [1 .. Len(s) -> S] /\ DOMAIN s = 1 .. Len(s)
  BY LenProperties
<1>2. First(s, k) = SubSeq(s, 1, k) /\ k \in Nat /\ k <= Len(s)
  <2> DEFINE n == Len(s)
  <2>1. n \in Nat /\ k \in 0 .. n
    BY <1>1
  <2>2. First(s, k) = SubSeq(s, 1, IF n < k THEN n ELSE k)
    BY DEF First
  <2> HIDE DEF n
  <2>3. k \in Nat /\ k <= n /\ ~(n < k)
    BY <2>1
  <2>4. First(s, k) = SubSeq(s, 1, k)
    BY <2>2, <2>3
  <2> QED
    BY <2>3, <2>4 DEF n
<1>3. /\ SubSeq(s, 1, k) \in Seq(S) /\ Len(SubSeq(s, 1, k)) = k
      /\ \A i \in 1 .. k : SubSeq(s, 1, k)[i] = s[i]
  <2>1. \A i \in 1 .. k : s[i] \in S
    BY <1>1, <1>2
  <2> QED
    BY <1>2, <2>1, SubSeqProperties
<1>4. DOMAIN SubSeq(s, 1, k) = 1 .. k
  BY <1>3, LenProperties
<1>5. IdsOf(SubSeq(s, 1, k)) \subseteq IdsOf(s)
  BY <1>1, <1>2, <1>3, <1>4 DEF IdsOf
<1>6. k = Len(s) => SubSeq(s, 1, k) = s
  BY <1>3, SeqEqual
<1> QED
  BY <1>2, <1>5, <1>6
LEMMA OldestIs ==
  ASSUME TypeOK, RowsInv, NEW s \in Oldest
  PROVE  /\ Picked(age, s) \in Seq(Names) /\ Len(Picked(age, s)) \in Nat
         /\ Len(Picked(age, s)) <= Batch /\ NoRepeat(Picked(age, s))
         /\ \A n \in IdsOf(Picked(age, s)) : n \in Names /\ table[n] = "uncheck"
<1> DEFINE u == Picked(age, s)
           c == Cardinality(Unchecked)
           k == IF c < Batch THEN c ELSE Batch
<1>1. age \in Seq(Names) /\ NoRepeat(age) /\ Batch \in Nat
  BY DnsAssumption DEF TypeOK, RowsInv
<1>2. Unchecked \in SUBSET DOMAIN age /\ c \in Nat
  <2>1. Unchecked \in SUBSET DOMAIN age
    BY DEF Unchecked
  <2>2. IsFiniteSet(DOMAIN age)
    BY <1>1, LenProperties, FS_Interval
  <2> QED
    BY <2>1, <2>2, FS_Subset, FS_CardinalityType
<1>3. s \in InOrder(Unchecked, k)
  BY DEF Oldest
<1> HIDE DEF c
<1>4. k \in Nat /\ k <= Batch
  BY <1>1, <1>2
<1> HIDE DEF k
<1>5. \A p, q \in Unchecked : age[p] = age[q] => p = q
  BY <1>1, <1>2 DEF NoRepeat
<1>6. u \in Seq(Names) /\ Len(u) = k /\ IdsOf(u) \subseteq {age[p] : p \in Unchecked} /\ NoRepeat(u)
  <2>1. Picked(age, s) \in Seq(Names) /\ Len(Picked(age, s)) = k
    BY <1>1, <1>2, <1>3, <1>4, InOrderIds
  <2>2. IdsOf(Picked(age, s)) \subseteq {age[p] : p \in Unchecked}
    BY <1>1, <1>2, <1>3, <1>4, InOrderIds
  <2>3. (\A p, q \in Unchecked : age[p] = age[q] => p = q) =>
          NoRepeat(Picked(age, s))
    BY <1>1, <1>2, <1>3, <1>4, InOrderIds
  <2> QED
    BY <1>5, <2>1, <2>2, <2>3
<1>7. \A n \in {age[p] : p \in Unchecked} : n \in Names /\ table[n] = "uncheck"
  BY <1>1, LenProperties, ElementOfSeq DEF Unchecked
<1> HIDE DEF u
<1> QED
  BY <1>4, <1>6, <1>7 DEF u

LEMMA InitInv == Init => IInv
<1> SUFFICES ASSUME Init PROVE IInv
  OBVIOUS
<1>1. PICK rows \in [Old -> Status \cup {NoRow}] :
        table = [n \in Names |-> IF n \in Old THEN rows[n] ELSE NoRow]
  BY DEF Init
<1>2. table \in [Names -> Status \cup {NoRow}]
  BY <1>1
<1>3. age \in Seq(Names)
  <2>1. PICK n \in 0 .. Cardinality(Old) : age \in [1 .. n -> Old]
    BY DEF Init
  <2>2. n \in Nat /\ age \in [1 .. n -> Names]
    BY <2>1, DnsAssumption
  <2> QED
    BY <2>2, SeqDef
<1>4. IdsOf(age) = {n \in Names : table[n] # NoRow} /\ NoRepeat(age)
  BY DEF Init
<1>5. pending = <<>> /\ new = <<>> /\ asked = {} /\ exit = FALSE /\ pc = "init"
  BY DEF Init
<1>6. TypeOK
  <2>1. /\ <<>> \in Seq(Names) /\ Len(<<>>) = 0 /\ 0 <= Batch /\ 1 \in 1 .. (Batch + 1)
        /\ 0 \in 0 .. MaxNew /\ 0 \in 0 .. MaxCrash /\ 0 \in 0 .. Batch
    BY DnsAssumption, EmptySeq
  <2> QED
    BY <1>2, <1>3, <2>1 DEF Init, TypeOK
<1>7. RowsInv
  BY <1>4, <1>5, EmptyIds DEF RowsInv
<1>8. LoopInv
  BY <1>5 DEF LoopInv
<1>9. ProcessingInHand
  BY DEF Init, ProcessingInHand
<1> QED
  BY <1>6, <1>7, <1>8, <1>9 DEF IInv
-----------------------------------------------------------------------------
(* Steps that leave the table and the batch alone.                         *)
LEMMA RowsKept ==
  ASSUME RowsInv, ProcessingInHand, UNCHANGED <<table, age, pending>>,
         pc' = "init" => pc = "init", dropped \subseteq dropped'
  PROVE  RowsInv' /\ ProcessingInHand'
<1>1. RowsInv'
  BY DEF RowsInv
<1>2. ProcessingInHand'
  BY DEF ProcessingInHand
<1> QED
  BY <1>1, <1>2

LEMMA StepBegin ==
  ASSUME IInv, Start \/ \E n \in Names : AddWebName(n)
  PROVE  IInv'
<1>1. /\ UNCHANGED <<table, age, pending, status, at, asked, count, exit, crashes, dropped>>
      /\ pc = "init" /\ pc' \in {"init", "fetch"}
  BY DEF Start, AddWebName
<1>2. TypeOK'
  <2>1. new' \in Seq(Names) /\ added' \in 0 .. MaxNew
    <3>1. CASE Start
      BY <3>1 DEF Start, IInv, TypeOK
    <3>2. ASSUME NEW n \in Names, AddWebName(n) PROVE new' \in Seq(Names) /\ added' \in 0 .. MaxNew
      <4>1. new' \in Seq(Names)
        BY <3>2, AppendIds DEF AddWebName, IInv, TypeOK
      <4>2. added' \in 0 .. MaxNew
        BY <3>2, DnsAssumption DEF AddWebName, IInv, TypeOK
      <4> QED
        BY <4>1, <4>2
    <3> QED
      BY <3>1, <3>2
  <2> QED
    BY <1>1, <2>1 DEF IInv, TypeOK
<1>3. RowsInv' /\ ProcessingInHand'
  <2>1. RowsInv'
    BY <1>1 DEF IInv, RowsInv
  <2>2. ProcessingInHand'
    BY <1>1 DEF IInv, ProcessingInHand
  <2> QED
    BY <2>1, <2>2
<1>4. LoopInv'
  BY <1>1 DEF IInv, LoopInv
<1> QED
  BY <1>2, <1>3, <1>4 DEF IInv

LEMMA StepFetch ==
  ASSUME IInv, Fetch
  PROVE  IInv'
<1>1. /\ pc = "fetch" /\ pc' = "lookup" /\ count' = Len(pending') /\ at' = 1
      /\ UNCHANGED <<age, new, added, asked, exit, crashes, dropped>>
  BY DEF Fetch
<1>2. asked = {}
  BY <1>1 DEF IInv, LoopInv
<1>3. /\ pending' \in Seq(Names) /\ Len(pending') \in Nat /\ Len(pending') <= Batch /\ NoRepeat(pending')
      /\ table' \in [Names -> Status \cup {NoRow}] /\ status' \in [Names -> {"uncheck", "ready"}]
      /\ \A n \in IdsOf(pending') : n \in Names /\ table'[n] = "processing"
      /\ \A n \in Names : table'[n] # table[n] => table[n] = "uncheck" /\ n \in IdsOf(pending')
      /\ \A n \in Names : table'[n] = "processing" => n \in IdsOf(pending') \/ table[n] = "processing"
      /\ (pending # <<>> \/ exit) => pending' = pending
      /\ pending = <<>> => ~exit
  <2>1. pending = <<>> => ~exit
    BY <1>1 DEF IInv, LoopInv
  <2>2. CASE pending = <<>>
    <3>1. PICK s \in Oldest : pending' = Picked(age, s)
      BY <1>1, <2>2 DEF Fetch
    <3>2. /\ pending' \in Seq(Names) /\ Len(pending') \in Nat /\ Len(pending') <= Batch
          /\ NoRepeat(pending')
          /\ \A n \in IdsOf(pending') : n \in Names /\ table[n] = "uncheck"
      BY <3>1, OldestIs DEF IInv
    <3>3. /\ table' = [n \in Names |-> IF n \in IdsOf(pending') THEN "processing" ELSE table[n]]
          /\ status' = [n \in Names |-> IF n \in IdsOf(pending') THEN "uncheck" ELSE status[n]]
      BY <1>1, <2>2 DEF Fetch
    <3> DEFINE X == IdsOf(pending')
    <3> HIDE DEF X
    <3>4. table \in [Names -> Status \cup {NoRow}] /\ status \in [Names -> {"uncheck", "ready"}]
      BY DEF IInv, TypeOK
    <3>5. /\ table' = [n \in Names |-> IF n \in X THEN "processing" ELSE table[n]]
          /\ status' = [n \in Names |-> IF n \in X THEN "uncheck" ELSE status[n]]
      BY <3>3 DEF X
    <3>6. table' \in [Names -> Status \cup {NoRow}] /\ status' \in [Names -> {"uncheck", "ready"}]
      BY <3>4, <3>5 DEF Status
    <3>7. /\ \A n \in X : n \in Names /\ table'[n] = "processing"
          /\ \A n \in Names : table'[n] # table[n] => table[n] = "uncheck" /\ n \in X
          /\ \A n \in Names : table'[n] = "processing" => n \in X \/ table[n] = "processing"
      BY <3>2, <3>4, <3>5 DEF X
    <3> QED
      BY <2>1, <2>2, <3>2, <3>6, <3>7 DEF X
  <2>3. CASE pending # <<>>
    <3>1. UNCHANGED <<pending, table, status>>
      BY <1>1, <2>3 DEF Fetch
    <3>2. /\ pending \in Seq(Names) /\ Len(pending) <= Batch /\ NoRepeat(pending)
          /\ table \in [Names -> Status \cup {NoRow}] /\ status \in [Names -> {"uncheck", "ready"}]
          /\ \A n \in IdsOf(pending) : table[n] = "processing"
      BY DEF IInv, TypeOK, RowsInv
    <3>3. Len(pending) \in Nat /\ \A n \in IdsOf(pending) : n \in Names
      BY <3>2, LenProperties, ElementOfSeq DEF IdsOf
    <3> QED
      BY <2>1, <2>3, <3>1, <3>2, <3>3
  <2> QED
    BY <2>2, <2>3
<1> DEFINE m == Len(pending')
<1>4. TypeOK'
  <2>1. m \in 0 .. Batch /\ 1 \in 1 .. (Batch + 1) /\ m <= Batch
    BY <1>3, DnsAssumption
  <2> QED
    BY <1>1, <1>3, <2>1 DEF IInv, TypeOK
<1>5. RowsInv'
  <2>1. \A n \in Names : table[n] # NoRow <=> table'[n] # NoRow
    BY <1>3 DEF NoRow
  <2>2. IdsOf(age') = {n \in Names : table'[n] # NoRow}
    BY <1>1, <2>1 DEF IInv, RowsInv
  <2> QED
    BY <1>1, <1>3, <2>2 DEF IInv, RowsInv
<1>6. LoopInv'
  <2>1. LookedUp(at - 1)' = {}
    <3>1. at' - 1 = 0 /\ 1 .. 0 = {}
      BY <1>1
    <3> QED
      BY <3>1 DEF LookedUp
  <2>2. Cardinality(asked') = 0
    BY <1>1, <1>2, FS_EmptySet
  <2>3. m = 0 + (m + 1 - 1) /\ 1 <= m + 1
    BY <1>3
  <2>4. exit => pending' # <<>> /\ IdsOf(pending') \subseteq Sync
    BY <1>1, <1>3 DEF IInv, LoopInv
  <2> HIDE DEF m
  <2>5. count' = m /\ m = Len(pending')
    BY <1>1 DEF m
  <2> QED
    BY <1>1, <1>2, <2>1, <2>2, <2>3, <2>4, <2>5 DEF LoopInv
<1>7. ProcessingInHand'
  <2>1. \A n \in Names : table[n] = "processing" => n \in IdsOf(pending) \cup dropped
    BY DEF IInv, ProcessingInHand
  <2>2. \A n \in Names : table[n] = "processing" => n \in IdsOf(pending') \cup dropped
    <3>1. CASE pending = <<>>
      BY <2>1, <3>1, EmptyIds
    <3>2. CASE pending # <<>>
      BY <1>3, <2>1, <3>2
    <3> QED
      BY <3>1, <3>2
  <2>3. \A n \in Names : table'[n] = "processing" => n \in IdsOf(pending') \cup dropped'
    BY <1>1, <1>3, <2>2
  <2> QED
    BY <2>3 DEF ProcessingInHand
<1> QED
  BY <1>4, <1>5, <1>6, <1>7 DEF IInv
(* The lookups of the batch.                                               *)
LEMMA BatchIs ==
  ASSUME IInv
  PROVE  /\ Len(pending) \in Nat /\ Len(pending) <= Batch /\ DOMAIN pending = 1 .. Len(pending)
         /\ \A i \in 1 .. Len(pending) : pending[i] \in Names /\ pending[i] \in IdsOf(pending)
         /\ \A i, j \in 1 .. Len(pending) : pending[i] = pending[j] => i = j
         /\ IdsOf(pending) = LookedUp(Len(pending))
         /\ IsFiniteSet(asked) /\ Cardinality(asked) \in Nat /\ (Cardinality(asked) = 0 <=> asked = {})
<1>1. pending \in Seq(Names) /\ NoRepeat(pending) /\ Len(pending) <= Batch /\ asked \subseteq IdsOf(pending)
  BY DEF IInv, TypeOK, RowsInv, LoopInv
<1>2. Len(pending) \in Nat /\ DOMAIN pending = 1 .. Len(pending)
  BY <1>1, LenProperties
<1>3. \A i \in 1 .. Len(pending) : pending[i] \in Names /\ pending[i] \in IdsOf(pending)
  BY <1>1, <1>2, ElementOfSeq DEF IdsOf
<1>4. IdsOf(pending) = LookedUp(Len(pending))
  BY <1>2 DEF IdsOf, LookedUp
<1>5. IsFiniteSet(asked)
  <2>1. IsFiniteSet(IdsOf(pending))
    BY <1>1, CountIds
  <2> QED
    BY <1>1, <2>1, FS_Subset
<1>6. Cardinality(asked) \in Nat /\ (Cardinality(asked) = 0 <=> asked = {})
  BY <1>5, FS_CardinalityType, FS_EmptySet
<1> QED
  BY <1>1, <1>2, <1>3, <1>4, <1>5, <1>6 DEF NoRepeat

LEMMA StepLookup ==
  ASSUME IInv, Lookup
  PROVE  IInv'
<1> DEFINE n == pending[at]
           m == Len(pending)
           c == Cardinality(asked)
<1>1. /\ pc = "lookup" /\ at <= m /\ at' = at + 1
      /\ UNCHANGED <<table, age, new, added, pc, pending, crashes, dropped>>
  BY DEF Lookup
<1>2. /\ m \in Nat /\ m <= Batch /\ c \in Nat /\ at \in Nat \ {0} /\ Batch \in Nat
      /\ IdsOf(pending) = LookedUp(m) /\ (c = 0 <=> asked = {}) /\ IsFiniteSet(asked)
      /\ \A i \in 1 .. m : pending[i] \in Names /\ pending[i] \in IdsOf(pending)
      /\ \A i, j \in 1 .. m : pending[i] = pending[j] => i = j
  BY BatchIs, DnsAssumption DEF IInv, TypeOK
<1>3. /\ asked = LookedUp(at - 1) \ Sync /\ count = c + (m + 1 - at)
      /\ asked \subseteq IdsOf(pending) \ Sync
      /\ exit => pending # <<>> /\ IdsOf(pending) \subseteq Sync
  BY <1>1 DEF IInv, LoopInv
<1> HIDE DEF m, c
<1>4. /\ at \in 1 .. m /\ n \in Names /\ n \in IdsOf(pending)
      /\ \A i \in 1 .. (at - 1) : i \in 1 .. m /\ i # at
  BY <1>1, <1>2
<1>5. LookedUp(at) = LookedUp(at - 1) \cup {n} /\ n \notin LookedUp(at - 1)
  <2>1. 1 .. at = 1 .. (at - 1) \cup {at}
    BY <1>2
  <2>2. LookedUp(at) = LookedUp(at - 1) \cup {n}
    BY <2>1 DEF LookedUp
  <2>3. n \notin LookedUp(at - 1)
    BY <1>2, <1>4 DEF LookedUp
  <2> QED
    BY <2>2, <2>3
<1> DEFINE k == Cardinality(asked')
<1>6. /\ status' \in [Names -> {"uncheck", "ready"}] /\ count' \in 0 .. Batch /\ exit' \in BOOLEAN
      /\ asked' = (LookedUp(at) \ Sync) /\ count' = k + (m - at)
      /\ exit' => pending # <<>> /\ IdsOf(pending) \subseteq Sync
  <2>1. CASE n \in Sync /\ (\E ok \in BOOLEAN : Answered(n, ok)) /\ UNCHANGED asked
    <3>1. PICK ok \in BOOLEAN : Answered(n, ok)
      BY <2>1
    <3>2. status' \in [Names -> {"uncheck", "ready"}]
      BY <1>4, <3>1 DEF Answered, IInv, TypeOK
    <3>3. count' = count - 1 /\ exit' = (exit \/ count' = 0)
      BY <3>1 DEF Answered
    <3>4. k = c
      BY <2>1 DEF c
    <3>5. count' = c + (m - at) /\ count' \in 0 .. Batch
      <4>1. count' = c + (m - at)
        BY <1>2, <1>3, <3>3
      <4>2. count \in 0 .. Batch /\ c + (m - at) >= 0
        BY <1>1, <1>2 DEF IInv, TypeOK
      <4> QED
        BY <1>2, <3>3, <4>1, <4>2
    <3>6. asked' = LookedUp(at) \ Sync
      BY <1>3, <1>5, <2>1
    <3>7. exit' \in BOOLEAN
      BY <3>3 DEF IInv, TypeOK
    <3>8. ASSUME count' = 0 PROVE pending # <<>> /\ IdsOf(pending) \subseteq Sync
      <4>1. m = at /\ c = 0
        BY <1>1, <1>2, <3>5, <3>8
      <4>2. LookedUp(at) \subseteq Sync
        BY <1>2, <2>1, <3>6, <4>1
      <4>3. IdsOf(pending) \subseteq Sync
        BY <1>2, <4>1, <4>2
      <4>4. pending # <<>>
        BY <1>4, EmptyIds
      <4> QED
        BY <4>3, <4>4
    <3>9. exit' => pending # <<>> /\ IdsOf(pending) \subseteq Sync
      BY <1>3, <3>3, <3>8
    <3> QED
      BY <3>2, <3>4, <3>5, <3>6, <3>7, <3>9
  <2>2. CASE n \notin Sync /\ asked' = asked \cup {n} /\ UNCHANGED <<status, count, exit>>
    <3>1. n \notin asked
      BY <1>3, <1>5
    <3>2. k = c + 1
      BY <1>2, <2>2, <3>1, FS_AddElement DEF c
    <3>3. count' = k + (m - at)
      BY <1>2, <1>3, <2>2, <3>2
    <3>4. asked' = LookedUp(at) \ Sync
      BY <1>3, <1>5, <2>2
    <3>5. ~exit
      BY <1>3, <1>4, <2>2
    <3> QED
      BY <2>2, <3>3, <3>4, <3>5 DEF IInv, TypeOK
  <2> QED
    BY <2>1, <2>2 DEF Lookup
<1> HIDE DEF k
<1>7. asked' \subseteq IdsOf(pending) \ Sync
  <2>1. LookedUp(at) \subseteq IdsOf(pending)
    BY <1>2, <1>4 DEF LookedUp
  <2> QED
    BY <1>6, <2>1
<1>8. \A x \in IdsOf(pending) : x \in Names
  BY <1>2 DEF LookedUp
<1>9. at + 1 \in 1 .. (Batch + 1)
  BY <1>1, <1>2
<1>10. TypeOK'
  BY <1>1, <1>6, <1>7, <1>8, <1>9 DEF IInv, TypeOK
<1>11. LoopInv'
  <2>1. LookedUp(at - 1)' = LookedUp(at)
    <3>1. at' - 1 = at /\ pending' = pending
      BY <1>1, <1>2
    <3> QED
      BY <3>1 DEF LookedUp
  <2>2. /\ at' <= Len(pending') + 1
        /\ count' = Cardinality(asked') + (Len(pending') + 1 - at')
    <3>1. at + 1 <= m + 1 /\ m + 1 - (at + 1) = m - at
      BY <1>1, <1>2
    <3> QED
      BY <1>1, <1>6, <3>1 DEF m, k
  <2> QED
    BY <1>1, <1>6, <1>7, <2>1, <2>2 DEF LoopInv
<1>12. RowsInv' /\ ProcessingInHand'
  BY <1>1, RowsKept DEF IInv
<1> QED
  BY <1>10, <1>11, <1>12 DEF IInv

LEMMA StepAsked ==
  ASSUME IInv, Asked
  PROVE  IInv'
<1> DEFINE m == Len(pending)
           c == Cardinality(asked)
<1>1. /\ pc = "lookup" /\ at > m /\ pc' = IF count = 0 THEN "add" ELSE "dispatch"
      /\ UNCHANGED <<table, age, new, added, pending, status, at, asked, count, exit,
                     crashes, dropped>>
  BY DEF Asked
<1>2. m \in Nat /\ c \in Nat /\ (c = 0 <=> asked = {}) /\ at \in Nat
  BY BatchIs DEF IInv, TypeOK
<1>3. /\ at <= m + 1 /\ count = c + (m + 1 - at)
      /\ asked \subseteq IdsOf(pending) \ Sync
      /\ exit => pending # <<>> /\ IdsOf(pending) \subseteq Sync
  BY <1>1 DEF IInv, LoopInv
<1> HIDE DEF m, c
<1>4. count = c
  BY <1>1, <1>2, <1>3
<1>5. exit => asked = {}
  BY <1>3
<1>6. TypeOK'
  BY <1>1 DEF IInv, TypeOK
<1>7. LoopInv'
  <2>1. CASE count = 0
    BY <1>1, <1>2, <1>3, <1>4, <2>1 DEF LoopInv
  <2>2. CASE count # 0
    <3>1. asked # {} /\ ~exit /\ pc' = "dispatch"
      BY <1>1, <1>2, <1>4, <1>5, <2>2
    <3> QED
      BY <1>1, <1>3, <1>4, <3>1 DEF LoopInv, c
  <2> QED
    BY <2>1, <2>2
<1>8. RowsInv' /\ ProcessingInHand'
  BY <1>1, RowsKept DEF IInv
<1> QED
  BY <1>6, <1>7, <1>8 DEF IInv

LEMMA StepAnswer ==
  ASSUME IInv, NEW n \in Names, NEW ok \in BOOLEAN, Answer(n, ok)
  PROVE  IInv'
<1> DEFINE c == Cardinality(asked)
           k == Cardinality(asked')
<1>1. /\ pc = "dispatch" /\ n \in asked /\ asked' = asked \ {n}
      /\ count' = count - 1 /\ exit' = (exit \/ count' = 0)
      /\ UNCHANGED <<table, age, new, added, pc, pending, at, crashes, dropped>>
  BY DEF Answer, Answered
<1>2. status' \in [Names -> {"uncheck", "ready"}]
  BY DEF Answer, Answered, IInv, TypeOK
<1>3. /\ count = c /\ (exit <=> asked = {}) /\ asked \subseteq IdsOf(pending) \ Sync
      /\ c \in Nat /\ (c = 0 <=> asked = {}) /\ IsFiniteSet(asked)
  BY <1>1, BatchIs DEF IInv, LoopInv
<1>4. k = c - 1 /\ (k = 0 <=> asked' = {})
  BY <1>1, <1>3, FS_RemoveElement, FS_EmptySet
<1> HIDE DEF c, k
<1>5. count' = k /\ count' \in 0 .. Batch /\ (exit' <=> asked' = {})
  <2>1. c # 0 /\ count \in 0 .. Batch
    BY <1>1, <1>3 DEF IInv, TypeOK
  <2>2. count' = k /\ count' \in 0 .. Batch
    BY <1>1, <1>3, <1>4, <2>1, DnsAssumption
  <2>3. ~exit
    BY <1>1, <1>3
  <2> QED
    BY <1>1, <1>4, <2>2, <2>3
<1>6. TypeOK'
  <2>1. exit' \in BOOLEAN /\ asked' \subseteq Names
    BY <1>1 DEF IInv, TypeOK
  <2> QED
    BY <1>1, <1>2, <1>5, <2>1 DEF IInv, TypeOK
<1>7. LoopInv'
  <2>1. asked' \subseteq IdsOf(pending') \ Sync
    BY <1>1, <1>3
  <2> QED
    BY <1>1, <1>5, <2>1 DEF LoopInv, k
<1>8. RowsInv' /\ ProcessingInHand'
  BY <1>1, RowsKept DEF IInv
<1> QED
  BY <1>6, <1>7, <1>8 DEF IInv

LEMMA StepDispatched ==
  ASSUME IInv, Dispatched
  PROVE  IInv'
<1>1. /\ pc = "dispatch" /\ exit /\ exit' = FALSE /\ pc' = "update"
      /\ UNCHANGED <<table, age, new, added, pending, status, at, asked, count, crashes, dropped>>
  BY DEF Dispatched
<1>2. asked = {}
  BY <1>1 DEF IInv, LoopInv
<1>3. TypeOK'
  BY <1>1 DEF IInv, TypeOK
<1>4. LoopInv'
  BY <1>1, <1>2 DEF LoopInv
<1>5. RowsInv' /\ ProcessingInHand'
  BY <1>1, RowsKept DEF IInv
<1> QED
  BY <1>3, <1>4, <1>5 DEF IInv
LEMMA StepUpdate ==
  ASSUME IInv, Update
  PROVE  IInv'
<1>1. /\ pc = "update" /\ pending' = <<>> /\ pc' = "fetch"
      /\ UNCHANGED <<age, new, added, status, at, asked, count, exit, crashes>>
  BY DEF Update
<1>2. PICK k \in 0 .. Len(pending) :
        /\ table' = [n \in Names |-> IF n \in IdsOf(First(pending, k)) THEN Written(n) ELSE table[n]]
        /\ dropped' = dropped \cup (IdsOf(pending) \ IdsOf(First(pending, k)))
  BY DEF Update
<1> DEFINE F == IdsOf(First(pending, k))
           P == IdsOf(pending)
<1>3. /\ pending \in Seq(Names) /\ status \in [Names -> {"uncheck", "ready"}]
      /\ table \in [Names -> Status \cup {NoRow}] /\ dropped \subseteq Names
      /\ \A n \in P : table[n] = "processing"
      /\ \A n \in Names : table[n] = "processing" => n \in P \cup dropped
      /\ asked = {} /\ ~exit
  BY <1>1 DEF IInv, TypeOK, RowsInv, LoopInv, ProcessingInHand
<1>4. F \subseteq P /\ P \subseteq Names
  <2>1. P \subseteq Names
    BY <1>3, LenProperties, ElementOfSeq DEF IdsOf
  <2> QED
    BY <1>3, <2>1, FirstIds
<1> HIDE DEF F, P
<1>5. /\ table' = [n \in Names |-> IF n \in F THEN status[n] ELSE table[n]]
      /\ dropped' = dropped \cup (P \ F)
  BY <1>2 DEF F, P, Written
<1>6. /\ table' \in [Names -> Status \cup {NoRow}] /\ dropped' \subseteq Names
      /\ \A n \in Names : table[n] = NoRow <=> table'[n] = NoRow
      /\ \A n \in Names : table'[n] = "processing" => n \in dropped'
  BY <1>3, <1>4, <1>5 DEF Status, NoRow
<1>7. TypeOK'
  <2>1. <<>> \in Seq(Names) /\ Len(<<>>) <= Batch
    BY EmptySeq, DnsAssumption
  <2> QED
    BY <1>1, <1>6, <2>1 DEF IInv, TypeOK
<1>8. RowsInv'
  <2>1. {n \in Names : table'[n] # NoRow} = {n \in Names : table[n] # NoRow}
    BY <1>6
  <2> QED
    BY <1>1, <2>1, EmptyIds DEF IInv, RowsInv
<1>9. LoopInv'
  BY <1>1, <1>3 DEF LoopInv
<1>10. ProcessingInHand'
  BY <1>6 DEF ProcessingInHand
<1> QED
  BY <1>7, <1>8, <1>9, <1>10 DEF IInv

(* The names that an addRecords adds.                                      *)
LEMMA AddIs ==
  ASSUME IInv, Add
  PROVE  \E U \in Seq(Names) :
           /\ age' = age \o U /\ NoRepeat(U)
           /\ table' = [n \in Names |-> IF n \in IdsOf(U) THEN "uncheck" ELSE table[n]]
           /\ \A n \in IdsOf(U) : n \in Names /\ table[n] = NoRow
<1>1. PICK bad \in SUBSET DOMAIN new :
        LET tried == {p \in DOMAIN new : p - 1 \notin bad}
            ok    == tried \ bad
        IN
          /\ \A p \in tried : Refused(p, ok) => p \in bad
          /\ \E s \in InOrder(ok, Cardinality(ok)) : age' = age \o Picked(new, s)
          /\ table' = [n \in Names |-> IF n \in {new[p] : p \in ok} THEN "uncheck" ELSE table[n]]
  BY DEF Add
<1> DEFINE tried == {p \in DOMAIN new : p - 1 \notin bad}
           ok == tried \ bad
           c == Cardinality(ok)
<1>2. /\ ok \in SUBSET DOMAIN new /\ \A p \in ok : ~Refused(p, ok)
      /\ table' = [n \in Names |-> IF n \in {new[p] : p \in ok} THEN "uncheck" ELSE table[n]]
  BY <1>1
<1>3. PICK s \in InOrder(ok, Cardinality(ok)) : age' = age \o Picked(new, s)
  BY <1>1
<1> HIDE DEF tried, ok
<1>4. new \in Seq(Names) /\ DOMAIN new = 1 .. Len(new) /\ Len(new) \in Nat
  BY LenProperties DEF IInv, TypeOK
<1>5. IsFiniteSet(ok) /\ c \in Nat
  <2>1. IsFiniteSet(DOMAIN new)
    BY <1>4, FS_Interval
  <2> QED
    BY <1>2, <2>1, FS_Subset, FS_CardinalityType
<1>6. \A p \in ok : table[new[p]] = NoRow /\ new[p] \in Names
  BY <1>2, <1>4, ElementOfSeq DEF Refused
<1>7. \A p, q \in ok : new[p] = new[q] => p = q
  <2>1. \A p, q \in ok : q < p => new[q] # new[p]
    BY <1>2 DEF Refused
  <2>2. ok \subseteq Nat
    BY <1>2, <1>4
  <2> QED
    BY <2>1, <2>2
<1> DEFINE U == Picked(new, s)
<1>8. U \in Seq(Names) /\ NoRepeat(U) /\ IdsOf(U) = {new[p] : p \in ok}
  <2>1. U \in Seq(Names)
    BY <1>2, <1>3, <1>4, <1>5, InOrderIds
  <2>2. NoRepeat(U)
    BY <1>2, <1>3, <1>4, <1>5, <1>7, InOrderIds
  <2>3. IdsOf(U) = {new[p] : p \in ok}
    BY <1>2, <1>3, <1>4, <1>5, InOrderIds
  <2> QED
    BY <2>1, <2>2, <2>3
<1> HIDE DEF U
<1>9. table' = [n \in Names |-> IF n \in IdsOf(U) THEN "uncheck" ELSE table[n]]
  BY <1>2, <1>8
<1>10. \A n \in IdsOf(U) : n \in Names /\ table[n] = NoRow
  BY <1>6, <1>8
<1>11. age' = age \o U
  BY <1>3 DEF U
<1> QED
  BY <1>8, <1>9, <1>10, <1>11

LEMMA StepAdd ==
  ASSUME IInv, Add
  PROVE  IInv'
<1>1. /\ pc = "add" /\ new' = <<>> /\ pc' = "fetch"
      /\ dropped' = dropped \cup {n \in IdsOf(new) : table'[n] = NoRow}
      /\ UNCHANGED <<added, pending, status, at, asked, count, exit, crashes>>
  BY DEF Add
<1>2. PICK U \in Seq(Names) :
        /\ age' = age \o U /\ NoRepeat(U)
        /\ table' = [n \in Names |-> IF n \in IdsOf(U) THEN "uncheck" ELSE table[n]]
        /\ \A n \in IdsOf(U) : n \in Names /\ table[n] = NoRow
  BY AddIs
<1>3. /\ age \in Seq(Names) /\ NoRepeat(age) /\ IdsOf(age) = {n \in Names : table[n] # NoRow}
      /\ table \in [Names -> Status \cup {NoRow}] /\ new \in Seq(Names) /\ dropped \subseteq Names
      /\ \A n \in IdsOf(pending) : table[n] = "processing"
      /\ \A n \in Names : table[n] = "processing" => n \in IdsOf(pending) \cup dropped
  BY DEF IInv, TypeOK, RowsInv, ProcessingInHand
<1>4. /\ age' \in Seq(Names) /\ IdsOf(age') = IdsOf(age) \cup IdsOf(U)
      /\ NoRepeat(age') <=> NoRepeat(age) /\ NoRepeat(U) /\ IdsOf(age) \cap IdsOf(U) = {}
  BY <1>2, <1>3, ConcatIds
<1> DEFINE A == IdsOf(U)
           R == IdsOf(age)
           P == IdsOf(pending)
<1>5. P \subseteq Names
  BY LenProperties, ElementOfSeq DEF IInv, TypeOK, IdsOf
<1> HIDE DEF A, R, P
<1>6. /\ table' \in [Names -> Status \cup {NoRow}]
      /\ \A n \in Names : table'[n] = "processing" <=> table[n] = "processing"
      /\ R \cup A = {n \in Names : table'[n] # NoRow} /\ R \cap A = {}
  BY <1>2, <1>3 DEF Status, NoRow, A, R
<1>7. TypeOK'
  <2>1. IdsOf(new) \subseteq Names /\ <<>> \in Seq(Names)
    BY <1>3, LenProperties, ElementOfSeq, EmptySeq DEF IdsOf
  <2>2. dropped' \subseteq Names
    BY <1>1, <1>3, <2>1
  <2> QED
    BY <1>1, <1>4, <1>6, <2>1, <2>2 DEF IInv, TypeOK
<1>8. RowsInv'
  <2>1. NoRepeat(age') /\ IdsOf(age') = {n \in Names : table'[n] # NoRow}
    BY <1>2, <1>3, <1>4, <1>6 DEF A, R
  <2>2. \A n \in IdsOf(pending') : table'[n] = "processing"
    BY <1>1, <1>3, <1>5, <1>6 DEF P
  <2> QED
    BY <1>1, <2>1, <2>2 DEF IInv, RowsInv
<1>9. LoopInv'
  BY <1>1 DEF IInv, LoopInv
<1>10. ProcessingInHand'
  BY <1>1, <1>3, <1>6 DEF ProcessingInHand
<1> QED
  BY <1>7, <1>8, <1>9, <1>10 DEF IInv

LEMMA StepCrash ==
  ASSUME IInv, Crash
  PROVE  IInv'
<1>1. /\ crashes < MaxCrash /\ crashes' = crashes + 1 /\ pc' = "init"
      /\ dropped' = dropped \cup IdsOf(new) \cup {n \in Names : table[n] = "processing"}
      /\ new' = <<>> /\ pending' = <<>> /\ at' = 1 /\ asked' = {} /\ count' = 0 /\ exit' = FALSE
      /\ UNCHANGED <<table, age, added, status>>
  BY DEF Crash
<1>2. TypeOK'
  <2>1. /\ <<>> \in Seq(Names) /\ Len(<<>>) <= Batch /\ 1 \in 1 .. (Batch + 1) /\ 0 \in 0 .. Batch
        /\ crashes + 1 \in 0 .. MaxCrash
    BY <1>1, EmptySeq, DnsAssumption DEF IInv, TypeOK
  <2>2. IdsOf(new) \subseteq Names
    BY LenProperties, ElementOfSeq DEF IInv, TypeOK, IdsOf
  <2>3. dropped' \subseteq Names
    BY <1>1, <2>2 DEF IInv, TypeOK
  <2> QED
    BY <1>1, <2>1, <2>3 DEF IInv, TypeOK
<1>3. RowsInv'
  BY <1>1, EmptyIds DEF IInv, RowsInv
<1>4. LoopInv'
  BY <1>1, EmptyIds DEF LoopInv
<1>5. ProcessingInHand'
  BY <1>1 DEF ProcessingInHand
<1> QED
  BY <1>2, <1>3, <1>4, <1>5 DEF IInv

LEMMA StepInv == IInv /\ [Next]_vars => IInv'
<1> SUFFICES ASSUME IInv, [Next]_vars PROVE IInv'
  OBVIOUS
<1>1. CASE Start \/ \E n \in Names : AddWebName(n)
  BY <1>1, StepBegin
<1>2. CASE Thread
  BY <1>2, StepFetch, StepLookup, StepAsked, StepDispatched, StepUpdate, StepAdd DEF Thread
<1>3. CASE Crash
  BY <1>3, StepCrash
<1>4. ASSUME NEW n \in Names, NEW ok \in BOOLEAN, Answer(n, ok) PROVE IInv'
  BY <1>4, StepAnswer
<1>5. CASE UNCHANGED vars
  BY <1>5 DEF vars, IInv, TypeOK, RowsInv, LoopInv, LookedUp, ProcessingInHand
<1> QED
  BY <1>1, <1>2, <1>3, <1>4, <1>5 DEF Next
-----------------------------------------------------------------------------
(* The inductive invariant of the DNS manager.                             *)
THEOREM Safety == Spec => []IInv
BY InitInv, StepInv, PTL DEF Spec

(* Every variable keeps its type; a batch has no more records than asked   *)
(* for and s_pendingLookupCount is never below zero or above the batch.    *)
THEOREM TypeCorrect == Spec => []TypeOK
<1>1. IInv => TypeOK
  BY DEF IInv
<1> QED
  BY <1>1, Safety, PTL

(* The event loop of threadFunc ends with the last answer of its batch, in *)
(* whatever order evdns answers and however many names it answers at once. *)
THEOREM LoopEnds == Spec => []LoopEndsWithLast
<1>1. IInv => LoopEndsWithLast
  BY DEF IInv, LoopInv, LoopEndsWithLast
<1> QED
  BY <1>1, Safety, PTL

(* Only a crash, a failed statement or addRecords itself loses a name: a   *)
(* row that getNextRecords made PROCESSING is otherwise in the batch.      *)
THEOREM RowsGivenBack == Spec => []ProcessingInHand
<1>1. IInv => ProcessingInHand
  BY DEF IInv
<1> QED
  BY <1>1, Safety, PTL

(* No step takes READY from a row, or the row away.                        *)
LEMMA ReadyStep ==
  ASSUME IInv, [Next]_vars, NEW n \in Names, table[n] = "ready"
  PROVE  table'[n] = "ready"
<1>1. CASE Fetch
  <2>1. \A s \in Oldest : n \notin IdsOf(Picked(age, s))
    BY OldestIs DEF IInv
  <2> QED
    BY <1>1, <2>1 DEF Fetch, IInv, TypeOK
<1>2. CASE Update
  <2>1. n \notin IdsOf(pending)
    BY DEF IInv, RowsInv
  <2>2. PICK k \in 0 .. Len(pending) :
          table' = [m \in Names |-> IF m \in IdsOf(First(pending, k)) THEN Written(m) ELSE table[m]]
    BY <1>2 DEF Update
  <2>3. IdsOf(First(pending, k)) \subseteq IdsOf(pending)
    BY FirstIds DEF IInv, TypeOK
  <2> QED
    BY <2>1, <2>2, <2>3 DEF IInv, TypeOK
<1>3. CASE Add
  <2>1. PICK U \in Seq(Names) :
          /\ table' = [m \in Names |-> IF m \in IdsOf(U) THEN "uncheck" ELSE table[m]]
          /\ \A m \in IdsOf(U) : m \in Names /\ table[m] = NoRow
    BY <1>3, AddIs
  <2> QED
    BY <2>1 DEF NoRow
<1>4. CASE table' = table
  BY <1>4
<1> QED
  BY <1>1, <1>2, <1>3, <1>4 DEF Next, Thread, Start, AddWebName, Lookup, Asked, Dispatched, Crash,
     Answer, vars

(* A row that is READY stays READY.                                        *)
THEOREM ReadyForEver == Spec => ReadyStays
<1>1. IInv /\ [Next]_vars => [\A n \in Names : table[n] = "ready" => table'[n] = "ready"]_vars
  BY ReadyStep
<1> QED
  BY <1>1, Safety, PTL DEF Spec, ReadyStays
=============================================================================
