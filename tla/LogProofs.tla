----------------------------- MODULE LogProofs -----------------------------
(***************************************************************************)
(* What the logger keeps, for any number of threads, buffers and parts and *)
(* for every capacity: who holds which buffer, that nothing is lost or     *)
(* mixed, that no wakeup is lost, and that the whole is a LogChannel.      *)
(***************************************************************************)
EXTENDS LogBuffers, ListTheorems, FunctionTheorems, TLAPS

(* Where a thread has a buffer, it is its own, and it has something to log *)
(* there; the buffer it changes to is an empty one.                        *)
ThreadAt(l) ==
  /\ cur[l] # None <=> pc[l] \in {"check", "flush", "append", "finish"}
  /\ cur[l] # None => buf[cur[l]].by = l
  /\ pc[l] \in {"flush", "grab"} => back[l] = "append"
  /\ pc[l] = "append" => buf[cur[l]].parts = {} /\ buf[cur[l]].len = 0
  /\ pc[l] \notin {"idle", "finish"} => next[l] <= Parts

ThreadInv == \A l \in Loggers : ThreadAt(l)

(* What the writer holds where, and what a thread has handed over has text *)
(* of a thread.                                                            *)
WriterInv ==
  /\ wpc \notin {"write", "notify"} => batch = <<>> /\ done = 0
  /\ wpc = "notify" => done = Len(batch)
  /\ \A b \in IdsOf(saving) \cup IdsOf(Writing) : buf[b].by \in Loggers
  /\ wpc \in {"open", "failed", "loop"} => ~final
  /\ wpc = "closed" => final

(* The buffers that come back to the pool, until the waiting threads have  *)
(* been told.                                                              *)
Returned == IF wpc = "notify" THEN Len(batch) ELSE 0

Awake == {l \in Loggers : pc[l] \in {"take", "grab"}}

(* NoLostWakeup, and how far it is from it before the notification.        *)
WakeInv == Waiting # {} => Len(free) <= Cardinality(Awake) + Returned

(* Who was done before stop stays done, and what is handed over after the  *)
(* last swap comes from a thread that was not.                             *)
StopInv ==
  /\ final => stop
  /\ stop => \A l \in Loggers \ late : pc[l] = "idle" /\ next[l] = Parts + 1
  /\ final /\ wpc \in {"write", "notify", "closed"} =>
       \A b \in IdsOf(saving) : buf[b].by \in late

HoldInv == TypeOK /\ OneHolder /\ ThreadInv /\ WriterInv

(* OneHolder of a pool f, a saving list s, a writer's list w, the threads' *)
(* buffers c and a count n, list by list.                                  *)
HeldIn(c) == {c[l] : l \in Loggers} \ {None}

Apart(f, s, w, c, n) ==
  /\ NoRepeat(f) /\ NoRepeat(s) /\ NoRepeat(w)
  /\ IdsOf(f) \cap IdsOf(s) = {} /\ IdsOf(f) \cap IdsOf(w) = {} /\ IdsOf(s) \cap IdsOf(w) = {}
  /\ HeldIn(c) \cap (IdsOf(f) \cup IdsOf(s) \cup IdsOf(w)) = {}
  /\ \A l, k \in Loggers : c[l] # None /\ c[k] = c[l] => k = l
  /\ Own \notin IdsOf(f) \cup IdsOf(s) \cup IdsOf(w) \cup HeldIn(c)
  /\ n = Len(f) + Len(s) + Len(w) + Cardinality(HeldIn(c)) + 1

(* OneHolder itself, of these five.                                        *)
OneOf(f, s, w, c, n) ==
  /\ NoRepeat(f \o s \o w)
  /\ \A l \in Loggers : c[l] # None =>
       /\ c[l] \notin IdsOf(f \o s \o w)
       /\ \A k \in Loggers : c[k] = c[l] => k = l
  /\ Own \notin IdsOf(f \o s \o w) \cup HeldIn(c)
  /\ n = Len(f) + Len(s) + Len(w) + Cardinality(HeldIn(c)) + 1

Holders == [Loggers -> Buffers \cup {None}]
-----------------------------------------------------------------------------
LEMMA ApartIsOneHolder ==
  ASSUME NEW f \in Seq(Buffers), NEW s \in Seq(Buffers), NEW w \in Seq(Buffers),
         NEW c \in Holders, NEW n
  PROVE  Apart(f, s, w, c, n) <=> OneOf(f, s, w, c, n)
<1>1. /\ f \o s \in Seq(Buffers)
      /\ IdsOf(f \o s) = IdsOf(f) \cup IdsOf(s)
      /\ NoRepeat(f \o s) <=> NoRepeat(f) /\ NoRepeat(s) /\ IdsOf(f) \cap IdsOf(s) = {}
  BY ConcatIds
<1>2. /\ IdsOf(f \o s \o w) = IdsOf(f) \cup IdsOf(s) \cup IdsOf(w)
      /\ NoRepeat(f \o s \o w) <=>
           NoRepeat(f \o s) /\ NoRepeat(w) /\ (IdsOf(f) \cup IdsOf(s)) \cap IdsOf(w) = {}
  <2> DEFINE p == f \o s
  <2> HIDE DEF p
  <2>1. p \in Seq(Buffers) /\ IdsOf(p) = IdsOf(f) \cup IdsOf(s)
    BY <1>1 DEF p
  <2>2. /\ IdsOf(p \o w) = IdsOf(p) \cup IdsOf(w)
        /\ NoRepeat(p \o w) <=> NoRepeat(p) /\ NoRepeat(w) /\ IdsOf(p) \cap IdsOf(w) = {}
    BY <2>1, ConcatIds
  <2> QED
    BY <2>1, <2>2 DEF p
<1>3. (\A l \in Loggers : c[l] # None => c[l] \notin IdsOf(f) \cup IdsOf(s) \cup IdsOf(w))
        <=> HeldIn(c) \cap (IdsOf(f) \cup IdsOf(s) \cup IdsOf(w)) = {}
  BY DEF HeldIn
<1> QED
  BY <1>1, <1>2, <1>3, Zenon DEF Apart, OneOf

LEMMA HeldFinite ==
  ASSUME NEW c \in Holders
  PROVE  IsFiniteSet(HeldIn(c)) /\ Cardinality(HeldIn(c)) \in Nat
<1>1. IsFiniteSet({c[l] : l \in Loggers})
  BY c \in Surjection(Loggers, {c[l] : l \in Loggers}), FS_Surjection, LogAssumption
     DEF Surjection, Holders
<1> QED
  BY <1>1, FS_RemoveElement, FS_CardinalityType DEF HeldIn

LEMMA HeldMore ==
  ASSUME NEW c \in Holders, NEW l \in Loggers, c[l] = None, NEW b \in Buffers \ HeldIn(c)
  PROVE  /\ HeldIn([c EXCEPT ![l] = b]) = HeldIn(c) \cup {b}
         /\ Cardinality(HeldIn([c EXCEPT ![l] = b])) = Cardinality(HeldIn(c)) + 1
<1>1. HeldIn([c EXCEPT ![l] = b]) = HeldIn(c) \cup {b}
  <2> DEFINE d == [c EXCEPT ![l] = b]
  <2>1. d[l] = b /\ \A k \in Loggers \ {l} : d[k] = c[k]
    BY DEF Holders
  <2>2. b # None
    BY LogAssumption
  <2> HIDE DEF d
  <2>3. HeldIn(d) \subseteq HeldIn(c) \cup {b}
    BY <2>1 DEF HeldIn
  <2>4. HeldIn(c) \cup {b} \subseteq HeldIn(d)
    BY <2>1, <2>2 DEF HeldIn
  <2> QED
    BY <2>3, <2>4 DEF d
<1> QED
  BY <1>1, HeldFinite, FS_AddElement

LEMMA HeldLess ==
  ASSUME NEW c \in Holders, NEW l \in Loggers, c[l] # None,
         \A k \in Loggers : c[k] = c[l] => k = l
  PROVE  /\ HeldIn([c EXCEPT ![l] = None]) = HeldIn(c) \ {c[l]}
         /\ Cardinality(HeldIn([c EXCEPT ![l] = None])) = Cardinality(HeldIn(c)) - 1
<1>1. HeldIn([c EXCEPT ![l] = None]) = HeldIn(c) \ {c[l]}
  <2> DEFINE d == [c EXCEPT ![l] = None]
  <2>1. d[l] = None /\ \A k \in Loggers \ {l} : d[k] = c[k]
    BY DEF Holders
  <2> HIDE DEF d
  <2>2. HeldIn(d) \subseteq HeldIn(c) \ {c[l]}
    BY <2>1 DEF HeldIn
  <2>3. HeldIn(c) \ {c[l]} \subseteq HeldIn(d)
    BY <2>1 DEF HeldIn
  <2> QED
    BY <2>2, <2>3 DEF d
<1>2. c[l] \in HeldIn(c)
  BY DEF HeldIn
<1> QED
  BY <1>1, <1>2, HeldFinite, FS_RemoveElement

(* A thread takes the last buffer of the pool.                             *)
LEMMA ApartPop ==
  ASSUME NEW f \in Seq(Buffers), NEW s \in Seq(Buffers), NEW w \in Seq(Buffers),
         NEW c \in Holders, NEW n \in Nat, Apart(f, s, w, c, n),
         NEW l \in Loggers, c[l] = None, f # <<>>
  PROVE  /\ f[Len(f)] \in Buffers /\ f[Len(f)] \in IdsOf(f)
         /\ SubSeq(f, 1, Len(f) - 1) \in Seq(Buffers)
         /\ Apart(SubSeq(f, 1, Len(f) - 1), s, w, [c EXCEPT ![l] = f[Len(f)]], n)
<1> DEFINE b == f[Len(f)]
           g == SubSeq(f, 1, Len(f) - 1)
           d == [c EXCEPT ![l] = b]
<1>1. /\ b \in Buffers /\ b \in IdsOf(f) /\ g \in Seq(Buffers)
      /\ NoRepeat(g) /\ IdsOf(g) = IdsOf(f) \ {b}
  BY FrontIds DEF Apart
<1>2. Len(g) = Len(f) - 1 /\ Len(f) \in Nat
  BY FrontIds, LenProperties
<1>3. b \notin HeldIn(c)
  BY <1>1 DEF Apart
<1> HIDE DEF b, g
<1>4. HeldIn(d) = HeldIn(c) \cup {b} /\ Cardinality(HeldIn(d)) = Cardinality(HeldIn(c)) + 1
  BY <1>1, <1>3, HeldMore
<1>5. \A j, k \in Loggers : d[j] # None /\ d[k] = d[j] => k = j
  BY <1>1, <1>3 DEF Apart, HeldIn, Holders
<1> HIDE DEF d
<1>6. /\ IdsOf(g) \cap IdsOf(s) = {} /\ IdsOf(g) \cap IdsOf(w) = {}
      /\ HeldIn(d) \cap (IdsOf(g) \cup IdsOf(s) \cup IdsOf(w)) = {}
      /\ Own \notin IdsOf(g) \cup IdsOf(s) \cup IdsOf(w) \cup HeldIn(d)
  BY <1>1, <1>4 DEF Apart
<1>7. n = Len(g) + Len(s) + Len(w) + Cardinality(HeldIn(d)) + 1
  BY <1>2, <1>4, HeldFinite, LenProperties DEF Apart
<1> QED
  BY <1>1, <1>5, <1>6, <1>7 DEF Apart, b, g, d

(* A thread gets a new buffer.                                             *)
LEMMA ApartAlloc ==
  ASSUME NEW f \in Seq(Buffers), NEW s \in Seq(Buffers), NEW w \in Seq(Buffers),
         NEW c \in Holders, NEW n \in Nat, Apart(f, s, w, c, n),
         NEW l \in Loggers, c[l] = None, NEW b \in Buffers,
         b \notin IdsOf(f) \cup IdsOf(s) \cup IdsOf(w) \cup HeldIn(c) \cup {Own}
  PROVE  Apart(f, s, w, [c EXCEPT ![l] = b], n + 1)
<1> DEFINE d == [c EXCEPT ![l] = b]
<1>1. HeldIn(d) = HeldIn(c) \cup {b} /\ Cardinality(HeldIn(d)) = Cardinality(HeldIn(c)) + 1
  BY HeldMore
<1>2. \A j, k \in Loggers : d[j] # None /\ d[k] = d[j] => k = j
  BY DEF Apart, HeldIn, Holders
<1> HIDE DEF d
<1>3. /\ HeldIn(d) \cap (IdsOf(f) \cup IdsOf(s) \cup IdsOf(w)) = {}
      /\ Own \notin IdsOf(f) \cup IdsOf(s) \cup IdsOf(w) \cup HeldIn(d)
  BY <1>1 DEF Apart
<1>4. n + 1 = Len(f) + Len(s) + Len(w) + Cardinality(HeldIn(d)) + 1
  BY <1>1, HeldFinite, LenProperties DEF Apart
<1> QED
  BY <1>2, <1>3, <1>4 DEF Apart, d

(* A thread hands its buffer over.                                         *)
LEMMA ApartFlush ==
  ASSUME NEW f \in Seq(Buffers), NEW s \in Seq(Buffers), NEW w \in Seq(Buffers),
         NEW c \in Holders, NEW n \in Nat, Apart(f, s, w, c, n),
         NEW l \in Loggers, c[l] # None
  PROVE  /\ Append(s, c[l]) \in Seq(Buffers)
         /\ IdsOf(Append(s, c[l])) = IdsOf(s) \cup {c[l]}
         /\ Apart(f, Append(s, c[l]), w, [c EXCEPT ![l] = None], n)
<1> DEFINE b == c[l]
           t == Append(s, b)
           d == [c EXCEPT ![l] = None]
<1>1. b \in Buffers /\ b \in HeldIn(c)
  BY DEF HeldIn, Holders
<1>2. b \notin IdsOf(f) \cup IdsOf(s) \cup IdsOf(w) \cup {Own}
  BY <1>1 DEF Apart
<1>3. \A k \in Loggers : c[k] = c[l] => k = l
  BY DEF Apart
<1>4. HeldIn(d) = HeldIn(c) \ {b} /\ Cardinality(HeldIn(d)) = Cardinality(HeldIn(c)) - 1
  BY <1>3, HeldLess
<1>5. \A j, k \in Loggers : d[j] # None /\ d[k] = d[j] => k = j
  BY DEF Apart, HeldIn, Holders
<1> HIDE DEF b, d
<1>6. t \in Seq(Buffers) /\ IdsOf(t) = IdsOf(s) \cup {b} /\ NoRepeat(t) /\ Len(t) = Len(s) + 1
  BY <1>1, <1>2, AppendIds, AppendProperties DEF Apart
<1> HIDE DEF t
<1>7. /\ IdsOf(f) \cap IdsOf(t) = {} /\ IdsOf(t) \cap IdsOf(w) = {}
      /\ HeldIn(d) \cap (IdsOf(f) \cup IdsOf(t) \cup IdsOf(w)) = {}
      /\ Own \notin IdsOf(f) \cup IdsOf(t) \cup IdsOf(w) \cup HeldIn(d)
  BY <1>2, <1>4, <1>6 DEF Apart
<1>8. n = Len(f) + Len(t) + Len(w) + Cardinality(HeldIn(d)) + 1
  BY <1>4, <1>6, HeldFinite, LenProperties DEF Apart
<1> QED
  BY <1>5, <1>6, <1>7, <1>8 DEF Apart, b, t, d

(* The writer takes the saving list.                                       *)
LEMMA ApartSwap ==
  ASSUME NEW f \in Seq(Buffers), NEW s \in Seq(Buffers), NEW c \in Holders, NEW n \in Nat,
         Apart(f, s, <<>>, c, n)
  PROVE  Apart(f, <<>>, s, c, n)
BY EmptyIds, LenProperties, HeldFinite DEF Apart

(* The writer gives its buffers back.                                      *)
LEMMA ApartReturn ==
  ASSUME NEW f \in Seq(Buffers), NEW s \in Seq(Buffers), NEW w \in Seq(Buffers),
         NEW c \in Holders, NEW n \in Nat, Apart(f, s, w, c, n)
  PROVE  f \o w \in Seq(Buffers) /\ Apart(f \o w, s, <<>>, c, n)
<1> DEFINE g == f \o w
<1>1. /\ g \in Seq(Buffers) /\ IdsOf(g) = IdsOf(f) \cup IdsOf(w) /\ NoRepeat(g)
      /\ Len(g) = Len(f) + Len(w)
  BY ConcatIds, ConcatProperties DEF Apart
<1> HIDE DEF g
<1>2. n = Len(g) + Len(s) + 0 + Cardinality(HeldIn(c)) + 1
  BY <1>1, HeldFinite, LenProperties DEF Apart
<1>3. /\ IdsOf(g) \cap IdsOf(s) = {}
      /\ HeldIn(c) \cap (IdsOf(g) \cup IdsOf(s) \cup {}) = {}
      /\ Own \notin IdsOf(g) \cup IdsOf(s) \cup {} \cup HeldIn(c)
  BY <1>1 DEF Apart
<1> QED
  BY <1>1, <1>2, <1>3, EmptyIds DEF Apart, g
-----------------------------------------------------------------------------
LEMMA SizeTypes == Parts \in Nat /\ \A n \in 1 .. Parts : SizeOf[n] \in Nat
BY LogAssumption, LenProperties, ElementOfSeq DEF Parts

LEMMA WritingTypes == TypeOK => Writing \in Seq(Buffers) /\ cur \in Holders /\ count \in Nat
BY LogAssumption, EmptySeq DEF TypeOK, Writing, Holders

LEMMA HolderNow ==
  ASSUME TypeOK, OneHolder
  PROVE  Apart(free, saving, Writing, cur, count)
<1>1. OneOf(free, saving, Writing, cur, count)
  BY DEF OneHolder, Held, HeldIn, OneOf
<1>2. /\ Writing \in Seq(Buffers) /\ cur \in Holders
      /\ free \in Seq(Buffers) /\ saving \in Seq(Buffers)
  BY WritingTypes DEF TypeOK
<1> QED
  BY <1>1, <1>2, ApartIsOneHolder

LEMMA HolderNext ==
  ASSUME TypeOK', Apart(free', saving', Writing', cur', count')
  PROVE  OneHolder'
<1>1. /\ Writing' \in Seq(Buffers) /\ cur' \in Holders
      /\ free' \in Seq(Buffers) /\ saving' \in Seq(Buffers)
  BY EmptySeq DEF TypeOK, Writing, Holders
<1> QED
  <2>1. OneOf(free', saving', Writing', cur', count')
    BY <1>1, ApartIsOneHolder
  <2> QED
    BY <2>1 DEF OneHolder, Held, HeldIn, OneOf

(* A pool that holds InitCount - 1 buffers can be made.                    *)
LEMMA PoolExists ==
  \E first \in [1 .. (InitCount - 1) -> Buffers \ {Own}] :
     \A i, j \in DOMAIN first : first[i] = first[j] => i = j
<1> DEFINE B == Buffers \ {Own}
           n == Cardinality(B)
<1>1. /\ IsFiniteSet(B) /\ n = Cardinality(Buffers) - 1
      /\ Cardinality(Buffers) \in Nat /\ n \in Nat
  BY LogAssumption, FS_RemoveElement, FS_CardinalityType
<1>2. PICK f : f \in Bijection(1 .. n, B)
  BY <1>1, FS_CardinalityType DEF ExistsBijection
<1>3. f \in [1 .. n -> B] /\ \A i, j \in 1 .. n : f[i] = f[j] => i = j
  BY <1>2 DEF Bijection, Injection, IsInjective
<1>4. InitCount - 1 \in Nat /\ InitCount - 1 <= n
  BY <1>1, LogAssumption
<1> HIDE DEF n
<1>5. 1 .. (InitCount - 1) \subseteq 1 .. n
  BY <1>1, <1>4
<1> DEFINE g == [i \in 1 .. (InitCount - 1) |-> f[i]]
<1>6. /\ g \in [1 .. (InitCount - 1) -> B]
      /\ \A i, j \in DOMAIN g : g[i] = g[j] => i = j
  BY <1>3, <1>5
<1> QED
  BY <1>6

LEMMA HoldInit == Init => HoldInv
<1> SUFFICES ASSUME Init PROVE HoldInv
  OBVIOUS
<1>1. /\ free \in [1 .. (InitCount - 1) -> Buffers \ {Own}]
      /\ \A i, j \in DOMAIN free : free[i] = free[j] => i = j
  BY PoolExists DEF Init
<1>2. InitCount - 1 \in Nat
  BY LogAssumption
<1>3. free \in Seq(Buffers) /\ Len(free) = InitCount - 1 /\ Own \notin IdsOf(free)
  <2>1. free \in Seq(Buffers \ {Own})
    BY <1>1, <1>2, SeqDef
  <2>2. free \in Seq(Buffers)
    BY <2>1, SeqMonotonic
  <2>3. Len(free) = InitCount - 1
    BY <1>1, <1>2, <2>2, LenProperties
  <2>4. Own \notin IdsOf(free)
    BY <1>1 DEF IdsOf
  <2> QED
    BY <2>2, <2>3, <2>4
<1>4. TypeOK
  <2>1. buf \in [Buffers -> [by : Loggers \cup {None}, parts : SUBSET (1 .. Parts), len : Nat]]
    BY DEF Init, Empty
  <2>2. next \in [Loggers -> 1 .. (Parts + 1)] /\ count \in InitCount .. MaxCount
    BY SizeTypes, LogAssumption DEF Init
  <2>3. /\ pc \in [Loggers -> {"idle", "take", "wait", "check", "flush", "grab", "append", "finish"}]
        /\ back \in [Loggers -> {"check", "append"}]
        /\ cur \in [Loggers -> Buffers \cup {None}]
        /\ wpc = "open" /\ final \in BOOLEAN /\ stop \in BOOLEAN /\ late \subseteq Loggers
    BY DEF Init
  <2>4. saving = <<>> /\ batch = <<>> /\ file = <<>> /\ done \in 0 .. Len(batch)
    BY EmptySeq DEF Init
  <2>5. /\ saving \in Seq(Buffers) /\ batch \in Seq(Buffers)
        /\ file \in Seq([by : Loggers, parts : SUBSET (1 .. Parts)])
    BY <2>4, EmptySeq
  <2> QED
    BY <1>3, <2>1, <2>2, <2>3, <2>4, <2>5 DEF TypeOK
<1>5. HeldIn(cur) = {} /\ Cardinality(HeldIn(cur)) = 0
  BY FS_EmptySet DEF HeldIn, Init
<1>6. Writing = <<>> /\ saving = <<>>
  BY DEF Init, Writing
<1>7. Apart(free, saving, Writing, cur, count)
  <2>1. NoRepeat(free)
    BY <1>1 DEF NoRepeat
  <2>2. count = InitCount /\ \A l \in Loggers : cur[l] = None
    BY DEF Init
  <2>3. count = Len(free) + Len(saving) + Len(Writing) + Cardinality(HeldIn(cur)) + 1
    BY <1>2, <1>3, <1>5, <1>6, <2>2, EmptySeq, LogAssumption
  <2> QED
    BY <1>3, <1>5, <1>6, <2>1, <2>2, <2>3, EmptyIds DEF Apart
<1>8. OneHolder
  <2>1. /\ Writing \in Seq(Buffers) /\ cur \in Holders
        /\ free \in Seq(Buffers) /\ saving \in Seq(Buffers)
    BY <1>4, WritingTypes DEF TypeOK
  <2>2. OneOf(free, saving, Writing, cur, count)
    BY <1>7, <2>1, ApartIsOneHolder
  <2> QED
    BY <2>2 DEF OneHolder, Held, HeldIn, OneOf
<1>9. ThreadInv
  BY DEF Init, ThreadInv, ThreadAt
<1>10. WriterInv
  BY <1>6, EmptyIds DEF Init, WriterInv
<1> QED
  BY <1>4, <1>8, <1>9, <1>10 DEF HoldInv
-----------------------------------------------------------------------------
(* A step of one thread leaves what is said of the others.                 *)
LEMMA OthersKept ==
  ASSUME ThreadInv, NEW l \in Loggers, ThreadAt(l)',
         \A k \in Loggers \ {l} :
           /\ pc'[k] = pc[k] /\ back'[k] = back[k] /\ cur'[k] = cur[k] /\ next'[k] = next[k]
           /\ cur[k] # None => buf'[cur[k]] = buf[cur[k]]
  PROVE  ThreadInv'
<1>1. ASSUME NEW k \in Loggers \ {l} PROVE ThreadAt(k)'
  <2>1. ThreadAt(k)
    BY DEF ThreadInv
  <2> QED
    BY <2>1 DEF ThreadAt
<1> QED
  BY <1>1 DEF ThreadInv

(* Steps that move no buffer and write no text.                            *)
LEMMA HoldMove ==
  ASSUME HoldInv, NEW l \in Loggers,
         NEW p \in {"idle", "take", "wait", "check", "flush", "grab", "append", "finish"},
         NEW b \in {"check", "append"},
         pc' = [pc EXCEPT ![l] = p], back' = [back EXCEPT ![l] = b],
         UNCHANGED <<list, buf, cur, next, writer, stop, late>>, ThreadAt(l)'
  PROVE  HoldInv'
<1>1. TypeOK'
  BY DEF HoldInv, TypeOK, list, writer
<1>2. OneHolder'
  BY DEF HoldInv, OneHolder, Held, Writing, list, writer
<1>3. ThreadInv'
  <2>1. ThreadInv /\ \A k \in Loggers \ {l} : pc'[k] = pc[k] /\ back'[k] = back[k]
    BY DEF HoldInv, TypeOK
  <2> QED
    BY <2>1, OthersKept
<1>4. WriterInv'
  BY DEF HoldInv, WriterInv, Writing, list, writer
<1> QED
  BY <1>1, <1>2, <1>3, <1>4 DEF HoldInv

(* A thread that leaves nextBuffer() with buffer b.                        *)
LEMMA HoldObtain ==
  ASSUME HoldInv, NEW l \in Loggers, pc[l] \in {"take", "grab"},
         NEW b \in Buffers, b \notin IdsOf(saving) \cup IdsOf(Writing) \cup HeldIn(cur),
         Obtain(l, b), UNCHANGED <<saving, back, next, writer, stop, late>>,
         free' \in Seq(Buffers), count' \in InitCount .. MaxCount,
         Apart(free', saving, Writing, [cur EXCEPT ![l] = b], count')
  PROVE  HoldInv'
<1>1. TypeOK
  BY DEF HoldInv
<1>2. /\ cur' = [cur EXCEPT ![l] = b]
      /\ buf' = [buf EXCEPT ![b] = [Empty EXCEPT !.by = l]]
      /\ pc' = [pc EXCEPT ![l] = back[l]]
  BY DEF Obtain
<1> DEFINE e == [Empty EXCEPT !.by = l]
<1>3. /\ e \in [by : Loggers \cup {None}, parts : SUBSET (1 .. Parts), len : Nat]
      /\ e.by = l /\ e.parts = {} /\ e.len = 0
  BY DEF Empty
<1> HIDE DEF e
<1>4. TypeOK'
  <2>1. buf' \in [Buffers -> [by : Loggers \cup {None}, parts : SUBSET (1 .. Parts), len : Nat]]
    BY <1>1, <1>2, <1>3 DEF TypeOK, e
  <2>2. /\ pc' \in [Loggers -> {"idle", "take", "wait", "check", "flush", "grab", "append", "finish"}]
        /\ cur' \in [Loggers -> Buffers \cup {None}]
    BY <1>1, <1>2 DEF TypeOK
  <2> QED
    BY <1>1, <2>1, <2>2 DEF TypeOK, writer
<1>5. OneHolder'
  <2>1. Writing' = Writing
    BY DEF Writing, writer
  <2> QED
    BY <1>2, <1>4, <2>1, HolderNext
<1>6. ThreadInv'
  <2>1. b # None
    BY LogAssumption
  <2>2. /\ cur'[l] = b /\ pc'[l] = back[l] /\ next'[l] = next[l]
        /\ buf'[b].by = l /\ buf'[b].parts = {} /\ buf'[b].len = 0
    BY <1>1, <1>2, <1>3 DEF TypeOK, e
  <2>3. back[l] \in {"check", "append"} /\ next[l] <= Parts
    BY <1>1 DEF TypeOK, HoldInv, ThreadInv, ThreadAt
  <2>4. ThreadAt(l)'
    BY <2>1, <2>2, <2>3 DEF ThreadAt
  <2>5. ASSUME NEW k \in Loggers \ {l}
        PROVE  /\ pc'[k] = pc[k] /\ back'[k] = back[k] /\ cur'[k] = cur[k] /\ next'[k] = next[k]
               /\ cur[k] # None => buf'[cur[k]] = buf[cur[k]]
    <3>1. cur[k] # None => cur[k] \in Buffers /\ cur[k] # b
      BY <1>1 DEF TypeOK, HeldIn
    <3> QED
      BY <1>1, <1>2, <3>1 DEF TypeOK
  <2> QED
    BY <2>4, <2>5, OthersKept DEF HoldInv
<1>7. WriterInv'
  <2>1. Writing' = Writing /\ saving' = saving
    BY DEF Writing, writer
  <2>2. \A a \in IdsOf(saving) \cup IdsOf(Writing) : a \in Buffers /\ buf'[a] = buf[a]
    BY <1>1, <1>2, WritingTypes DEF TypeOK, IdsOf
  <2> QED
    BY <2>1, <2>2 DEF HoldInv, WriterInv, writer
<1> QED
  BY <1>4, <1>5, <1>6, <1>7 DEF HoldInv

LEMMA HoldPop ==
  ASSUME HoldInv, NEW l \in Loggers, pc[l] \in {"take", "grab"}, Pop(l),
         UNCHANGED <<saving, back, next, writer, stop, late>>
  PROVE  HoldInv'
<1> DEFINE b == free[Len(free)]
<1>1. /\ free \in Seq(Buffers) /\ saving \in Seq(Buffers) /\ Writing \in Seq(Buffers)
      /\ cur \in Holders /\ count \in Nat
      /\ Apart(free, saving, Writing, cur, count)
  BY WritingTypes, HolderNow DEF HoldInv, TypeOK
<1>2. cur[l] = None
  BY DEF HoldInv, ThreadInv, ThreadAt
<1>3. /\ free # <<>> /\ Obtain(l, b) /\ free' = SubSeq(free, 1, Len(free) - 1) /\ count' = count
  BY DEF Pop
<1>4. /\ b \in Buffers /\ b \in IdsOf(free) /\ free' \in Seq(Buffers)
      /\ Apart(free', saving, Writing, [cur EXCEPT ![l] = b], count)
  BY <1>1, <1>2, <1>3, ApartPop
<1> HIDE DEF b
<1>5. b \notin IdsOf(saving) \cup IdsOf(Writing) \cup HeldIn(cur)
  BY <1>1, <1>4 DEF Apart
<1>6. count' \in InitCount .. MaxCount
  BY <1>3 DEF HoldInv, TypeOK
<1> QED
  BY <1>3, <1>4, <1>5, <1>6, HoldObtain

LEMMA HoldAlloc ==
  ASSUME HoldInv, NEW l \in Loggers, pc[l] = "take", Alloc(l),
         UNCHANGED <<saving, back, next, writer, stop, late>>
  PROVE  HoldInv'
<1> DEFINE b == CHOOSE x \in Buffers : x \notin Allocated
<1>1. /\ free \in Seq(Buffers) /\ saving \in Seq(Buffers) /\ Writing \in Seq(Buffers)
      /\ cur \in Holders /\ count \in Nat
      /\ Apart(free, saving, Writing, cur, count)
  BY WritingTypes, HolderNow DEF HoldInv, TypeOK
<1>2. cur[l] = None
  BY DEF HoldInv, ThreadInv, ThreadAt
<1>3. /\ b \in Buffers /\ b \notin Allocated
      /\ Obtain(l, b) /\ free' = free /\ count' = count + 1 /\ count < MaxCount
  BY DEF Alloc
<1> HIDE DEF b
<1>4. b \notin IdsOf(free) \cup IdsOf(saving) \cup IdsOf(Writing) \cup HeldIn(cur) \cup {Own}
  BY <1>3, EmptyIds DEF Allocated, Held, HeldIn, Writing
<1>5. Apart(free', saving, Writing, [cur EXCEPT ![l] = b], count')
  BY <1>1, <1>2, <1>3, <1>4, ApartAlloc
<1>6. count' \in InitCount .. MaxCount
  BY <1>3, LogAssumption DEF HoldInv, TypeOK
<1> QED
  BY <1>1, <1>3, <1>4, <1>5, <1>6, HoldObtain

LEMMA HoldTake ==
  ASSUME HoldInv, NEW l \in Loggers, Take(l)
  PROVE  HoldInv'
<1>1. CASE Pop(l)
  BY <1>1, HoldPop DEF Take
<1>2. CASE Alloc(l)
  BY <1>2, HoldAlloc DEF Take
<1>3. CASE pc' = [pc EXCEPT ![l] = "wait"] /\ UNCHANGED <<free, count, buf, cur>>
  <2>1. pc[l] = "take" /\ UNCHANGED <<list, buf, back, cur, next, writer, stop, late>>
    BY <1>3 DEF Take, list
  <2>2. back' = [back EXCEPT ![l] = back[l]] /\ back[l] \in {"check", "append"} /\ pc'[l] = "wait"
    BY <1>3, <2>1 DEF HoldInv, TypeOK
  <2>3. ThreadAt(l)'
    BY <2>1, <2>2 DEF HoldInv, ThreadInv, ThreadAt
  <2> QED
    BY <1>3, <2>1, <2>2, <2>3, HoldMove
<1> QED
  BY <1>1, <1>2, <1>3 DEF Take

LEMMA HoldGrab ==
  ASSUME HoldInv, NEW l \in Loggers, Grab(l)
  PROVE  HoldInv'
<1>1. CASE Pop(l)
  BY <1>1, HoldPop DEF Grab
<1>2. CASE pc' = [pc EXCEPT ![l] = "take"] /\ UNCHANGED <<free, count, buf, cur>>
  <2>1. pc[l] = "grab" /\ UNCHANGED <<list, buf, back, cur, next, writer, stop, late>>
    BY <1>2 DEF Grab, list
  <2>2. back' = [back EXCEPT ![l] = back[l]] /\ back[l] \in {"check", "append"} /\ pc'[l] = "take"
    BY <1>2, <2>1 DEF HoldInv, TypeOK
  <2>3. ThreadAt(l)'
    BY <2>1, <2>2 DEF HoldInv, ThreadInv, ThreadAt
  <2> QED
    BY <1>2, <2>1, <2>2, <2>3, HoldMove
<1> QED
  BY <1>1, <1>2 DEF Grab

LEMMA HoldTurn ==
  ASSUME HoldInv, NEW l \in Loggers, Begin(l) \/ Spurious(l) \/ Full(l)
  PROVE  HoldInv'
<1>1. CASE Begin(l)
  <2>1. ThreadAt(l)'
    BY <1>1 DEF Begin, HoldInv, TypeOK, ThreadInv, ThreadAt
  <2> QED
    BY <1>1, <2>1, HoldMove DEF Begin
<1>2. CASE Spurious(l)
  <2>1. back' = [back EXCEPT ![l] = back[l]] /\ back[l] \in {"check", "append"}
    BY <1>2 DEF Spurious, HoldInv, TypeOK
  <2>2. ThreadAt(l)'
    BY <1>2 DEF Spurious, HoldInv, TypeOK, ThreadInv, ThreadAt
  <2> QED
    BY <1>2, <2>1, <2>2, HoldMove DEF Spurious
<1>3. CASE Full(l)
  <2>1. ThreadAt(l)'
    BY <1>3 DEF Full, HoldInv, TypeOK, ThreadInv, ThreadAt
  <2> QED
    BY <1>3, <2>1, HoldMove DEF Full
<1> QED
  BY <1>1, <1>2, <1>3

(* What operator<< makes of the buffer in hand.                            *)
KeptHere(b) == {n \in 1 .. Parts : n \in Direct \/ Avail(b) > SizeOf[n]}

LEMMA AddedTypes ==
  ASSUME TypeOK, NEW b \in Buffers, NEW n \in 1 .. Parts
  PROVE  /\ Added(b, n) \in [by : Loggers \cup {None}, parts : SUBSET (1 .. Parts), len : Nat]
         /\ Added(b, n).by = buf[b].by
         /\ Added(b, n).parts = IF n \in KeptHere(b) THEN buf[b].parts \cup {n} ELSE buf[b].parts
<1>1. buf[b] \in [by : Loggers \cup {None}, parts : SUBSET (1 .. Parts), len : Nat]
  BY DEF TypeOK
<1>2. SizeOf[n] \in Nat
  BY SizeTypes
<1>3. buf[b].parts \cup {n} \in SUBSET (1 .. Parts) /\ buf[b].len + SizeOf[n] \in Nat
  BY <1>1, <1>2
<1> QED
  BY <1>1, <1>3 DEF Added, KeptHere

LEMMA HoldLog ==
  ASSUME HoldInv, NEW l \in Loggers, Log(l)
  PROVE  HoldInv'
<1> DEFINE b == cur[l]
           n == next[l]
<1>1. TypeOK /\ pc[l] \in {"append", "check"} /\ b # None /\ b \in Buffers
  BY DEF HoldInv, TypeOK, Log, ThreadInv, ThreadAt
<1>2. n \in 1 .. Parts
  <2>1. n <= Parts
    BY <1>1 DEF HoldInv, ThreadInv, ThreadAt
  <2>2. n \in 1 .. (Parts + 1)
    BY <1>1 DEF TypeOK
  <2> QED
    BY <2>1, <2>2, SizeTypes
<1>3. /\ buf' = [buf EXCEPT ![b] = Added(b, n)]
      /\ next' = [next EXCEPT ![l] = n + 1]
      /\ pc' = [pc EXCEPT ![l] = IF n \in LastOf THEN "finish" ELSE "check"]
      /\ UNCHANGED <<list, back, cur, writer, stop, late>>
  BY DEF Log
<1>4. /\ Added(b, n) \in [by : Loggers \cup {None}, parts : SUBSET (1 .. Parts), len : Nat]
      /\ Added(b, n).by = l
  <2>1. buf[b].by = l
    BY <1>1 DEF HoldInv, ThreadInv, ThreadAt
  <2> HIDE DEF b, n
  <2>2. /\ Added(b, n) \in [by : Loggers \cup {None}, parts : SUBSET (1 .. Parts), len : Nat]
        /\ Added(b, n).by = buf[b].by
    BY <1>1, <1>2, AddedTypes
  <2> QED
    BY <2>1, <2>2
<1>5. Apart(free, saving, Writing, cur, count) /\ cur \in Holders /\ Writing \in Seq(Buffers)
  BY HolderNow, WritingTypes DEF HoldInv
<1>6. TypeOK'
  <2>1. buf' \in [Buffers -> [by : Loggers \cup {None}, parts : SUBSET (1 .. Parts), len : Nat]]
    BY <1>1, <1>3, <1>4 DEF TypeOK
  <2>2. next' \in [Loggers -> 1 .. (Parts + 1)]
    BY <1>1, <1>2, <1>3, SizeTypes DEF TypeOK
  <2>3. pc' \in [Loggers -> {"idle", "take", "wait", "check", "flush", "grab", "append", "finish"}]
    BY <1>1, <1>3 DEF TypeOK
  <2> QED
    BY <1>1, <1>3, <2>1, <2>2, <2>3 DEF TypeOK, list, writer
<1>7. OneHolder'
  BY <1>3 DEF HoldInv, OneHolder, Held, Writing, list, writer
<1>8. ThreadInv'
  <2>1. /\ cur'[l] = b /\ next'[l] = n + 1 /\ buf'[b] = Added(b, n)
        /\ pc'[l] = IF n \in LastOf THEN "finish" ELSE "check"
    BY <1>1, <1>3 DEF TypeOK
  <2>2. n \notin LastOf => n + 1 <= Parts
    BY <1>2, SizeTypes, LogAssumption
  <2>3. ThreadAt(l)'
    BY <1>1, <1>4, <2>1, <2>2 DEF ThreadAt
  <2>4. ASSUME NEW k \in Loggers \ {l}
        PROVE  /\ pc'[k] = pc[k] /\ back'[k] = back[k] /\ cur'[k] = cur[k] /\ next'[k] = next[k]
               /\ cur[k] # None => buf'[cur[k]] = buf[cur[k]]
    <3>1. cur[k] # None => cur[k] \in Buffers /\ cur[k] # b
      BY <1>1, <1>5 DEF TypeOK, Apart
    <3> QED
      BY <1>1, <1>3, <3>1 DEF TypeOK
  <2> QED
    BY <2>3, <2>4, OthersKept DEF HoldInv
<1>9. WriterInv'
  <2>1. Writing' = Writing /\ saving' = saving
    BY <1>3 DEF Writing, writer, list
  <2>2. b \in HeldIn(cur)
    BY <1>1 DEF HeldIn
  <2>4. \A a \in IdsOf(saving) \cup IdsOf(Writing) : a \in Buffers
    BY <1>1, <1>5 DEF TypeOK, IdsOf
  <2>5. \A a \in IdsOf(saving) \cup IdsOf(Writing) : a # b
    BY <1>5, <2>2 DEF Apart
  <2>3. \A a \in IdsOf(saving) \cup IdsOf(Writing) : buf'[a] = buf[a]
    BY <1>1, <1>3, <2>4, <2>5 DEF TypeOK
  <2> QED
    BY <1>3, <2>1, <2>3 DEF HoldInv, WriterInv, writer
<1> QED
  BY <1>6, <1>7, <1>8, <1>9 DEF HoldInv

(* A thread that hands its buffer over.                                    *)
LEMMA HoldHand ==
  ASSUME HoldInv, NEW l \in Loggers, Flush(l) \/ Finish(l)
  PROVE  HoldInv'
<1> DEFINE b == cur[l]
<1>1. TypeOK /\ pc[l] \in {"flush", "finish"} /\ b # None /\ b \in Buffers
  BY DEF HoldInv, TypeOK, Flush, Finish, ThreadInv, ThreadAt
<1> HIDE DEF b
<1>2. PICK p \in {"grab", "idle"} :
        /\ pc[l] = "flush" => p = "grab"
        /\ pc[l] = "finish" => p = "idle"
        /\ pc' = [pc EXCEPT ![l] = p]
  BY DEF Flush, Finish
<1>3. /\ b = cur[l] /\ saving' = Append(saving, b) /\ cur' = [cur EXCEPT ![l] = None]
      /\ UNCHANGED <<free, count, buf, back, next, writer, stop, late>>
  BY DEF Flush, Finish, b
<1>4. /\ free \in Seq(Buffers) /\ saving \in Seq(Buffers) /\ Writing \in Seq(Buffers)
      /\ cur \in Holders /\ count \in Nat
      /\ Apart(free, saving, Writing, cur, count)
  BY <1>1, WritingTypes, HolderNow DEF HoldInv, TypeOK
<1>5. /\ saving' \in Seq(Buffers) /\ IdsOf(saving') = IdsOf(saving) \cup {b}
      /\ Apart(free, saving', Writing, cur', count)
  <2>1. cur[l] # None
    BY <1>1, <1>3
  <2>2. /\ Append(saving, cur[l]) \in Seq(Buffers)
        /\ IdsOf(Append(saving, cur[l])) = IdsOf(saving) \cup {cur[l]}
        /\ Apart(free, Append(saving, cur[l]), Writing, [cur EXCEPT ![l] = None], count)
    BY <1>4, <2>1, ApartFlush
  <2> QED
    BY <1>3, <2>2
<1>6. TypeOK'
  <2>1. /\ pc' \in [Loggers -> {"idle", "take", "wait", "check", "flush", "grab", "append", "finish"}]
        /\ cur' \in [Loggers -> Buffers \cup {None}]
    BY <1>1, <1>2, <1>3 DEF TypeOK
  <2> QED
    BY <1>1, <1>3, <1>5, <2>1 DEF TypeOK, writer
<1>7. Writing' = Writing
  BY <1>3 DEF Writing, writer
<1>8. OneHolder'
  BY <1>3, <1>5, <1>6, <1>7, HolderNext
<1>9. ThreadInv'
  <2>1. cur'[l] = None /\ pc'[l] = p /\ next'[l] = next[l] /\ back'[l] = back[l]
    BY <1>1, <1>2, <1>3 DEF TypeOK
  <2>2. ThreadAt(l)
    BY DEF HoldInv, ThreadInv
  <2>3. ThreadAt(l)'
    BY <1>1, <1>2, <2>1, <2>2 DEF ThreadAt
  <2>4. \A k \in Loggers \ {l} :
          /\ pc'[k] = pc[k] /\ back'[k] = back[k] /\ cur'[k] = cur[k] /\ next'[k] = next[k]
          /\ cur[k] # None => buf'[cur[k]] = buf[cur[k]]
    BY <1>1, <1>2, <1>3 DEF TypeOK
  <2> QED
    BY <2>3, <2>4, OthersKept DEF HoldInv
<1>10. WriterInv'
  <2>1. buf[b].by \in Loggers
    BY <1>1, <1>3 DEF HoldInv, ThreadInv, ThreadAt
  <2> QED
    BY <1>3, <1>5, <1>7, <2>1 DEF HoldInv, WriterInv, writer
<1> QED
  BY <1>6, <1>8, <1>9, <1>10 DEF HoldInv
-----------------------------------------------------------------------------
(* Steps of the writer that move no buffer.                                *)
LEMMA HoldIdle ==
  ASSUME HoldInv, Open \/ Loop \/ Stop
  PROVE  HoldInv'
<1>1. UNCHANGED <<list, buf, thread, batch, done, file>>
  BY DEF Open, Loop, Stop, writer
<1>2. wpc' = wpc \/ (wpc = "open" /\ wpc' \in {"loop", "failed"}) \/ (wpc = "loop" /\ wpc' = "swap")
  BY DEF Open, Loop, Stop, writer
<1>3. TypeOK'
  <2>1. /\ wpc' \in {"open", "failed", "loop", "swap", "write", "notify", "closed"}
        /\ final' \in BOOLEAN /\ stop' \in BOOLEAN /\ late' \subseteq Loggers
    BY DEF HoldInv, TypeOK, Open, Loop, Stop, writer
  <2> QED
    BY <1>1, <2>1 DEF HoldInv, TypeOK, list, thread
<1>4. Writing' = Writing
  BY <1>1, <1>2 DEF Writing
<1>5. OneHolder'
  BY <1>1, <1>4 DEF HoldInv, OneHolder, Held, list, thread
<1>6. ThreadInv'
  BY <1>1 DEF HoldInv, ThreadInv, ThreadAt, thread
<1>7. WriterInv'
  <2>1. /\ wpc' \in {"open", "failed", "loop"} => ~final'
        /\ wpc' = "closed" => final'
    BY DEF HoldInv, WriterInv, Open, Loop, Stop, writer
  <2> QED
    BY <1>1, <1>2, <1>4, <2>1 DEF HoldInv, WriterInv, list
<1> QED
  BY <1>3, <1>5, <1>6, <1>7 DEF HoldInv

LEMMA HoldSwap ==
  ASSUME HoldInv, Swap
  PROVE  HoldInv'
<1>1. /\ batch' = saving /\ saving' = <<>> /\ done' = 0 /\ wpc = "swap" /\ wpc' # "notify"
      /\ wpc' \in {"closed", "loop", "write"} /\ (wpc' # "write" => saving = <<>> /\ wpc' = After)
      /\ UNCHANGED <<free, count, buf, thread, final, file, stop, late>>
  BY DEF Swap, After
<1>2. TypeOK
  BY DEF HoldInv
<1>3. TypeOK'
  <2>1. saving' \in Seq(Buffers) /\ batch' \in Seq(Buffers) /\ done' \in 0 .. Len(batch')
    BY <1>1, <1>2, EmptySeq, LenProperties DEF TypeOK
  <2> QED
    BY <1>1, <1>2, <2>1 DEF TypeOK, thread
<1>4. Writing = <<>> /\ Writing' = saving
  BY <1>1 DEF Writing, HoldInv, WriterInv
<1>5. OneHolder'
  <2>1. Apart(free, saving, <<>>, cur, count)
    BY <1>2, <1>4, HolderNow DEF HoldInv
  <2>2. free \in Seq(Buffers) /\ saving \in Seq(Buffers) /\ cur \in Holders /\ count \in Nat
    BY <1>2, WritingTypes DEF TypeOK
  <2>3. Apart(free, <<>>, saving, cur, count)
    BY <2>1, <2>2, ApartSwap
  <2>4. free' = free /\ saving' = <<>> /\ Writing' = saving /\ cur' = cur /\ count' = count
    BY <1>1, <1>4 DEF thread
  <2>5. Apart(free', saving', Writing', cur', count')
    BY <2>3, <2>4
  <2> QED
    BY <1>3, <2>5, HolderNext
<1>6. ThreadInv'
  BY <1>1 DEF HoldInv, ThreadInv, ThreadAt, thread
<1>7. WriterInv'
  BY <1>1, <1>4, EmptyIds DEF HoldInv, WriterInv, After
<1> QED
  BY <1>3, <1>5, <1>6, <1>7 DEF HoldInv

LEMMA HoldWrite ==
  ASSUME HoldInv, Write
  PROVE  HoldInv'
<1>1. /\ wpc = "write" /\ done < Len(batch) /\ done' = done + 1
      /\ file' = Append(file, TextOf(batch[done + 1]))
      /\ UNCHANGED <<list, buf, thread, wpc, batch, final, stop, late>>
  BY DEF Write
<1>2. TypeOK /\ Writing = batch /\ Len(batch) \in Nat
  BY <1>1, LenProperties DEF HoldInv, TypeOK, Writing
<1>3. done + 1 \in 1 .. Len(batch) /\ batch[done + 1] \in Buffers
  BY <1>1, <1>2, ElementOfSeq DEF TypeOK
<1>4. buf[batch[done + 1]].by \in Loggers
  <2>1. batch[done + 1] \in IdsOf(Writing)
    BY <1>2, <1>3, LenProperties DEF IdsOf, TypeOK
  <2> QED
    BY <2>1 DEF HoldInv, WriterInv
<1>5. TypeOK'
  <2>1. TextOf(batch[done + 1]) \in [by : Loggers, parts : SUBSET (1 .. Parts)]
    BY <1>2, <1>3, <1>4 DEF TextOf, TypeOK
  <2>2. file' \in Seq([by : Loggers, parts : SUBSET (1 .. Parts)])
    BY <1>1, <1>2, <2>1, AppendProperties DEF TypeOK
  <2>3. done' \in 0 .. Len(batch)
    BY <1>1, <1>2, <1>3 DEF TypeOK
  <2> QED
    BY <1>1, <1>2, <2>2, <2>3 DEF TypeOK, list, thread
<1>6. Writing' = Writing
  BY <1>1 DEF Writing
<1>7. OneHolder'
  BY <1>1, <1>6 DEF HoldInv, OneHolder, Held, list, thread
<1>8. ThreadInv'
  BY <1>1 DEF HoldInv, ThreadInv, ThreadAt, thread
<1>9. WriterInv'
  BY <1>1, <1>6 DEF HoldInv, WriterInv, list
<1> QED
  BY <1>5, <1>7, <1>8, <1>9 DEF HoldInv

LEMMA HoldReturn ==
  ASSUME HoldInv, Return
  PROVE  HoldInv'
<1>1. /\ wpc = "write" /\ done = Len(batch) /\ free' = free \o batch /\ wpc' = "notify"
      /\ UNCHANGED <<saving, count, buf, thread, batch, done, final, file, stop, late>>
  BY DEF Return
<1>2. TypeOK /\ Writing = batch /\ Writing' = <<>>
  BY <1>1 DEF HoldInv, Writing
<1>3. free' \in Seq(Buffers) /\ Apart(free', saving, <<>>, cur, count)
  <2>1. Apart(free, saving, batch, cur, count)
    BY <1>2, HolderNow DEF HoldInv
  <2>2. /\ free \in Seq(Buffers) /\ saving \in Seq(Buffers) /\ batch \in Seq(Buffers)
        /\ cur \in Holders /\ count \in Nat
    BY <1>2, WritingTypes DEF TypeOK
  <2> QED
    BY <1>1, <2>1, <2>2, ApartReturn
<1>4. TypeOK'
  BY <1>1, <1>2, <1>3 DEF TypeOK, thread
<1>5. OneHolder'
  <2>1. saving' = saving /\ Writing' = <<>> /\ cur' = cur /\ count' = count
    BY <1>1, <1>2 DEF thread
  <2>2. Apart(free', saving', Writing', cur', count')
    BY <1>3, <2>1
  <2> QED
    BY <1>4, <2>2, HolderNext
<1>6. ThreadInv'
  BY <1>1 DEF HoldInv, ThreadInv, ThreadAt, thread
<1>7. WriterInv'
  BY <1>1, <1>2, EmptyIds DEF HoldInv, WriterInv
<1> QED
  BY <1>4, <1>5, <1>6, <1>7 DEF HoldInv

LEMMA HoldNotify ==
  ASSUME HoldInv, Notify
  PROVE  HoldInv'
<1>1. PICK W \in SUBSET Waiting : pc' = [l \in Loggers |-> IF l \in W THEN "take" ELSE pc[l]]
  BY DEF Notify
<1>2. /\ wpc = "notify" /\ batch' = <<>> /\ done' = 0 /\ wpc' = After
      /\ UNCHANGED <<list, buf, back, cur, next, final, file, stop, late>>
  BY DEF Notify
<1>3. TypeOK
  BY DEF HoldInv
<1>4. TypeOK'
  <2>1. batch' \in Seq(Buffers) /\ done' \in 0 .. Len(batch')
    BY <1>2, EmptySeq
  <2>2. /\ wpc' \in {"loop", "closed"}
        /\ pc' \in [Loggers -> {"idle", "take", "wait", "check", "flush", "grab", "append", "finish"}]
    BY <1>1, <1>2, <1>3 DEF TypeOK, After
  <2> QED
    BY <1>2, <1>3, <2>1, <2>2 DEF TypeOK, list
<1>5. Writing = <<>> /\ Writing' = <<>>
  BY <1>2 DEF Writing, After
<1>6. OneHolder'
  BY <1>2, <1>5 DEF HoldInv, OneHolder, Held, list
<1>7. ThreadInv'
  <2>1. ASSUME NEW l \in Loggers PROVE ThreadAt(l)'
    <3>1. ThreadAt(l)
      BY DEF HoldInv, ThreadInv
    <3>2. pc'[l] = pc[l] \/ (pc[l] = "wait" /\ pc'[l] = "take")
      BY <1>1, <1>3 DEF TypeOK, Waiting
    <3> QED
      BY <1>2, <3>1, <3>2 DEF ThreadAt
  <2> QED
    BY <2>1 DEF ThreadInv
<1>8. WriterInv'
  BY <1>2, <1>5, EmptyIds DEF HoldInv, WriterInv, After, list
<1> QED
  BY <1>4, <1>6, <1>7, <1>8 DEF HoldInv

LEMMA HoldStep == HoldInv /\ [Next]_vars => HoldInv'
<1> SUFFICES ASSUME HoldInv, [Next]_vars PROVE HoldInv'
  OBVIOUS
<1>1. CASE WriterStep
  BY <1>1, HoldIdle, HoldSwap, HoldWrite, HoldReturn, HoldNotify DEF WriterStep
<1>2. CASE Stop
  BY <1>2, HoldIdle
<1>3. ASSUME NEW l \in Loggers, LogStep(l) \/ Spurious(l) PROVE HoldInv'
  BY <1>3, HoldTurn, HoldTake, HoldHand, HoldGrab, HoldLog DEF LogStep
<1>4. CASE UNCHANGED vars
  <2>1. UNCHANGED <<list, buf, thread, writer, stop, late>>
    BY <1>4 DEF vars
  <2>2. Writing' = Writing
    BY <2>1 DEF Writing, writer
  <2>3. TypeOK' /\ OneHolder'
    BY <2>1, <2>2 DEF HoldInv, TypeOK, OneHolder, Held, list, thread, writer
  <2>4. ThreadInv'
    BY <2>1 DEF HoldInv, ThreadInv, ThreadAt, thread
  <2>5. WriterInv'
    BY <2>1, <2>2 DEF HoldInv, WriterInv, list, writer
  <2> QED
    BY <2>3, <2>4, <2>5 DEF HoldInv
<1> QED
  BY <1>1, <1>2, <1>3, <1>4 DEF Next

-----------------------------------------------------------------------------
LEMMA AwakeTypes ==
  /\ IsFiniteSet(Awake) /\ Cardinality(Awake) \in Nat
  /\ IsFiniteSet(Awake') /\ Cardinality(Awake') \in Nat
<1>1. Awake \in SUBSET Loggers /\ Awake' \in SUBSET Loggers
  BY DEF Awake
<1> QED
  BY <1>1, FS_Subset, FS_CardinalityType, LogAssumption

LEMMA ReturnedTypes == HoldInv => Returned \in Nat /\ Len(free) \in Nat
BY LenProperties DEF HoldInv, TypeOK, Returned

(* Steps that wake threads, if anything, and leave the pool alone.         *)
LEMMA WakeMore ==
  ASSUME HoldInv, WakeInv, free' = free, Returned' = Returned,
         Awake \subseteq Awake', Waiting' \subseteq Waiting
  PROVE  WakeInv'
<1>1. Cardinality(Awake) <= Cardinality(Awake')
  BY AwakeTypes, FS_Subset
<1>2. SUFFICES ASSUME Waiting' # {} PROVE Len(free') <= Cardinality(Awake') + Returned'
  BY DEF WakeInv
<1>3. Len(free) <= Cardinality(Awake) + Returned
  BY <1>2 DEF WakeInv
<1> QED
  BY <1>1, <1>3, AwakeTypes, ReturnedTypes

(* One thread fewer in need, one buffer fewer in the pool.                 *)
LEMMA WakePop ==
  ASSUME HoldInv, WakeInv, NEW l \in Loggers, pc[l] \in {"take", "grab"}, Pop(l), Returned' = Returned
  PROVE  WakeInv'
<1>1. /\ free # <<>> /\ free' = SubSeq(free, 1, Len(free) - 1)
      /\ pc' = [pc EXCEPT ![l] = back[l]] /\ back[l] \in {"check", "append"}
  BY DEF Pop, Obtain, HoldInv, TypeOK
<1>2. Awake' = Awake \ {l} /\ l \in Awake /\ Waiting' \subseteq Waiting
  BY <1>1 DEF Awake, Waiting, HoldInv, TypeOK
<1>3. Cardinality(Awake') = Cardinality(Awake) - 1
  BY <1>2, AwakeTypes, FS_RemoveElement
<1>4. Len(free') = Len(free) - 1
  BY <1>1, FrontIds DEF HoldInv, TypeOK
<1>5. SUFFICES ASSUME Waiting' # {} PROVE Len(free') <= Cardinality(Awake') + Returned'
  BY DEF WakeInv
<1>6. Len(free) <= Cardinality(Awake) + Returned
  BY <1>2, <1>5 DEF WakeInv
<1> QED
  BY <1>3, <1>4, <1>6, AwakeTypes, ReturnedTypes

LEMMA WakeEmpty ==
  ASSUME HoldInv, free' = <<>>, Returned' = Returned
  PROVE  WakeInv'
<1>1. Len(free') = 0 /\ Returned' \in Nat
  BY ReturnedTypes, EmptySeq
<1> QED
  BY <1>1, AwakeTypes DEF WakeInv

LEMMA WakeLogStep ==
  ASSUME HoldInv, WakeInv, NEW l \in Loggers, LogStep(l) \/ Spurious(l)
  PROVE  WakeInv'
<1>1. UNCHANGED <<wpc, batch>>
  BY DEF LogStep, Begin, Take, Full, Flush, Grab, Log, Finish, Spurious, writer
<1>2. Returned' = Returned
  BY <1>1 DEF Returned
<1>3. CASE Begin(l) \/ Full(l) \/ Flush(l) \/ Log(l) \/ Finish(l) \/ Spurious(l)
  <2>1. free' = free
    BY <1>3 DEF Begin, Full, Flush, Log, Finish, Spurious, list
  <2>2. \A k \in Loggers \ {l} : pc'[k] = pc[k]
    BY <1>3 DEF Begin, Full, Flush, Log, Finish, Spurious, HoldInv, TypeOK
  <2>3. pc[l] \notin {"take", "grab"} /\ pc'[l] # "wait"
    BY <1>3 DEF Begin, Full, Flush, Log, Finish, Spurious, HoldInv, TypeOK
  <2>4. Awake \subseteq Awake' /\ Waiting' \subseteq Waiting
    BY <2>2, <2>3 DEF Awake, Waiting
  <2> QED
    BY <1>2, <2>1, <2>4, WakeMore
<1>4. CASE Take(l)
  <2>1. CASE Pop(l)
    BY <1>2, <1>4, <2>1, WakePop DEF Take
  <2>2. CASE ~Pop(l)
    BY <1>2, <1>4, <2>2, WakeEmpty DEF Take, Alloc
  <2> QED
    BY <2>1, <2>2
<1>5. CASE Grab(l)
  <2>1. CASE Pop(l)
    BY <1>2, <1>5, <2>1, WakePop DEF Grab
  <2>2. CASE ~Pop(l)
    BY <1>2, <1>5, <2>2, WakeEmpty DEF Grab
  <2> QED
    BY <2>1, <2>2
<1> QED
  BY <1>3, <1>4, <1>5 DEF LogStep

LEMMA WakeReturn ==
  ASSUME HoldInv, WakeInv, Return
  PROVE  WakeInv'
<1>1. /\ wpc = "write" /\ free' = free \o batch /\ wpc' = "notify"
      /\ pc' = pc /\ batch' = batch
  BY DEF Return, thread
<1>2. Awake' = Awake /\ Waiting' = Waiting /\ Returned = 0 /\ Returned' = Len(batch)
  BY <1>1 DEF Awake, Waiting, Returned
<1>3. Len(free') = Len(free) + Len(batch) /\ Len(free) \in Nat /\ Len(batch) \in Nat
  BY <1>1, ConcatProperties, LenProperties DEF HoldInv, TypeOK
<1>4. SUFFICES ASSUME Waiting' # {} PROVE Len(free') <= Cardinality(Awake') + Returned'
  BY DEF WakeInv
<1>5. Len(free) <= Cardinality(Awake) + Returned
  BY <1>2, <1>4 DEF WakeInv
<1> QED
  BY <1>2, <1>3, <1>5, AwakeTypes

(* One notification for one buffer, else everybody is told.                *)
LEMMA WakeNotify ==
  ASSUME HoldInv, WakeInv, Notify
  PROVE  WakeInv'
<1>1. PICK W \in SUBSET Waiting :
        /\ IF Len(batch) > 1 THEN W = Waiting
           ELSE Cardinality(W) <= 1 /\ (W = {} => Waiting = {})
        /\ pc' = [l \in Loggers |-> IF l \in W THEN "take" ELSE pc[l]]
  BY DEF Notify
<1>2. /\ wpc = "notify" /\ wpc' # "notify" /\ free' = free
      /\ Len(batch) \in Nat
  BY LenProperties DEF Notify, After, list, HoldInv, TypeOK
<1>3. Awake' = Awake \cup W /\ Awake \cap W = {} /\ Waiting' = Waiting \ W
  BY <1>1 DEF Awake, Waiting
<1>4. Returned = Len(batch) /\ Returned' = 0
  BY <1>2 DEF Returned
<1>5. SUFFICES ASSUME Waiting' # {} PROVE Len(free') <= Cardinality(Awake') + Returned'
  BY DEF WakeInv
<1>6. Len(batch) <= 1 /\ Waiting # {} /\ W # {}
  BY <1>1, <1>2, <1>3, <1>5
<1>7. Len(free) <= Cardinality(Awake) + Len(batch)
  BY <1>4, <1>6 DEF WakeInv
<1>8. PICK l \in W : l \notin Awake
  BY <1>3, <1>6
<1>9. Cardinality(Awake \cup {l}) = Cardinality(Awake) + 1
  BY <1>8, AwakeTypes, FS_AddElement
<1>10. Cardinality(Awake \cup {l}) <= Cardinality(Awake')
  BY <1>3, <1>8, AwakeTypes, FS_Subset
<1>11. Len(free) \in Nat
  BY ReturnedTypes
<1> QED
  BY <1>2, <1>4, <1>6, <1>7, <1>9, <1>10, <1>11, AwakeTypes

LEMMA WakeStep == HoldInv /\ WakeInv /\ [Next]_vars => WakeInv'
<1> SUFFICES ASSUME HoldInv, WakeInv, [Next]_vars PROVE WakeInv'
  OBVIOUS
<1>1. ASSUME UNCHANGED <<free, pc>>,
             (wpc # "notify" /\ wpc' # "notify") \/ UNCHANGED <<wpc, batch>>
      PROVE  WakeInv'
  <2>1. Returned' = Returned /\ Awake' = Awake /\ Waiting' = Waiting
    BY <1>1 DEF Returned, Awake, Waiting
  <2> QED
    BY <1>1, <2>1, WakeMore
<1>2. CASE Open \/ Loop \/ Swap \/ Write \/ Stop \/ UNCHANGED vars
  <2>1. UNCHANGED <<free, pc>>
    BY <1>2 DEF Open, Loop, Swap, Write, Stop, vars, list, thread
  <2>2. (wpc # "notify" /\ wpc' # "notify") \/ UNCHANGED <<wpc, batch>>
    BY <1>2 DEF Open, Loop, Swap, Write, Stop, After, vars, writer
  <2> QED
    BY <1>1, <2>1, <2>2
<1>3. CASE Return
  BY <1>3, WakeReturn
<1>4. CASE Notify
  BY <1>4, WakeNotify
<1>5. ASSUME NEW l \in Loggers, LogStep(l) \/ Spurious(l) PROVE WakeInv'
  BY <1>5, WakeLogStep
<1> QED
  BY <1>2, <1>3, <1>4, <1>5 DEF Next, WriterStep

LEMMA WakeInit == Init => WakeInv
<1>1. Init => Waiting = {}
  BY DEF Init, Waiting
<1> QED
  BY <1>1 DEF WakeInv
-----------------------------------------------------------------------------
(* The texts on their way, of a writer's list w of which d are written, a  *)
(* saving list s and buffers f.                                            *)
Text == [by : Loggers, parts : SUBSET (1 .. Parts)]

RestOf(w, d, s) == SubSeq(w, d + 1, Len(w)) \o s

TextIn(f, b) == [by |-> f[b].by, parts |-> f[b].parts]

TextsIn(f, s) == [i \in DOMAIN s |-> TextIn(f, s[i])]

Queue == Texts(Rest)

LEMMA QueueIs == Queue = TextsIn(buf, RestOf(Writing, done, saving))
BY DEF Queue, Texts, TextOf, Rest, RestOf, TextsIn, TextIn

LEMMA QueueNext == Queue' = TextsIn(buf', RestOf(Writing', done', saving'))
BY DEF Queue, Texts, TextOf, Rest, RestOf, TextsIn, TextIn

LEMMA LeftOver ==
  ASSUME NEW w \in Seq(Buffers), NEW d \in Nat
  PROVE  /\ SubSeq(w, d + 1, Len(w)) \in Seq(Buffers)
         /\ IdsOf(SubSeq(w, d + 1, Len(w))) \subseteq IdsOf(w)
         /\ d >= Len(w) => SubSeq(w, d + 1, Len(w)) = <<>>
         /\ d = 0 => SubSeq(w, d + 1, Len(w)) = w
         /\ d < Len(w) =>
              /\ SubSeq(w, d + 1, Len(w)) # <<>>
              /\ Head(SubSeq(w, d + 1, Len(w))) = w[d + 1]
              /\ Tail(SubSeq(w, d + 1, Len(w))) = SubSeq(w, (d + 1) + 1, Len(w))
<1> DEFINE n == Len(w)
           u == SubSeq(w, d + 1, n)
<1>1. n \in Nat /\ DOMAIN w = 1 .. n /\ \A i \in 1 .. n : w[i] \in Buffers
  BY LenProperties, ElementOfSeq
<1>2. /\ u \in Seq(Buffers)
      /\ Len(u) = IF d + 1 <= n THEN n - (d + 1) + 1 ELSE 0
      /\ \A i \in 1 .. n - (d + 1) + 1 : u[i] = w[(d + 1) + i - 1]
  <2>1. d + 1 \in Int /\ n \in Int /\ \A i \in (d + 1) .. n : w[i] \in Buffers
    BY <1>1
  <2> QED
    BY <2>1, SubSeqProperties
<1>3. DOMAIN u = 1 .. Len(u) /\ Len(u) \in Nat
  BY <1>2, LenProperties
<1> HIDE DEF u, n
<1>4. IdsOf(u) \subseteq IdsOf(w)
  <2>1. ASSUME NEW i \in DOMAIN u PROVE u[i] \in IdsOf(w)
    <3>1. i \in 1 .. n - (d + 1) + 1 /\ (d + 1) + i - 1 \in 1 .. n
      BY <1>1, <1>2, <1>3
    <3> QED
      BY <1>1, <1>2, <3>1 DEF IdsOf
  <2> QED
    BY <2>1 DEF IdsOf
<1>5. d >= n => u = <<>>
  BY <1>1, <1>2, EmptySeq
<1>6. d = 0 => u = w
  BY <1>1, <1>2, SeqEqual DEF n
<1>7. ASSUME d < n
      PROVE  u # <<>> /\ Head(u) = w[d + 1] /\ Tail(u) = SubSeq(w, (d + 1) + 1, n)
  <2>1. d + 1 \in 1 .. n /\ Len(u) > 0
    BY <1>1, <1>2, <1>7
  <2>2. u # <<>>
    BY <2>1, EmptySeq
  <2>3. Head(u) = w[d + 1]
    <3>1. Head(u) = u[1] /\ 1 \in 1 .. n - (d + 1) + 1 /\ (d + 1) + 1 - 1 = d + 1
      BY <1>1, <1>2, <1>7, <2>2, HeadTailProperties
    <3> QED
      BY <1>2, <3>1
  <2>4. Tail(u) = SubSeq(w, (d + 1) + 1, n)
    BY <2>1, HeadTailOfSubSeq, <1>1 DEF u, n
  <2> QED
    BY <2>2, <2>3, <2>4
<1> QED
  BY <1>2, <1>4, <1>5, <1>6, <1>7 DEF u, n

LEMMA RestTypes ==
  ASSUME NEW w \in Seq(Buffers), NEW d \in Nat, NEW s \in Seq(Buffers)
  PROVE  /\ RestOf(w, d, s) \in Seq(Buffers)
         /\ IdsOf(RestOf(w, d, s)) \subseteq IdsOf(s) \cup IdsOf(w)
<1> DEFINE u == SubSeq(w, d + 1, Len(w))
<1>1. u \in Seq(Buffers) /\ IdsOf(u) \subseteq IdsOf(w)
  BY LeftOver
<1> HIDE DEF u
<1>2. u \o s \in Seq(Buffers) /\ IdsOf(u \o s) = IdsOf(u) \cup IdsOf(s)
  BY <1>1, ConcatIds
<1> QED
  BY <1>1, <1>2 DEF RestOf, u

LEMMA TextsTypes ==
  ASSUME NEW s \in Seq(Buffers), NEW f,
         f \in [Buffers -> [by : Loggers \cup {None}, parts : SUBSET (1 .. Parts), len : Nat]],
         \A b \in IdsOf(s) : f[b].by \in Loggers
  PROVE  TextsIn(f, s) \in Seq(Text) /\ Len(TextsIn(f, s)) = Len(s)
<1>1. Len(s) \in Nat /\ DOMAIN s = 1 .. Len(s) /\ \A i \in 1 .. Len(s) : s[i] \in Buffers
  BY LenProperties, ElementOfSeq
<1>2. \A i \in 1 .. Len(s) : TextIn(f, s[i]) \in Text
  BY <1>1 DEF TextIn, Text, IdsOf
<1>3. TextsIn(f, s) \in [1 .. Len(s) -> Text]
  BY <1>1, <1>2 DEF TextsIn
<1>4. TextsIn(f, s) \in Seq(Text)
  BY <1>1, <1>3, SeqDef
<1> QED
  BY <1>1, <1>3, <1>4, LenProperties

LEMMA TextsSame ==
  ASSUME NEW s \in Seq(Buffers), NEW f, NEW g, \A b \in IdsOf(s) : g[b] = f[b]
  PROVE  TextsIn(g, s) = TextsIn(f, s)
<1>1. \A i \in DOMAIN s : TextIn(g, s[i]) = TextIn(f, s[i])
  BY DEF TextIn, IdsOf
<1> QED
  BY <1>1 DEF TextsIn

LEMMA TextsAppend ==
  ASSUME NEW s \in Seq(Buffers), NEW f, NEW b \in Buffers,
         f \in [Buffers -> [by : Loggers \cup {None}, parts : SUBSET (1 .. Parts), len : Nat]],
         \A a \in IdsOf(s) \cup {b} : f[a].by \in Loggers
  PROVE  TextsIn(f, Append(s, b)) = Append(TextsIn(f, s), TextIn(f, b))
<1> DEFINE t == Append(s, b)
           x == TextsIn(f, s)
           y == TextsIn(f, t)
<1>1. /\ t \in Seq(Buffers) /\ IdsOf(t) = IdsOf(s) \cup {b}
      /\ Len(t) = Len(s) + 1 /\ t[Len(s) + 1] = b /\ \A i \in 1 .. Len(s) : t[i] = s[i]
      /\ Len(s) \in Nat /\ DOMAIN s = 1 .. Len(s)
  BY AppendIds, AppendProperties, LenProperties
<1>2. x \in Seq(Text) /\ Len(x) = Len(s)
  BY TextsTypes
<1> HIDE DEF t
<1>3. y \in Seq(Text) /\ Len(y) = Len(t) /\ DOMAIN t = 1 .. Len(t)
  BY <1>1, TextsTypes, LenProperties
<1>4. TextIn(f, b) \in Text
  BY DEF TextIn, Text
<1>5. /\ Append(x, TextIn(f, b)) \in Seq(Text) /\ Len(Append(x, TextIn(f, b))) = Len(s) + 1
      /\ \A i \in 1 .. Len(s) : Append(x, TextIn(f, b))[i] = x[i]
      /\ Append(x, TextIn(f, b))[Len(s) + 1] = TextIn(f, b)
  BY <1>2, <1>4, AppendProperties
<1>6. ASSUME NEW i \in 1 .. Len(y) PROVE y[i] = Append(x, TextIn(f, b))[i]
  <2>1. y[i] = TextIn(f, t[i])
    BY <1>3 DEF TextsIn
  <2>2. CASE i \in 1 .. Len(s)
    <3>1. x[i] = TextIn(f, s[i])
      BY <1>1, <2>2 DEF TextsIn
    <3> QED
      BY <1>1, <1>5, <2>1, <2>2, <3>1
  <2>3. CASE i = Len(s) + 1
    BY <1>1, <1>5, <2>1, <2>3
  <2>4. i \in 1 .. Len(s) \/ i = Len(s) + 1
    BY <1>1, <1>3
  <2> QED
    BY <2>2, <2>3, <2>4
<1> HIDE DEF x, y
<1>7. y = Append(x, TextIn(f, b))
  BY <1>1, <1>3, <1>5, <1>6, SeqEqual
<1> QED
  BY <1>7 DEF x, y, t

LEMMA TextsTail ==
  ASSUME NEW s \in Seq(Buffers), s # <<>>, NEW f,
         f \in [Buffers -> [by : Loggers \cup {None}, parts : SUBSET (1 .. Parts), len : Nat]],
         \A b \in IdsOf(s) : f[b].by \in Loggers
  PROVE  /\ TextsIn(f, s) # <<>>
         /\ Head(TextsIn(f, s)) = TextIn(f, Head(s))
         /\ Tail(TextsIn(f, s)) = TextsIn(f, Tail(s))
<1> DEFINE x == TextsIn(f, s)
           t == Tail(s)
           n == Len(s)
<1>1. /\ n \in Nat \ {0} /\ DOMAIN s = 1 .. n /\ Head(s) = s[1]
      /\ t \in Seq(Buffers) /\ Len(t) = n - 1 /\ DOMAIN t = 1 .. Len(t)
      /\ \A i \in 1 .. Len(t) : t[i] = s[i + 1]
  BY HeadTailProperties, LenProperties, EmptySeq
<1> HIDE DEF n, t
<1>2. \A b \in IdsOf(t) : f[b].by \in Loggers
  <2>1. SUFFICES ASSUME NEW i \in 1 .. Len(t) PROVE f[t[i]].by \in Loggers
    BY <1>1 DEF IdsOf
  <2>2. i + 1 \in 1 .. n
    BY <1>1
  <2>3. t[i] = s[i + 1] /\ s[i + 1] \in IdsOf(s)
    BY <1>1, <2>2 DEF IdsOf
  <2> QED
    BY <2>3
<1>3. x \in Seq(Text) /\ Len(x) = n /\ \A i \in 1 .. n : x[i] = TextIn(f, s[i])
  BY <1>1, TextsTypes DEF TextsIn, n
<1>4. /\ TextsIn(f, t) \in Seq(Text) /\ Len(TextsIn(f, t)) = n - 1
      /\ \A i \in 1 .. n - 1 : TextsIn(f, t)[i] = TextIn(f, t[i])
  BY <1>1, <1>2, TextsTypes DEF TextsIn
<1> HIDE DEF x
<1>5. x # <<>>
  BY <1>1, <1>3, EmptySeq
<1>6. /\ Tail(x) \in Seq(Text) /\ Len(Tail(x)) = n - 1 /\ Head(x) = x[1]
      /\ \A i \in 1 .. Len(Tail(x)) : Tail(x)[i] = x[i + 1]
  BY <1>3, <1>5, HeadTailProperties
<1>7. ASSUME NEW i \in 1 .. n - 1 PROVE Tail(x)[i] = TextsIn(f, t)[i]
  <2>1. i + 1 \in 1 .. n
    BY <1>1
  <2>2. Tail(x)[i] = TextIn(f, s[i + 1])
    BY <1>3, <1>6, <2>1
  <2> QED
    BY <1>1, <1>4, <2>2
<1>8. Tail(x) = TextsIn(f, t)
  BY <1>4, <1>6, <1>7, SeqEqual
<1>9. Head(x) = TextIn(f, Head(s))
  BY <1>1, <1>3, <1>6
<1> QED
  BY <1>5, <1>8, <1>9 DEF x, t
-----------------------------------------------------------------------------
(* What a step does to the queue and to the file.                          *)
QueueSame     == Queue' = Queue /\ file' = file
QueuePut(l)   == Queue' = Append(Queue, TextOf(cur[l])) /\ file' = file
QueueWritten  == Queue # <<>> /\ Queue' = Tail(Queue) /\ file' = Append(file, Head(Queue))

LEMMA QueueTypes ==
  ASSUME HoldInv
  PROVE  /\ buf \in [Buffers -> [by : Loggers \cup {None}, parts : SUBSET (1 .. Parts), len : Nat]]
         /\ saving \in Seq(Buffers) /\ Writing \in Seq(Buffers) /\ done \in Nat
         /\ RestOf(Writing, done, saving) \in Seq(Buffers)
         /\ \A b \in IdsOf(RestOf(Writing, done, saving)) :
              /\ b \in Buffers /\ b \notin HeldIn(cur)
              /\ b \in IdsOf(saving) \cup IdsOf(Writing)
              /\ buf[b].by \in Loggers
         /\ Queue \in Seq(Text) /\ file \in Seq(Text)
<1> DEFINE r == RestOf(Writing, done, saving)
<1>1. /\ buf \in [Buffers -> [by : Loggers \cup {None}, parts : SUBSET (1 .. Parts), len : Nat]]
      /\ saving \in Seq(Buffers) /\ Writing \in Seq(Buffers) /\ done \in Nat
      /\ file \in Seq(Text)
  BY WritingTypes, LenProperties DEF HoldInv, TypeOK, Text
<1>2. r \in Seq(Buffers) /\ IdsOf(r) \subseteq IdsOf(saving) \cup IdsOf(Writing)
  BY <1>1, RestTypes
<1> HIDE DEF r
<1>3. Apart(free, saving, Writing, cur, count)
  BY HolderNow DEF HoldInv
<1>4. \A b \in IdsOf(r) : b \in Buffers
  BY <1>2 DEF IdsOf
<1>5. \A b \in IdsOf(r) : b \notin HeldIn(cur) /\ b \in IdsOf(saving) \cup IdsOf(Writing)
  BY <1>2, <1>3 DEF Apart
<1>6. \A b \in IdsOf(r) : buf[b].by \in Loggers
  BY <1>5 DEF HoldInv, WriterInv
<1>7. Queue \in Seq(Text)
  BY <1>1, <1>2, <1>6, TextsTypes, QueueIs DEF r
<1> QED
  BY <1>1, <1>2, <1>4, <1>5, <1>6, <1>7 DEF r

(* What is handed over is not changed by the threads.                      *)
LEMMA BufKept ==
  ASSUME HoldInv, NEW l \in Loggers, LogStep(l) \/ Spurious(l),
         NEW b \in IdsOf(saving) \cup IdsOf(Writing)
  PROVE  buf'[b] = buf[b]
<1>1. /\ TypeOK /\ buf \in [Buffers -> [by : Loggers \cup {None}, parts : SUBSET (1 .. Parts), len : Nat]]
      /\ Apart(free, saving, Writing, cur, count) /\ b \in Buffers
  <2>1. TypeOK /\ Apart(free, saving, Writing, cur, count)
    BY HolderNow DEF HoldInv
  <2>2. saving \in Seq(Buffers) /\ Writing \in Seq(Buffers)
    BY <2>1, WritingTypes DEF TypeOK
  <2>3. b \in Buffers
    BY <2>2 DEF IdsOf
  <2>4. buf \in [Buffers -> [by : Loggers \cup {None}, parts : SUBSET (1 .. Parts), len : Nat]]
    BY <2>1 DEF TypeOK
  <2> QED
    BY <2>1, <2>3, <2>4
<1>2. b \notin HeldIn(cur)
  BY <1>1 DEF Apart
<1>3. CASE UNCHANGED buf
  BY <1>3
<1>4. CASE Log(l)
  <2>1. cur[l] # None
    BY <1>4 DEF Log, HoldInv, ThreadInv, ThreadAt
  <2>2. cur[l] \in HeldIn(cur)
    BY <2>1 DEF HeldIn
  <2> QED
    BY <1>1, <1>2, <1>4, <2>2 DEF Log
<1>5. ASSUME Pop(l) PROVE buf'[b] = buf[b]
  <2>1. free # <<>> /\ free \in Seq(Buffers)
    BY <1>1, <1>5 DEF Pop, TypeOK
  <2>2. free[Len(free)] \in IdsOf(free)
    BY <2>1, FrontIds
  <2>3. free[Len(free)] # b
    BY <1>1, <2>2 DEF Apart
  <2> QED
    BY <1>1, <1>5, <2>3 DEF Pop, Obtain
<1>6. ASSUME Alloc(l) PROVE buf'[b] = buf[b]
  <2> DEFINE a == CHOOSE x \in Buffers : x \notin Allocated
  <2>1. a \notin Allocated /\ Obtain(l, a)
    BY <1>6 DEF Alloc
  <2> HIDE DEF a
  <2>2. b \in Allocated
    BY EmptyIds DEF Allocated, Writing
  <2> QED
    BY <1>1, <2>1, <2>2 DEF Obtain
<1>7. CASE Take(l)
  BY <1>3, <1>5, <1>6, <1>7 DEF Take
<1>8. CASE Grab(l)
  BY <1>3, <1>5, <1>8 DEF Grab
<1>9. CASE Begin(l) \/ Full(l) \/ Flush(l) \/ Finish(l) \/ Spurious(l)
  BY <1>3, <1>9 DEF Begin, Full, Flush, Finish, Spurious
<1> QED
  BY <1>4, <1>7, <1>8, <1>9 DEF LogStep

LEMMA QueueKept ==
  ASSUME HoldInv, RestOf(Writing', done', saving') = RestOf(Writing, done, saving), file' = file,
         \A b \in IdsOf(saving) \cup IdsOf(Writing) : buf'[b] = buf[b]
  PROVE  QueueSame
<1> DEFINE r == RestOf(Writing, done, saving)
<1>1. r \in Seq(Buffers) /\ \A b \in IdsOf(r) : buf'[b] = buf[b]
  BY QueueTypes
<1> HIDE DEF r
<1>2. TextsIn(buf', r) = TextsIn(buf, r)
  BY <1>1, TextsSame
<1> QED
  BY <1>2, QueueIs, QueueNext DEF QueueSame, r

LEMMA QueueLogStep ==
  ASSUME HoldInv, NEW l \in Loggers, LogStep(l) \/ Spurious(l)
  PROVE  IF Flush(l) \/ Finish(l) THEN QueuePut(l) ELSE QueueSame
<1>1. TypeOK /\ buf \in [Buffers -> [by : Loggers \cup {None}, parts : SUBSET (1 .. Parts), len : Nat]]
  BY DEF HoldInv, TypeOK
<1>2. CASE Flush(l) \/ Finish(l)
  <2> DEFINE b == cur[l]
             r == RestOf(Writing, done, saving)
  <2>1. /\ b \in Buffers /\ buf[b].by \in Loggers
        /\ saving' = Append(saving, b) /\ buf' = buf /\ file' = file
        /\ Writing' = Writing /\ done' = done
    BY <1>1, <1>2 DEF HoldInv, TypeOK, ThreadInv, ThreadAt, Flush, Finish, writer, Writing
  <2>2. TextOf(b) = TextIn(buf, b)
    BY DEF TextOf, TextIn
  <2> HIDE DEF b
  <2>3. RestOf(Writing, done, Append(saving, b)) = Append(r, b)
    <3> DEFINE u == SubSeq(Writing, done + 1, Len(Writing))
    <3>1. u \in Seq(Buffers) /\ saving \in Seq(Buffers)
      BY QueueTypes, LeftOver
    <3> HIDE DEF u
    <3>2. u \o Append(saving, b) = Append(u \o saving, b)
      BY <2>1, <3>1, ConcatAppend
    <3> QED
      BY <3>2 DEF RestOf, u
  <2>4. r \in Seq(Buffers) /\ \A a \in IdsOf(r) \cup {b} : buf[a].by \in Loggers
    BY <2>1, QueueTypes
  <2> HIDE DEF r
  <2>5. TextsIn(buf, Append(r, b)) = Append(TextsIn(buf, r), TextIn(buf, b))
    BY <1>1, <2>1, <2>4, TextsAppend
  <2>6. Queue' = TextsIn(buf, Append(r, b)) /\ Queue = TextsIn(buf, r)
    BY <2>1, <2>3, QueueIs, QueueNext DEF r
  <2> QED
    BY <1>2, <2>1, <2>2, <2>5, <2>6 DEF QueuePut, b
<1>3. CASE ~(Flush(l) \/ Finish(l))
  <2>1. /\ saving' = saving /\ file' = file /\ Writing' = Writing /\ done' = done
    BY <1>3 DEF LogStep, Begin, Take, Full, Grab, Log, Spurious, list, writer, Writing
  <2>2. \A b \in IdsOf(saving) \cup IdsOf(Writing) : buf'[b] = buf[b]
    BY <1>3, BufKept
  <2> QED
    BY <1>3, <2>1, <2>2, QueueKept
<1> QED
  BY <1>2, <1>3

LEMMA QueueWrite ==
  ASSUME HoldInv, Write
  PROVE  QueueWritten
<1> DEFINE u == SubSeq(batch, done + 1, Len(batch))
           r == u \o saving
<1>1. /\ wpc = "write" /\ done < Len(batch) /\ done' = done + 1
      /\ file' = Append(file, TextOf(batch[done + 1]))
      /\ saving' = saving /\ buf' = buf /\ Writing = batch /\ Writing' = batch
  BY DEF Write, Writing, list
<1>2. batch \in Seq(Buffers) /\ saving \in Seq(Buffers) /\ done \in Nat
  BY <1>1, QueueTypes
<1>3. /\ u \in Seq(Buffers) /\ u # <<>> /\ Head(u) = batch[done + 1]
      /\ Tail(u) = SubSeq(batch, (done + 1) + 1, Len(batch))
  BY <1>1, <1>2, LeftOver
<1>4. Queue = TextsIn(buf, r) /\ Queue' = TextsIn(buf, Tail(u) \o saving)
  BY <1>1, <1>3, QueueIs, QueueNext DEF RestOf
<1>5. r \in Seq(Buffers) /\ \A b \in IdsOf(r) : buf[b].by \in Loggers
  BY <1>1, QueueTypes DEF RestOf
<1> HIDE DEF u
<1>6. r # <<>> /\ Head(r) = Head(u) /\ Tail(r) = Tail(u) \o saving
  <2>1. /\ Len(u) \in Nat \ {0} /\ Len(saving) \in Nat /\ Head(u) = u[1]
        /\ Tail(u) \in Seq(Buffers) /\ Len(Tail(u)) = Len(u) - 1
        /\ \A i \in 1 .. Len(Tail(u)) : Tail(u)[i] = u[i + 1]
    BY <1>2, <1>3, HeadTailProperties, LenProperties, EmptySeq
  <2> DEFINE m == Len(u)
             n == Len(saving)
             v == Tail(u) \o saving
  <2>2. /\ Len(r) = m + n
        /\ \A i \in 1 .. m + n : r[i] = IF i <= m THEN u[i] ELSE saving[i - m]
    BY <1>2, <1>3, ConcatProperties
  <2>3. /\ v \in Seq(Buffers) /\ Len(v) = (m - 1) + n
        /\ \A i \in 1 .. (m - 1) + n : v[i] = IF i <= m - 1 THEN Tail(u)[i] ELSE saving[i - (m - 1)]
    BY <1>2, <2>1, ConcatProperties
  <2> HIDE DEF r, v, m, n
  <2>4. m \in Nat \ {0} /\ n \in Nat
    BY <2>1 DEF m, n
  <2>5. r # <<>>
    BY <1>5, <2>2, <2>4, EmptySeq
  <2>6. /\ Head(r) = r[1] /\ Tail(r) \in Seq(Buffers) /\ Len(Tail(r)) = m + n - 1
        /\ \A i \in 1 .. m + n - 1 : Tail(r)[i] = r[i + 1]
    <3>1. /\ Head(r) = r[1] /\ Tail(r) \in Seq(Buffers) /\ Len(Tail(r)) = Len(r) - 1
          /\ \A i \in 1 .. Len(Tail(r)) : Tail(r)[i] = r[i + 1]
      BY <1>5, <2>5, HeadTailProperties
    <3> QED
      BY <2>2, <2>4, <3>1
  <2>7. r[1] = u[1]
    BY <2>2, <2>4
  <2>8. ASSUME NEW i \in 1 .. m + n - 1 PROVE Tail(r)[i] = v[i]
    <3>1. Tail(r)[i] = r[i + 1] /\ i + 1 \in 1 .. m + n /\ i \in 1 .. (m - 1) + n
      BY <2>4, <2>6
    <3>2. CASE i <= m - 1
      <4>1. i + 1 <= m /\ i \in 1 .. m - 1
        BY <2>4, <3>2
      <4>2. Tail(u)[i] = u[i + 1]
        BY <2>1, <4>1 DEF m
      <4> QED
        BY <2>2, <2>3, <3>1, <3>2, <4>1, <4>2
    <3>3. CASE ~(i <= m - 1)
      <4>1. ~(i + 1 <= m) /\ (i + 1) - m = i - (m - 1)
        BY <2>4, <3>3
      <4> QED
        BY <2>2, <2>3, <3>1, <3>3, <4>1
    <3> QED
      BY <3>2, <3>3
  <2>9. Len(v) = m + n - 1
    BY <2>3, <2>4
  <2>10. Tail(r) = v
    BY <2>3, <2>6, <2>8, <2>9, SeqEqual
  <2> QED
    BY <2>1, <2>5, <2>6, <2>7, <2>10 DEF v, r
<1>7. TextIn(buf, Head(u)) = TextOf(batch[done + 1])
  BY <1>3 DEF TextIn, TextOf
<1> HIDE DEF r
<1>8. /\ TextsIn(buf, r) # <<>>
      /\ Head(TextsIn(buf, r)) = TextIn(buf, Head(r))
      /\ Tail(TextsIn(buf, r)) = TextsIn(buf, Tail(r))
  BY <1>5, <1>6, QueueTypes, TextsTail
<1> QED
  BY <1>1, <1>4, <1>6, <1>7, <1>8 DEF QueueWritten

LEMMA QueueRest ==
  ASSUME HoldInv, Open \/ Loop \/ Swap \/ Return \/ Notify \/ Stop \/ UNCHANGED vars
  PROVE  QueueSame
<1>1. buf' = buf /\ file' = file
  BY DEF Open, Loop, Swap, Return, Notify, Stop, vars, writer
<1>2. /\ saving \in Seq(Buffers) /\ Writing \in Seq(Buffers) /\ done \in Nat
      /\ batch \in Seq(Buffers)
  BY QueueTypes DEF HoldInv, TypeOK
<1>3. ASSUME NEW w \in Seq(Buffers), NEW d \in Nat, d >= Len(w) PROVE RestOf(w, d, saving) = saving
  <2>1. SubSeq(w, d + 1, Len(w)) = <<>>
    BY <1>3, LeftOver
  <2> QED
    BY <1>2, <2>1, ConcatEmptySeq DEF RestOf
<1>4. Len(<<>>) = 0 /\ <<>> \in Seq(Buffers)
  BY EmptySeq
<1>5. ASSUME NEW d \in Nat PROVE RestOf(<<>>, d, saving) = saving
  <2>1. d >= Len(<<>>)
    BY <1>4
  <2> QED
    BY <1>3, <1>4, <2>1
<1>6. RestOf(Writing', done', saving') = RestOf(Writing, done, saving)
  <2>1. CASE Open \/ Loop \/ Stop \/ UNCHANGED vars
    <3>1. saving' = saving /\ Writing' = Writing /\ done' = done
      BY <2>1 DEF Open, Loop, Stop, vars, list, writer, Writing
    <3> QED
      BY <3>1
  <2>2. CASE Swap
    <3>1. Writing = <<>> /\ done = 0
      BY <2>2 DEF Swap, Writing, HoldInv, WriterInv
    <3>2. saving' = <<>> /\ done' = 0 /\ Writing' = saving
      BY <2>2 DEF Swap, Writing, After
    <3>3. RestOf(Writing, done, saving) = saving
      BY <1>5, <3>1
    <3>4. RestOf(saving, 0, <<>>) = saving
      <4>1. SubSeq(saving, 0 + 1, Len(saving)) = saving
        BY <1>2, LeftOver
      <4> QED
        BY <1>2, <4>1, ConcatEmptySeq DEF RestOf
    <3> QED
      BY <3>2, <3>3, <3>4
  <2>3. CASE Return
    <3>1. /\ Writing = batch /\ done = Len(batch) /\ saving' = saving
          /\ Writing' = <<>> /\ done' = done
      BY <2>3 DEF Return, Writing
    <3>2. RestOf(Writing, done, saving) = saving
      BY <1>2, <1>3, <3>1, LenProperties
    <3>3. RestOf(<<>>, done, saving) = saving
      BY <1>2, <1>5
    <3> QED
      BY <3>1, <3>2, <3>3
  <2>4. CASE Notify
    <3>1. Writing = <<>> /\ Writing' = <<>> /\ saving' = saving /\ done' = 0
      BY <2>4 DEF Notify, Writing, After, list
    <3>2. RestOf(<<>>, done, saving) = saving /\ RestOf(<<>>, 0, saving) = saving
      BY <1>2, <1>5
    <3> QED
      BY <3>1, <3>2
  <2> QED
    BY <2>1, <2>2, <2>3, <2>4
<1> QED
  BY <1>1, <1>6, QueueKept
-----------------------------------------------------------------------------
LEMMA StreamIs == Stream = file \o Queue /\ Stream' = file' \o Queue'
BY DEF Stream, Queue

LEMMA StreamTypes ==
  ASSUME HoldInv
  PROVE  /\ Stream \in Seq(Text) /\ Len(Stream) \in Nat /\ DOMAIN Stream = 1 .. Len(Stream)
         /\ \A i \in DOMAIN Stream : Stream[i] \in Text
         /\ \A l \in Loggers : InStream(l) \subseteq 1 .. Parts /\ InHand(l) \subseteq 1 .. Parts
<1>1. Stream \in Seq(Text)
  BY QueueTypes, StreamIs, ConcatProperties
<1>2. /\ Len(Stream) \in Nat /\ DOMAIN Stream = 1 .. Len(Stream)
      /\ \A i \in DOMAIN Stream : Stream[i] \in Text
  BY <1>1, LenProperties, ElementOfSeq
<1>3. ASSUME NEW l \in Loggers PROVE InStream(l) \subseteq 1 .. Parts
  BY <1>2 DEF InStream, PartsOf, Text
<1>4. ASSUME NEW l \in Loggers PROVE InHand(l) \subseteq 1 .. Parts
  BY DEF InHand, HoldInv, TypeOK
<1> QED
  BY <1>1, <1>2, <1>3, <1>4

LEMMA StreamSame ==
  ASSUME HoldInv, QueueSame \/ QueueWritten
  PROVE  Stream' = Stream
<1>1. CASE QueueSame
  BY <1>1, StreamIs DEF QueueSame
<1>2. CASE QueueWritten
  <2>1. Append(file, Head(Queue)) \o Tail(Queue) = file \o Queue
    BY <1>2, QueueTypes, ConcatMove DEF QueueWritten
  <2> QED
    BY <1>2, <2>1, StreamIs DEF QueueWritten
<1> QED
  BY <1>1, <1>2

LEMMA StreamPut ==
  ASSUME HoldInv, NEW l \in Loggers, cur[l] # None, QueuePut(l)
  PROVE  /\ Stream' = Append(Stream, TextOf(cur[l]))
         /\ TextOf(cur[l]) \in Text /\ TextOf(cur[l]).by = l /\ TextOf(cur[l]).parts = InHand(l)
<1>1. cur[l] \in Buffers /\ buf[cur[l]].by = l
  BY DEF HoldInv, TypeOK, ThreadInv, ThreadAt
<1>2. TextOf(cur[l]) \in Text /\ TextOf(cur[l]).by = l /\ TextOf(cur[l]).parts = InHand(l)
  BY <1>1 DEF TextOf, Text, HoldInv, TypeOK, InHand
<1>3. file \o Append(Queue, TextOf(cur[l])) = Append(file \o Queue, TextOf(cur[l]))
  BY <1>2, QueueTypes, ConcatAppend
<1> QED
  BY <1>2, <1>3, StreamIs DEF QueuePut

LEMMA PartsOfAppend ==
  ASSUME NEW s \in Seq(Text), NEW t \in Text, NEW l
  PROVE  PartsOf(Append(s, t), l) = PartsOf(s, l) \cup (IF t.by = l THEN t.parts ELSE {})
<1> DEFINE u == Append(s, t)
           n == Len(s)
<1>1. /\ n \in Nat /\ DOMAIN s = 1 .. n /\ DOMAIN u = 1 .. (n + 1)
      /\ u[n + 1] = t /\ \A i \in 1 .. n : u[i] = s[i]
  BY AppendProperties, LenProperties
<1> HIDE DEF u, n
<1>2. ASSUME NEW p \in PartsOf(u, l)
      PROVE  p \in PartsOf(s, l) \cup (IF t.by = l THEN t.parts ELSE {})
  <2>1. PICK i \in DOMAIN u : u[i].by = l /\ p \in u[i].parts
    BY <1>2 DEF PartsOf
  <2>2. i \in 1 .. n \/ i = n + 1
    BY <1>1, <2>1
  <2>3. CASE i \in 1 .. n
    BY <1>1, <2>1, <2>3 DEF PartsOf
  <2>4. CASE i = n + 1
    BY <1>1, <2>1, <2>4
  <2> QED
    BY <2>2, <2>3, <2>4
<1>3. ASSUME NEW p \in PartsOf(s, l) PROVE p \in PartsOf(u, l)
  <2>1. PICK i \in 1 .. n : s[i].by = l /\ p \in s[i].parts
    BY <1>1, <1>3 DEF PartsOf
  <2>2. i \in DOMAIN u /\ u[i] = s[i]
    BY <1>1, <2>1
  <2> QED
    BY <2>1, <2>2 DEF PartsOf
<1>4. ASSUME t.by = l, NEW p \in t.parts PROVE p \in PartsOf(u, l)
  <2>1. n + 1 \in DOMAIN u
    BY <1>1
  <2> QED
    BY <1>1, <1>4, <2>1 DEF PartsOf
<1>5. PartsOf(u, l) = PartsOf(s, l) \cup (IF t.by = l THEN t.parts ELSE {})
  BY <1>2, <1>3, <1>4
<1> QED
  BY <1>5 DEF u

(* Steps that neither log nor hand over.                                   *)
LEMMA NothingKept ==
  ASSUME NothingLost, Stream' = Stream, next' = next,
         \A l \in Loggers : InHand(l)' = InHand(l)
  PROVE  NothingLost'
<1>1. \A l \in Loggers : InStream(l)' = InStream(l)
  BY DEF InStream
<1> QED
  BY <1>1 DEF NothingLost

(* A part goes into the buffer, unless no buffer takes it.                 *)
LEMMA NothingLog ==
  ASSUME HoldInv, NothingLost, NEW l \in Loggers, Log(l)
  PROVE  NothingLost'
<1> DEFINE b == cur[l]
           n == next[l]
<1>1. /\ TypeOK /\ pc[l] \in {"append", "check"} /\ b # None /\ b \in Buffers
      /\ n <= Parts /\ n \in 1 .. (Parts + 1)
  BY DEF HoldInv, TypeOK, Log, ThreadInv, ThreadAt
<1>2. n \in 1 .. Parts /\ n \in Nat /\ SizeOf[n] \in Nat
  BY <1>1, SizeTypes
<1>3. n \in KeptHere(b) <=> n \in KeptParts
  <2>1. buf[b].len \in Nat /\ Room \in Nat /\ Slack \in Nat
    BY <1>1, LogAssumption DEF TypeOK
  <2>2. pc[l] = "append" => buf[b].len = 0
    BY DEF HoldInv, ThreadInv, ThreadAt
  <2>3. pc[l] # "append" => n \in Direct \/ Room - buf[b].len - 1 > SizeOf[n] + Slack
    BY DEF Log, Fits, Needs, Avail
  <2>4. n \in KeptParts <=> n \in Direct \/ SizeOf[n] < Room - 1
    BY <1>2 DEF KeptParts
  <2>5. n \in KeptHere(b) <=> n \in Direct \/ Room - buf[b].len - 1 > SizeOf[n]
    BY <1>2 DEF KeptHere, Avail
  <2> HIDE DEF b, n
  <2>6. CASE n \in Direct
    BY <2>4, <2>5, <2>6
  <2>7. CASE n \notin Direct
    BY <1>2, <2>1, <2>2, <2>3, <2>4, <2>5, <2>7
  <2> QED
    BY <2>6, <2>7
<1>4. /\ InHand(l)' = InHand(l) \cup ({n} \cap KeptParts)
      /\ next'[l] = n + 1
      /\ \A k \in Loggers \ {l} : InHand(k)' = InHand(k) /\ next'[k] = next[k]
  <2>1. /\ buf' = [buf EXCEPT ![b] = Added(b, n)] /\ cur' = cur
        /\ next' = [next EXCEPT ![l] = n + 1]
    BY DEF Log
  <2>2. buf'[b] = Added(b, n)
    BY <1>1, <2>1 DEF TypeOK
  <2>3. InHand(l)' = InHand(l) \cup ({n} \cap KeptParts)
    <3>1. InHand(l) = buf[b].parts /\ InHand(l)' = Added(b, n).parts
      BY <1>1, <2>1, <2>2 DEF InHand
    <3>2. Added(b, n).parts = IF n \in KeptHere(b) THEN buf[b].parts \cup {n} ELSE buf[b].parts
      BY <1>1, <1>2, AddedTypes
    <3> QED
      BY <1>3, <3>1, <3>2
  <2>4. ASSUME NEW k \in Loggers \ {l} PROVE InHand(k)' = InHand(k) /\ next'[k] = next[k]
    <3>1. cur[k] # None => cur[k] # b /\ cur[k] \in Buffers
      BY <1>1, HolderNow DEF HoldInv, Apart, TypeOK
    <3> QED
      BY <1>1, <2>1, <3>1 DEF InHand, TypeOK
  <2>5. next'[l] = n + 1
    BY <1>1, <2>1 DEF TypeOK
  <2> QED
    BY <2>3, <2>4, <2>5
<1>5. Stream' = Stream
  <2>1. ~(Flush(l) \/ Finish(l))
    BY <1>1 DEF Flush, Finish
  <2>2. QueueSame
    BY <2>1, QueueLogStep DEF LogStep
  <2> QED
    BY <2>2, StreamSame
<1>6. \A k \in Loggers : InStream(k)' = InStream(k)
  BY <1>5 DEF InStream
<1> HIDE DEF b, n
<1>7. ASSUME NEW k \in Loggers
      PROVE  /\ InStream(k)' \cup InHand(k)' = {p \in KeptParts : p < next'[k]}
             /\ \A p \in InStream(k)', q \in InHand(k)' : p < q
  <2>1. /\ InStream(k) \cup InHand(k) = {p \in KeptParts : p < next[k]}
        /\ \A p \in InStream(k), q \in InHand(k) : p < q
    BY DEF NothingLost
  <2>2. CASE k # l
    BY <1>4, <1>6, <2>1, <2>2
  <2>3. CASE k = l
    <3>1. {p \in KeptParts : p < n + 1} = {p \in KeptParts : p < n} \cup ({n} \cap KeptParts)
      BY <1>2, SizeTypes DEF KeptParts
    <3>2. next[l] = n
      BY DEF n
    <3>3. InStream(k)' \cup InHand(k)' = {p \in KeptParts : p < next'[k]}
      BY <1>4, <1>6, <2>1, <2>3, <3>1, <3>2
    <3>4. \A p \in InStream(l) : p < n
      BY <2>1, <2>3, <3>2
    <3>5. \A p \in InStream(k)', q \in InHand(k)' : p < q
      BY <1>4, <1>6, <2>1, <2>3, <3>4
    <3> QED
      BY <3>3, <3>5
  <2> QED
    BY <2>2, <2>3
<1> QED
  BY <1>5, <1>7 DEF NothingLost

(* A buffer is handed over: its text is the last of the stream.            *)
LEMMA NothingPut ==
  ASSUME HoldInv, NothingLost, NEW l \in Loggers, Flush(l) \/ Finish(l)
  PROVE  NothingLost'
<1> DEFINE t == TextOf(cur[l])
<1>1. cur[l] # None /\ TypeOK
  BY DEF Flush, Finish, HoldInv, ThreadInv, ThreadAt
<1>2. /\ Stream' = Append(Stream, t) /\ t \in Text /\ t.by = l /\ t.parts = InHand(l)
  BY <1>1, QueueLogStep, StreamPut DEF LogStep
<1>3. /\ cur' = [cur EXCEPT ![l] = None] /\ buf' = buf /\ next' = next
  BY DEF Flush, Finish
<1>4. InHand(l)' = {} /\ \A k \in Loggers \ {l} : InHand(k)' = InHand(k)
  BY <1>1, <1>3 DEF InHand, TypeOK
<1> HIDE DEF t
<1>5. /\ InStream(l)' = InStream(l) \cup InHand(l)
      /\ \A k \in Loggers \ {l} : InStream(k)' = InStream(k)
  <2>1. Stream \in Seq(Text)
    BY StreamTypes
  <2>2. ASSUME NEW k \in Loggers
        PROVE  InStream(k)' = InStream(k) \cup (IF k = l THEN InHand(l) ELSE {})
    <3>1. PartsOf(Append(Stream, t), k) = PartsOf(Stream, k) \cup (IF t.by = k THEN t.parts ELSE {})
      BY <1>2, <2>1, PartsOfAppend
    <3>2. InStream(k)' = PartsOf(Append(Stream, t), k) /\ InStream(k) = PartsOf(Stream, k)
      BY <1>2 DEF InStream
    <3> QED
      BY <1>2, <3>1, <3>2
  <2> QED
    BY <2>2
<1>6. ASSUME NEW k \in Loggers
      PROVE  /\ InStream(k)' \cup InHand(k)' = {p \in KeptParts : p < next'[k]}
             /\ \A p \in InStream(k)', q \in InHand(k)' : p < q
  <2>1. /\ InStream(k) \cup InHand(k) = {p \in KeptParts : p < next[k]}
        /\ \A p \in InStream(k), q \in InHand(k) : p < q
    BY DEF NothingLost
  <2> QED
    BY <1>3, <1>4, <1>5, <2>1
<1>7. ASSUME NEW i \in DOMAIN Stream', NEW j \in DOMAIN Stream', i < j, Stream'[i].by = Stream'[j].by,
             NEW p \in Stream'[i].parts, NEW q \in Stream'[j].parts
      PROVE  p < q
  <2> DEFINE n == Len(Stream)
             s == Stream
             u == Append(s, t)
  <2>1. s \in Seq(Text) /\ n \in Nat /\ DOMAIN s = 1 .. n
    BY StreamTypes
  <2>2. /\ DOMAIN u = 1 .. (n + 1) /\ u[n + 1] = t /\ \A k \in 1 .. n : u[k] = s[k]
    BY <1>2, <2>1, AppendProperties, LenProperties
  <2>3. i \in DOMAIN u /\ j \in DOMAIN u /\ u[i].by = u[j].by /\ p \in u[i].parts /\ q \in u[j].parts
    BY <1>2, <1>7
  <2> HIDE DEF n, s, u
  <2>4. i \in 1 .. n /\ u[i] = s[i]
    BY <1>7, <2>1, <2>2, <2>3
  <2>5. CASE j \in 1 .. n
    <3>1. u[j] = s[j]
      BY <2>2, <2>5
    <3> QED
      BY <1>7, <2>1, <2>3, <2>4, <2>5, <3>1 DEF NothingLost, s
  <2>6. CASE j = n + 1
    <3>1. s[i].by = l /\ q \in InHand(l)
      BY <1>2, <2>2, <2>3, <2>4, <2>6
    <3>2. p \in InStream(l)
      BY <2>1, <2>3, <2>4, <3>1 DEF InStream, PartsOf, s
    <3> QED
      BY <3>1, <3>2 DEF NothingLost
  <2>7. j \in 1 .. n \/ j = n + 1
    BY <2>1, <2>2, <2>3
  <2> QED
    BY <2>5, <2>6, <2>7
<1> QED
  BY <1>6, <1>7 DEF NothingLost

LEMMA NothingStep == HoldInv /\ NothingLost /\ [Next]_vars => NothingLost'
<1> SUFFICES ASSUME HoldInv, NothingLost, [Next]_vars PROVE NothingLost'
  OBVIOUS
<1>1. ASSUME NEW l \in Loggers, LogStep(l) \/ Spurious(l) PROVE NothingLost'
  <2>1. CASE Log(l)
    BY <2>1, NothingLog
  <2>2. CASE Flush(l) \/ Finish(l)
    BY <2>2, NothingPut
  <2>3. CASE ~Log(l) /\ ~(Flush(l) \/ Finish(l))
    <3>1. Stream' = Stream
      BY <1>1, <2>3, QueueLogStep, StreamSame
    <3>2. next' = next
      BY <1>1, <2>3 DEF LogStep, Begin, Take, Full, Grab, Spurious
    <3>3. ASSUME NEW k \in Loggers PROVE InHand(k)' = InHand(k)
      <4>1. CASE Begin(l) \/ Full(l) \/ Spurious(l)
        BY <4>1 DEF Begin, Full, Spurious, InHand
      <4>2. ASSUME pc[l] \in {"take", "grab"}, NEW b \in Buffers, b \notin HeldIn(cur), Obtain(l, b)
            PROVE  InHand(k)' = InHand(k)
        <5>1. /\ cur' = [cur EXCEPT ![l] = b]
              /\ buf' = [buf EXCEPT ![b] = [Empty EXCEPT !.by = l]]
              /\ [Empty EXCEPT !.by = l].parts = {}
          BY <4>2 DEF Obtain, Empty
        <5>2. cur[l] = None
          BY <4>2 DEF HoldInv, ThreadInv, ThreadAt
        <5>3. cur[k] # None => cur[k] # b /\ cur[k] \in Buffers
          BY <4>2 DEF HeldIn, HoldInv, TypeOK
        <5> HIDE DEF Empty
        <5>4. cur' \in [Loggers -> Buffers \cup {None}] /\ DOMAIN buf = Buffers /\ b # None
          BY <5>1, LogAssumption DEF HoldInv, TypeOK
        <5>5. CASE k = l
          BY <4>2, <5>1, <5>2, <5>4, <5>5 DEF InHand, HoldInv, TypeOK
        <5>6. CASE k # l
          BY <4>2, <5>1, <5>3, <5>4, <5>6 DEF InHand, HoldInv, TypeOK
        <5> QED
          BY <5>5, <5>6
      <4>3. ASSUME Pop(l), pc[l] \in {"take", "grab"} PROVE InHand(k)' = InHand(k)
        <5>1. free # <<>> /\ free \in Seq(Buffers) /\ Apart(free, saving, Writing, cur, count)
          BY <4>3, HolderNow DEF Pop, HoldInv, TypeOK
        <5>2. free[Len(free)] \in IdsOf(free) /\ free[Len(free)] \in Buffers
          BY <5>1, FrontIds
        <5>3. free[Len(free)] \notin HeldIn(cur)
          BY <5>1, <5>2 DEF Apart
        <5> QED
          BY <4>2, <4>3, <5>2, <5>3 DEF Pop
      <4>4. ASSUME Alloc(l), pc[l] = "take" PROVE InHand(k)' = InHand(k)
        <5> DEFINE a == CHOOSE x \in Buffers : x \notin Allocated
        <5>1. a \in Buffers /\ a \notin Allocated /\ Obtain(l, a)
          BY <4>4 DEF Alloc
        <5> HIDE DEF a
        <5>2. a \notin HeldIn(cur)
          BY <5>1 DEF Allocated, Held, HeldIn
        <5> QED
          BY <4>2, <4>4, <5>1, <5>2
      <4>5. CASE UNCHANGED <<cur, buf>>
        BY <4>5 DEF InHand
      <4>6. CASE Take(l)
        BY <4>3, <4>4, <4>5, <4>6 DEF Take
      <4>7. CASE Grab(l)
        BY <4>3, <4>5, <4>7 DEF Grab
      <4> QED
        BY <1>1, <2>3, <4>1, <4>6, <4>7 DEF LogStep
    <3> QED
      BY <3>1, <3>2, <3>3, NothingKept
  <2> QED
    BY <2>1, <2>2, <2>3
<1>2. CASE WriterStep \/ Stop \/ UNCHANGED vars
  <2>1. Stream' = Stream
    BY <1>2, QueueWrite, QueueRest, StreamSame DEF WriterStep
  <2>2. UNCHANGED <<next, cur, buf>>
    BY <1>2 DEF WriterStep, Open, Loop, Swap, Write, Return, Notify, Stop, vars, thread
  <2>3. \A k \in Loggers : InHand(k)' = InHand(k)
    BY <2>2 DEF InHand
  <2> QED
    BY <2>1, <2>2, <2>3, NothingKept
<1> QED
  BY <1>1, <1>2 DEF Next

LEMMA StartEmpty ==
  ASSUME Init
  PROVE  Stream = <<>> /\ Queue = <<>> /\ file = <<>>
<1>1. HoldInv /\ Writing = <<>> /\ saving = <<>> /\ done = 0 /\ file = <<>> /\ batch = <<>>
  BY HoldInit DEF Init, Writing
<1>2. RestOf(<<>>, 0, <<>>) = <<>>
  <2>1. <<>> \in Seq(Buffers) /\ Len(<<>>) = 0 /\ 0 \in Nat
    BY EmptySeq
  <2>2. SubSeq(<<>>, 0 + 1, Len(<<>>)) = <<>>
    BY <2>1, LeftOver
  <2> QED
    BY <2>1, <2>2, ConcatEmptySeq DEF RestOf
<1>3. Queue = TextsIn(buf, <<>>)
  BY <1>1, <1>2, QueueIs
<1>4. Queue = <<>>
  BY <1>3 DEF TextsIn
<1> QED
  BY <1>1, <1>4, StreamIs

LEMMA NothingInit == Init => NothingLost
<1> SUFFICES ASSUME Init PROVE NothingLost
  OBVIOUS
<1>1. Stream = <<>>
  BY StartEmpty
<1>2. \A l \in Loggers : InStream(l) = {} /\ InHand(l) = {} /\ next[l] = 1
  BY <1>1 DEF InStream, PartsOf, InHand, Init
<1>3. {p \in KeptParts : p < 1} = {}
  BY SizeTypes DEF KeptParts
<1> QED
  BY <1>1, <1>2, <1>3 DEF NothingLost
-----------------------------------------------------------------------------
LEMMA StopInit == Init => StopInv
BY DEF Init, StopInv

(* A thread that is done before stop takes no step any more.               *)
LEMMA StopLogStep ==
  ASSUME HoldInv, StopInv, NEW l \in Loggers, LogStep(l) \/ Spurious(l)
  PROVE  StopInv'
<1>1. UNCHANGED <<wpc, batch, done, final, file, stop, late>>
  BY DEF LogStep, Begin, Take, Full, Flush, Grab, Log, Finish, Spurious, writer
<1>2. pc[l] # "idle" \/ next[l] <= Parts
  BY DEF LogStep, Begin, Take, Full, Flush, Grab, Log, Finish, Spurious
<1>3. stop => l \in late
  <2>1. ~(Parts + 1 <= Parts)
    BY SizeTypes
  <2> QED
    BY <1>2, <2>1 DEF StopInv
<1>4. \A k \in Loggers \ {l} : pc'[k] = pc[k] /\ next'[k] = next[k]
  <2>1. \/ pc' = pc
        \/ \E p : pc' = [pc EXCEPT ![l] = p]
    BY Zenon DEF LogStep, Begin, Take, Pop, Alloc, Obtain, Full, Flush, Grab, Log, Finish, Spurious
  <2>2. next' = next \/ next' = [next EXCEPT ![l] = @ + 1]
    BY DEF LogStep, Begin, Take, Full, Flush, Grab, Log, Finish, Spurious
  <2> QED
    BY <2>1, <2>2 DEF HoldInv, TypeOK
<1>5. ASSUME final', wpc' \in {"write", "notify", "closed"}, NEW b \in IdsOf(saving')
      PROVE  buf'[b].by \in late'
  <2>1. \A a \in IdsOf(saving) : buf'[a] = buf[a] /\ buf[a].by \in late
    <3>1. \A a \in IdsOf(saving) : buf'[a] = buf[a]
      BY BufKept
    <3>2. \A a \in IdsOf(saving) : buf[a].by \in late
      BY <1>1, <1>5 DEF StopInv
    <3> QED
      BY <3>1, <3>2
  <2>2. CASE saving' = saving
    BY <1>1, <1>5, <2>1, <2>2
  <2>3. CASE Flush(l) \/ Finish(l)
    <3>1. /\ cur[l] \in Buffers /\ buf[cur[l]].by = l
          /\ saving' = Append(saving, cur[l]) /\ buf' = buf
      <4>1. pc[l] \in {"flush", "finish"} /\ cur[l] # None
        BY <2>3 DEF Flush, Finish, HoldInv, ThreadInv, ThreadAt
      <4>2. cur[l] \in Buffers
        BY <4>1 DEF HoldInv, TypeOK
      <4> QED
        BY <2>3, <4>1, <4>2 DEF Flush, Finish, HoldInv, ThreadInv, ThreadAt
    <3>2. IdsOf(saving') = IdsOf(saving) \cup {cur[l]}
      BY <3>1, AppendIds DEF HoldInv, TypeOK
    <3>3. l \in late
      BY <1>1, <1>3, <1>5 DEF StopInv
    <3> QED
      BY <1>1, <1>5, <2>1, <3>1, <3>2, <3>3
  <2> QED
    BY <2>2, <2>3 DEF LogStep, Begin, Take, Full, Grab, Log, Spurious, list
<1>6. stop' => \A k \in Loggers \ late' : pc'[k] = "idle" /\ next'[k] = Parts + 1
  BY <1>1, <1>3, <1>4 DEF StopInv
<1> QED
  BY <1>1, <1>5, <1>6 DEF StopInv

LEMMA StopWriterStep ==
  ASSUME HoldInv, StopInv, WriterStep
  PROVE  StopInv'
<1>1. UNCHANGED <<buf, next, stop, late>>
  BY DEF WriterStep, Open, Loop, Swap, Write, Return, Notify, thread
<1>2. ASSUME NEW l \in Loggers, pc[l] = "idle" PROVE pc'[l] = "idle"
  BY <1>2 DEF WriterStep, Open, Loop, Swap, Write, Return, Notify, Waiting, thread
<1>3. final' => stop'
  BY DEF WriterStep, Open, Loop, Swap, Write, Return, Notify, StopInv, HoldInv, TypeOK
<1>4. stop' => \A k \in Loggers \ late' : pc'[k] = "idle" /\ next'[k] = Parts + 1
  BY <1>1, <1>2 DEF StopInv
<1>5. ASSUME final', wpc' \in {"write", "notify", "closed"}, NEW b \in IdsOf(saving')
      PROVE  buf'[b].by \in late'
  <2>1. ~Open /\ ~Loop
    BY <1>5 DEF Open, Loop
  <2>2. ~Swap
    BY <1>5, EmptyIds DEF Swap
  <2>3. saving' = saving /\ final' = final /\ wpc \in {"write", "notify"}
    BY <2>1, <2>2 DEF WriterStep, Write, Return, Notify, list
  <2> QED
    BY <1>1, <1>5, <2>3 DEF StopInv
<1> QED
  BY <1>3, <1>4, <1>5 DEF StopInv

LEMMA StopStep == HoldInv /\ StopInv /\ [Next]_vars => StopInv'
<1> SUFFICES ASSUME HoldInv, StopInv, [Next]_vars PROVE StopInv'
  OBVIOUS
<1>1. CASE Stop
  <2>1. /\ ~stop /\ stop' = TRUE /\ late' = {l \in Loggers : pc[l] # "idle" \/ next[l] <= Parts}
        /\ UNCHANGED <<saving, buf, pc, next, final, wpc>>
    BY <1>1 DEF Stop, list, thread, writer
  <2>2. ~final'
    BY <2>1 DEF StopInv
  <2>3. \A l \in Loggers \ late' : pc'[l] = "idle" /\ next'[l] = Parts + 1
    <3>1. ASSUME NEW l \in Loggers \ late' PROVE pc[l] = "idle" /\ next[l] = Parts + 1
      <4>1. pc[l] = "idle" /\ ~(next[l] <= Parts)
        BY <2>1
      <4>2. next[l] \in 1 .. (Parts + 1)
        BY DEF HoldInv, TypeOK
      <4> QED
        BY <4>1, <4>2, SizeTypes
    <3> QED
      BY <2>1, <3>1
  <2> QED
    BY <2>1, <2>2, <2>3 DEF StopInv
<1>2. CASE UNCHANGED vars
  BY <1>2 DEF StopInv, vars, list, thread, writer
<1> QED
  BY <1>1, <1>2, StopLogStep, StopWriterStep DEF Next

(* The writer's last round leaves nothing of the threads that were done.   *)
LEMMA StopSaves == HoldInv /\ NothingLost /\ StopInv => SavedAfterStop
<1> SUFFICES ASSUME HoldInv, NothingLost, StopInv, wpc = "closed", NEW l \in Loggers \ late
             PROVE  InFile(l) = KeptParts
  BY DEF SavedAfterStop
<1>1. final /\ stop /\ pc[l] = "idle" /\ next[l] = Parts + 1
  BY DEF StopInv, HoldInv, WriterInv
<1>2. cur[l] = None
  BY <1>1 DEF HoldInv, ThreadInv, ThreadAt
<1>3. InStream(l) = KeptParts
  <2>1. InHand(l) = {}
    BY <1>2 DEF InHand
  <2>2. {p \in KeptParts : p < Parts + 1} = KeptParts
    BY SizeTypes DEF KeptParts
  <2> QED
    BY <1>1, <2>1, <2>2 DEF NothingLost
<1>4. \A i \in DOMAIN Queue : Queue[i].by # l
  <2> DEFINE r == RestOf(Writing, done, saving)
  <2>1. Writing = <<>>
    BY DEF Writing, HoldInv, WriterInv
  <2>2. r \in Seq(Buffers) /\ IdsOf(r) \subseteq IdsOf(saving)
    BY <2>1, QueueTypes, RestTypes, EmptyIds
  <2>3. \A b \in IdsOf(r) : buf[b].by # l
    BY <1>1, <2>2 DEF StopInv
  <2> HIDE DEF r
  <2>4. Queue = TextsIn(buf, r)
    BY QueueIs DEF r
  <2> QED
    BY <2>3, <2>4 DEF TextsIn, TextIn, IdsOf
<1>5. InStream(l) = InFile(l)
  <2> DEFINE m == Len(file)
             n == Len(Queue)
             s == file \o Queue
  <2>1. /\ DOMAIN file = 1 .. m /\ DOMAIN Queue = 1 .. n /\ m \in Nat /\ n \in Nat
        /\ DOMAIN s = 1 .. (m + n)
        /\ \A i \in 1 .. (m + n) : s[i] = IF i <= m THEN file[i] ELSE Queue[i - m]
    BY QueueTypes, ConcatProperties, LenProperties
  <2> HIDE DEF s, m, n
  <2>2. ASSUME NEW p \in PartsOf(s, l) PROVE p \in PartsOf(file, l)
    <3>1. PICK i \in DOMAIN s : s[i].by = l /\ p \in s[i].parts
      BY <2>2 DEF PartsOf
    <3>2. CASE i <= m
      <4>1. i \in DOMAIN file /\ s[i] = file[i]
        BY <2>1, <3>2
      <4> QED
        BY <3>1, <4>1 DEF PartsOf
    <3>3. CASE ~(i <= m)
      <4>1. i - m \in DOMAIN Queue /\ s[i] = Queue[i - m]
        BY <2>1, <3>3
      <4> QED
        BY <1>4, <3>1, <4>1
    <3> QED
      BY <3>2, <3>3
  <2>3. ASSUME NEW p \in PartsOf(file, l) PROVE p \in PartsOf(s, l)
    <3>1. PICK i \in DOMAIN file : file[i].by = l /\ p \in file[i].parts
      BY <2>3 DEF PartsOf
    <3>2. i \in DOMAIN s /\ s[i] = file[i]
      BY <2>1
    <3> QED
      BY <3>1, <3>2 DEF PartsOf
  <2>4. PartsOf(s, l) = PartsOf(file, l)
    BY <2>2, <2>3
  <2> QED
    BY <2>4, StreamIs DEF InStream, InFile, s
<1> QED
  BY <1>3, <1>5
-----------------------------------------------------------------------------
(* What a thread has in hand is of the entry it is logging; all of it, as  *)
(* long as the entry is one that fits a buffer.                            *)
Starts(n) == n = 1 \/ n - 1 \in LastOf

EntryAt(l) ==
  LET n == next[l] IN
  /\ pc[l] = "idle" => Starts(n)
  /\ pc[l] \in {"take", "wait"} => IF back[l] = "check" THEN Starts(n) ELSE ~Short(n)
  /\ pc[l] \in {"flush", "grab", "append"} => ~Short(n)
  /\ pc[l] \in {"check", "flush", "append"} => buf[cur[l]].parts \subseteq EntryOf(n)
  /\ pc[l] = "check" /\ Short(n) =>
       /\ buf[cur[l]].parts = {q \in EntryOf(n) : q < n}
       /\ buf[cur[l]].len = SizeBefore[n]
  /\ pc[l] = "finish" =>
       /\ n - 1 \in LastOf
       /\ buf[cur[l]].parts \subseteq EntryOf(n - 1)
       /\ Short(n - 1) => buf[cur[l]].parts = EntryOf(n - 1)

EntryInv == \A l \in Loggers : EntryAt(l)

(* The recursive definition of SizeBefore is met.                          *)
LEMMA SizeBeforeIs ==
  /\ SizeBefore[1] = 0
  /\ \A n \in 1 .. Parts :
       SizeBefore[n + 1] = IF n \in LastOf THEN 0 ELSE SizeBefore[n] + SizeOf[n]
  /\ \A n \in 1 .. (Parts + 1) : Starts(n) => SizeBefore[n] = 0
<1> DEFINE Z == {p \in Nat : p <= 1 \/ p - 1 \in LastOf}
           F(f) == f = [p \in Nat |-> IF p <= 1 \/ p - 1 \in LastOf THEN 0 ELSE f[p - 1] + SizeOf[p - 1]]
<1>1. PICK f : f = [p \in Nat |-> IF p \in Z THEN 0 ELSE f[p - 1] + SizeOf[p - 1]]
  <2>1. 0 \in Z
    OBVIOUS
  <2> HIDE DEF Z
  <2> QED
    BY <2>1, SumsExist
<1>2. F(f)
  <2>1. \A p \in Nat : p \in Z <=> p <= 1 \/ p - 1 \in LastOf
    OBVIOUS
  <2> HIDE DEF Z
  <2>2. f = [p \in Nat |-> IF p <= 1 \/ p - 1 \in LastOf THEN 0 ELSE f[p - 1] + SizeOf[p - 1]]
    BY <1>1, <2>1
  <2> QED
    BY <2>2
<1>3. F(SizeBefore)
  <2>1. SizeBefore = CHOOSE g : F(g)
    BY DEF SizeBefore
  <2>2. \E g : F(g)
    BY <1>2
  <2> HIDE DEF F
  <2> QED
    BY <2>1, <2>2
<1>4. \A p \in Nat : SizeBefore[p] = IF p <= 1 \/ p - 1 \in LastOf THEN 0 ELSE SizeBefore[p - 1] + SizeOf[p - 1]
  BY <1>3
<1>5. ASSUME NEW n \in 1 .. Parts
      PROVE  SizeBefore[n + 1] = IF n \in LastOf THEN 0 ELSE SizeBefore[n] + SizeOf[n]
  <2>1. n + 1 \in Nat /\ ~(n + 1 <= 1) /\ (n + 1) - 1 = n
    BY SizeTypes
  <2> QED
    BY <1>4, <2>1
<1>6. ASSUME NEW n \in 1 .. (Parts + 1), Starts(n) PROVE SizeBefore[n] = 0
  <2>1. n \in Nat /\ (n <= 1 \/ n - 1 \in LastOf)
    BY <1>6, SizeTypes DEF Starts
  <2> QED
    BY <1>4, <2>1
<1>7. SizeBefore[1] = 0
  BY <1>4
<1> QED
  BY <1>5, <1>6, <1>7

(* The parts of an entry follow each other.                                *)
LEMMA EntryOfIs ==
  ASSUME NEW n \in 1 .. Parts
  PROVE  /\ n \in EntryOf(n) /\ EntryOf(n) \subseteq 1 .. Parts
         /\ \A p \in EntryOf(n) : EntryOf(p) = EntryOf(n) /\ (Short(p) <=> Short(n))
         /\ Starts(n) => {q \in EntryOf(n) : q < n} = {}
         /\ n \notin LastOf => n + 1 \in 1 .. Parts /\ n + 1 \in EntryOf(n)
         /\ n \in LastOf => EntryOf(n) = {q \in EntryOf(n) : q < n} \cup {n}
<1>1. LastOf \subseteq 1 .. Parts /\ Parts \in LastOf /\ Parts \in Nat
  BY LogAssumption, SizeTypes
<1>2. n \in EntryOf(n)
  BY <1>1 DEF EntryOf
<1>3. ASSUME NEW p \in EntryOf(n) PROVE EntryOf(p) = EntryOf(n)
  <2>1. p \in 1 .. Parts /\ \A m \in LastOf : ~(n <= m /\ m < p) /\ ~(p <= m /\ m < n)
    BY <1>3 DEF EntryOf
  <2>2. ASSUME NEW q \in 1 .. Parts
        PROVE  q \in EntryOf(p) <=> q \in EntryOf(n)
    <3>1. \A m \in LastOf : (p <= m /\ m < q) \/ (q <= m /\ m < p) <=> (n <= m /\ m < q) \/ (q <= m /\ m < n)
      BY <1>1, <2>1
    <3> QED
      BY <3>1 DEF EntryOf
  <2>3. EntryOf(p) \subseteq 1 .. Parts /\ EntryOf(n) \subseteq 1 .. Parts
    BY DEF EntryOf
  <2> QED
    BY <2>2, <2>3
<1>4. \A p \in EntryOf(n) : Short(p) <=> Short(n)
  <2>1. EntryOf(n) \subseteq 1 .. Parts
    BY DEF EntryOf
  <2> QED
    BY <1>3, <2>1 DEF Short, ShortParts
<1>5. Starts(n) => {q \in EntryOf(n) : q < n} = {}
  <2>1. ASSUME n - 1 \in LastOf, NEW q \in EntryOf(n) PROVE ~(q < n)
    <3>1. q \in 1 .. Parts /\ ~(q <= n - 1 /\ n - 1 < n)
      BY <2>1 DEF EntryOf
    <3> QED
      BY <3>1
  <2>2. ASSUME n = 1, NEW q \in EntryOf(n) PROVE ~(q < n)
    <3>1. q \in 1 .. Parts
      BY DEF EntryOf
    <3> QED
      BY <2>2, <3>1
  <2> QED
    BY <2>1, <2>2 DEF Starts
<1>6. ASSUME n \notin LastOf PROVE n + 1 \in 1 .. Parts /\ n + 1 \in EntryOf(n)
  <2>1. n + 1 \in 1 .. Parts
    BY <1>1, <1>6
  <2>2. \A m \in LastOf : ~((n <= m /\ m < n + 1) \/ (n + 1 <= m /\ m < n))
    BY <1>1, <1>6
  <2> QED
    BY <2>1, <2>2 DEF EntryOf
<1>7. ASSUME n \in LastOf PROVE EntryOf(n) = {q \in EntryOf(n) : q < n} \cup {n}
  <2>1. \A q \in EntryOf(n) : q \in 1 .. Parts /\ ~(n <= n /\ n < q)
    BY <1>7 DEF EntryOf
  <2>2. \A q \in EntryOf(n) : q < n \/ q = n
    BY <2>1
  <2> QED
    BY <1>2, <2>2
<1> QED
  BY <1>2, <1>3, <1>4, <1>5, <1>6, <1>7 DEF EntryOf

LEMMA EntryInit == Init => EntryInv
BY DEF Init, EntryInv, EntryAt, Starts

LEMMA EntryOthers ==
  ASSUME EntryInv, NEW l \in Loggers, EntryAt(l)',
         \A k \in Loggers \ {l} :
           /\ pc'[k] = pc[k] /\ back'[k] = back[k] /\ cur'[k] = cur[k] /\ next'[k] = next[k]
           /\ pc[k] \in {"check", "flush", "append", "finish"} => buf'[cur[k]] = buf[cur[k]]
  PROVE  EntryInv'
<1>1. ASSUME NEW k \in Loggers \ {l} PROVE EntryAt(k)'
  <2>1. EntryAt(k)
    BY DEF EntryInv
  <2>2. next'[k] = next[k] /\ pc'[k] = pc[k] /\ back'[k] = back[k] /\ cur'[k] = cur[k]
    OBVIOUS
  <2>3. pc[k] \in {"check", "flush", "append", "finish"} => buf'[cur'[k]] = buf[cur[k]]
    BY <2>2
  <2> QED
    BY <2>1, <2>2, <2>3 DEF EntryAt
<1> QED
  BY <1>1 DEF EntryInv

(* Steps that change no buffer.                                            *)
LEMMA EntryMove ==
  ASSUME HoldInv, EntryInv, NEW l \in Loggers,
         Begin(l) \/ Spurious(l) \/ Full(l) \/ Flush(l) \/ Finish(l)
           \/ ((Take(l) \/ Grab(l)) /\ ~Pop(l) /\ ~Alloc(l))
  PROVE  EntryInv'
<1>1. /\ pc \in [Loggers -> {"idle", "take", "wait", "check", "flush", "grab", "append", "finish"}]
      /\ back \in [Loggers -> {"check", "append"}] /\ cur \in [Loggers -> Buffers \cup {None}]
      /\ buf' = buf /\ next' = next
  BY DEF HoldInv, TypeOK, Begin, Spurious, Full, Flush, Finish, Take, Grab
<1>2. EntryAt(l) /\ ThreadAt(l)
  BY DEF EntryInv, HoldInv, ThreadInv
<1>3. \A k \in Loggers \ {l} :
        pc'[k] = pc[k] /\ back'[k] = back[k] /\ cur'[k] = cur[k]
  BY <1>1 DEF Begin, Spurious, Full, Flush, Finish, Take, Grab
<1>4. EntryAt(l)'
  <2>1. CASE Begin(l)
    BY <1>1, <1>2, <2>1 DEF Begin, EntryAt
  <2>2. CASE Spurious(l)
    BY <1>1, <1>2, <2>2 DEF Spurious, EntryAt
  <2>3. CASE Full(l)
    <3>1. ~Short(next[l])
      <4> DEFINE n == next[l]
      <4>1. SUFFICES ASSUME Short(n) PROVE FALSE
        OBVIOUS
      <4>2. n \in 1 .. Parts
        <5>1. n \in 1 .. (Parts + 1) /\ n <= Parts
          BY <1>2, <2>3 DEF Full, ThreadAt, HoldInv, TypeOK
        <5> QED
          BY <5>1, SizeTypes
      <4>3. buf[cur[l]].len = SizeBefore[n]
        BY <1>2, <2>3, <4>1 DEF Full, EntryAt
      <4>4. Room - SizeBefore[n] - 1 > Needs(n)
        BY <4>1, <4>2, EntryOfIs DEF Short, ShortParts
      <4> QED
        BY <2>3, <4>3, <4>4 DEF Full, Fits, Avail
    <3>2. pc'[l] = "flush" /\ cur'[l] = cur[l] /\ pc[l] = "check"
      BY <1>1, <2>3 DEF Full
    <3> QED
      BY <1>1, <1>2, <3>1, <3>2 DEF EntryAt
  <2>4. CASE Flush(l)
    <3>1. pc[l] = "flush" /\ pc'[l] = "grab"
      BY <1>1, <2>4 DEF Flush
    <3> QED
      BY <1>1, <1>2, <3>1 DEF EntryAt
  <2>5. CASE Finish(l)
    <3>1. pc[l] = "finish" /\ pc'[l] = "idle"
      BY <1>1, <2>5 DEF Finish
    <3> QED
      BY <1>1, <1>2, <3>1 DEF EntryAt, Starts
  <2>6. CASE Take(l) /\ ~Pop(l) /\ ~Alloc(l)
    <3>1. pc[l] = "take" /\ pc'[l] = "wait" /\ back'[l] = back[l]
      BY <1>1, <2>6 DEF Take
    <3> QED
      BY <1>1, <1>2, <3>1 DEF EntryAt
  <2>7. CASE Grab(l) /\ ~Pop(l)
    <3>1. pc[l] = "grab" /\ pc'[l] = "take" /\ back'[l] = back[l] /\ back[l] = "append"
      BY <1>1, <1>2, <2>7 DEF Grab, ThreadAt
    <3> QED
      BY <1>1, <1>2, <3>1 DEF EntryAt
  <2> QED
    BY <2>1, <2>2, <2>3, <2>4, <2>5, <2>6, <2>7
<1>5. \A k \in Loggers \ {l} : next'[k] = next[k] /\ buf'[cur[k]] = buf[cur[k]]
  BY <1>1
<1> QED
  BY <1>3, <1>4, <1>5, EntryOthers

LEMMA EntryObtain ==
  ASSUME HoldInv, EntryInv, NEW l \in Loggers, pc[l] \in {"take", "grab"},
         NEW b \in Buffers, b \notin HeldIn(cur), Obtain(l, b), back' = back, next' = next
  PROVE  EntryInv'
<1> DEFINE n == next[l]
<1>1. /\ cur' = [cur EXCEPT ![l] = b] /\ pc' = [pc EXCEPT ![l] = back[l]]
      /\ buf' = [buf EXCEPT ![b] = [Empty EXCEPT !.by = l]]
  BY DEF Obtain
<1>2. [Empty EXCEPT !.by = l].parts = {} /\ [Empty EXCEPT !.by = l].len = 0
  BY DEF Empty
<1> HIDE DEF Empty
<1>3. /\ pc'[l] = back[l] /\ cur'[l] = b /\ buf'[b].parts = {} /\ buf'[b].len = 0
      /\ back[l] \in {"check", "append"}
  BY <1>1, <1>2 DEF HoldInv, TypeOK
<1>4. EntryAt(l) /\ ThreadAt(l)
  BY DEF EntryInv, HoldInv, ThreadInv
<1>5. n \in 1 .. Parts
  <2>1. n \in 1 .. (Parts + 1) /\ n <= Parts
    BY <1>4 DEF ThreadAt, HoldInv, TypeOK
  <2> QED
    BY <2>1, SizeTypes
<1>6. back[l] = "check" => {q \in EntryOf(n) : q < n} = {} /\ SizeBefore[n] = 0
  <2>1. back[l] = "check" => Starts(n)
    BY <1>4 DEF EntryAt, ThreadAt
  <2>2. n \in 1 .. (Parts + 1)
    BY <1>5, SizeTypes
  <2> QED
    BY <1>5, <2>1, <2>2, EntryOfIs, SizeBeforeIs
<1>7. back[l] = "append" => ~Short(n)
  BY <1>4 DEF EntryAt
<1>8. EntryAt(l)'
  BY <1>3, <1>6, <1>7 DEF EntryAt
<1>9. \A k \in Loggers \ {l} :
        /\ pc'[k] = pc[k] /\ back'[k] = back[k] /\ cur'[k] = cur[k] /\ next'[k] = next[k]
        /\ pc[k] \in {"check", "flush", "append", "finish"} => buf'[cur[k]] = buf[cur[k]]
  <2>1. ASSUME NEW k \in Loggers \ {l}, pc[k] \in {"check", "flush", "append", "finish"}
        PROVE  cur[k] # b /\ cur[k] \in Buffers
    BY <2>1 DEF HoldInv, TypeOK, ThreadInv, ThreadAt, HeldIn
  <2> QED
    BY <1>1, <2>1 DEF HoldInv, TypeOK
<1> QED
  BY <1>8, <1>9, EntryOthers

LEMMA EntryLogOthers ==
  ASSUME HoldInv, EntryInv, NEW l \in Loggers, Log(l), EntryAt(l)'
  PROVE  EntryInv'
<1>1. Apart(free, saving, Writing, cur, count) /\ cur[l] \in Buffers /\ cur[l] # None
  BY HolderNow DEF HoldInv, TypeOK, Log, ThreadInv, ThreadAt
<1>2. ASSUME NEW k \in Loggers \ {l}
      PROVE  /\ pc'[k] = pc[k] /\ back'[k] = back[k] /\ cur'[k] = cur[k] /\ next'[k] = next[k]
             /\ pc[k] \in {"check", "flush", "append", "finish"} => buf'[cur[k]] = buf[cur[k]]
  <2>1. pc[k] \in {"check", "flush", "append", "finish"} => cur[k] # None /\ cur[k] \in Buffers
    BY DEF HoldInv, TypeOK, ThreadInv, ThreadAt
  <2>2. pc[k] \in {"check", "flush", "append", "finish"} => cur[k] # cur[l]
    BY <1>1, <2>1 DEF Apart
  <2> QED
    BY <1>1, <2>1, <2>2 DEF Log, HoldInv, TypeOK
<1> QED
  BY <1>2, EntryOthers

LEMMA EntryLog ==
  ASSUME HoldInv, EntryInv, NEW l \in Loggers, Log(l)
  PROVE  EntryInv'
<1> DEFINE b == cur[l]
           n == next[l]
<1>1. /\ TypeOK /\ pc[l] \in {"append", "check"} /\ b # None /\ b \in Buffers
      /\ n <= Parts /\ n \in 1 .. (Parts + 1) /\ EntryAt(l)
  <2>1. TypeOK /\ pc[l] \in {"append", "check"} /\ EntryAt(l) /\ ThreadAt(l)
    BY DEF HoldInv, Log, ThreadInv, EntryInv
  <2>2. b # None /\ n <= Parts
    BY <2>1 DEF ThreadAt
  <2> QED
    BY <2>1, <2>2 DEF TypeOK
<1>2. n \in 1 .. Parts /\ SizeOf[n] \in Nat
  BY <1>1, SizeTypes
<1>3. /\ buf' = [buf EXCEPT ![b] = Added(b, n)]
      /\ next' = [next EXCEPT ![l] = n + 1]
      /\ pc' = [pc EXCEPT ![l] = IF n \in LastOf THEN "finish" ELSE "check"]
      /\ back' = back /\ cur' = cur
  BY DEF Log
<1>4. /\ buf'[cur'[l]] = Added(b, n) /\ next'[l] = n + 1
      /\ pc'[l] = IF n \in LastOf THEN "finish" ELSE "check"
  BY <1>1, <1>3 DEF TypeOK
<1>5. Added(b, n).parts \subseteq EntryOf(n)
  <2>1. buf[b].parts \subseteq EntryOf(n)
    BY <1>1 DEF EntryAt
  <2>2. Added(b, n).parts = IF n \in KeptHere(b) THEN buf[b].parts \cup {n} ELSE buf[b].parts
    BY <1>1, <1>2, AddedTypes
  <2>3. n \in EntryOf(n)
    BY <1>2, EntryOfIs
  <2> HIDE DEF b, n
  <2> QED
    BY <2>1, <2>2, <2>3
<1>6. ASSUME Short(n)
      PROVE  /\ Added(b, n).parts = {q \in EntryOf(n) : q < n} \cup {n}
             /\ Added(b, n).len = SizeBefore[n] + SizeOf[n]
  <2>1. pc[l] = "check"
    BY <1>1, <1>6 DEF EntryAt
  <2>2. buf[b].parts = {q \in EntryOf(n) : q < n} /\ buf[b].len = SizeBefore[n]
    BY <1>1, <1>6, <2>1 DEF EntryAt
  <2>3. n \in Direct \/ Avail(b) > SizeOf[n]
    <3>1. Fits(l) /\ Slack \in Nat /\ Room \in Nat /\ buf[b].len \in Nat
      BY <1>1, <2>1, LogAssumption DEF Log, TypeOK
    <3> QED
      BY <1>2, <3>1 DEF Fits, Needs, Avail
  <2>4. /\ buf[b] \in [by : Loggers \cup {None}, parts : SUBSET (1 .. Parts), len : Nat]
        /\ buf[b].parts \cup {n} \in SUBSET (1 .. Parts) /\ buf[b].len + SizeOf[n] \in Nat
    <3>1. buf[b] \in [by : Loggers \cup {None}, parts : SUBSET (1 .. Parts), len : Nat]
      BY <1>1 DEF TypeOK
    <3> QED
      BY <1>2, <3>1
  <2>5. Added(b, n).parts = buf[b].parts \cup {n} /\ Added(b, n).len = buf[b].len + SizeOf[n]
    BY <2>3, <2>4 DEF Added
  <2> QED
    BY <2>2, <2>5
<1> HIDE DEF b, n
<1>7. CASE n \in LastOf
  <2>1. Short(n) => Added(b, n).parts = EntryOf(n)
    BY <1>2, <1>6, <1>7, EntryOfIs
  <2>2. (n + 1) - 1 = n
    BY <1>2
  <2>3. EntryAt(l)'
    BY <1>4, <1>5, <1>7, <2>1, <2>2 DEF EntryAt
  <2> QED
    BY <2>3, EntryLogOthers DEF b, n
<1>8. CASE n \notin LastOf
  <2>1. /\ n + 1 \in EntryOf(n) /\ EntryOf(n + 1) = EntryOf(n) /\ (Short(n + 1) <=> Short(n))
        /\ EntryOf(n) \subseteq 1 .. Parts /\ n \in EntryOf(n)
    BY <1>2, <1>8, EntryOfIs
  <2>2. SizeBefore[n + 1] = SizeBefore[n] + SizeOf[n]
    BY <1>2, <1>8, SizeBeforeIs
  <2>3. {q \in EntryOf(n) : q < n + 1} = {q \in EntryOf(n) : q < n} \cup {n}
    <3>1. \A q \in EntryOf(n) : q < n + 1 <=> q < n \/ q = n
      BY <1>2, <2>1
    <3> QED
      BY <2>1, <3>1
  <2>4. EntryAt(l)'
    <3>1. Added(b, n).parts \subseteq EntryOf(n + 1)
      BY <1>5, <2>1
    <3>2. Short(n + 1) => /\ Added(b, n).parts = {q \in EntryOf(n + 1) : q < n + 1}
                          /\ Added(b, n).len = SizeBefore[n + 1]
      BY <1>6, <2>1, <2>2, <2>3
    <3> QED
      BY <1>4, <1>8, <3>1, <3>2 DEF EntryAt
  <2> QED
    BY <2>4, EntryLogOthers DEF b, n
<1> QED
  BY <1>7, <1>8

LEMMA EntryWriter ==
  ASSUME HoldInv, EntryInv, WriterStep \/ Stop \/ UNCHANGED vars
  PROVE  EntryInv'
<1>1. UNCHANGED <<buf, back, cur, next>>
  BY DEF WriterStep, Open, Loop, Swap, Write, Return, Notify, Stop, vars, thread
<1>2. ASSUME NEW l \in Loggers PROVE pc'[l] = pc[l] \/ (pc[l] = "wait" /\ pc'[l] = "take")
  <2>1. CASE Notify
    BY <2>1 DEF Notify, Waiting
  <2>2. CASE ~Notify
    BY <2>2 DEF WriterStep, Open, Loop, Swap, Write, Return, Stop, vars, thread
  <2> QED
    BY <2>1, <2>2
<1>3. ASSUME NEW l \in Loggers PROVE EntryAt(l)'
  <2>1. EntryAt(l)
    BY DEF EntryInv
  <2> QED
    BY <1>1, <1>2, <2>1 DEF EntryAt
<1> QED
  BY <1>3 DEF EntryInv

LEMMA EntryTake ==
  ASSUME HoldInv, EntryInv, NEW l \in Loggers, Take(l) \/ Grab(l)
  PROVE  EntryInv'
<1>1. /\ free \in Seq(Buffers) /\ saving \in Seq(Buffers) /\ Writing \in Seq(Buffers)
      /\ cur \in Holders /\ Apart(free, saving, Writing, cur, count)
      /\ pc[l] \in {"take", "grab"} /\ back' = back /\ next' = next
  BY WritingTypes, HolderNow DEF HoldInv, TypeOK, Take, Grab
<1>2. CASE Pop(l)
  <2> DEFINE b == free[Len(free)]
  <2>1. free # <<>> /\ Obtain(l, b)
    BY <1>2 DEF Pop
  <2>2. b \in Buffers /\ b \in IdsOf(free)
    BY <1>1, <2>1, FrontIds
  <2> HIDE DEF b
  <2>3. b \notin HeldIn(cur)
    BY <1>1, <2>2 DEF Apart
  <2> QED
    BY <1>1, <2>1, <2>2, <2>3, EntryObtain
<1>3. CASE Alloc(l)
  <2> DEFINE b == CHOOSE x \in Buffers : x \notin Allocated
  <2>1. b \in Buffers /\ b \notin Allocated /\ Obtain(l, b)
    BY <1>3 DEF Alloc
  <2> HIDE DEF b
  <2>2. b \notin HeldIn(cur)
    BY <2>1 DEF Allocated, Held, HeldIn
  <2> QED
    BY <1>1, <2>1, <2>2, EntryObtain
<1>4. CASE ~Pop(l) /\ ~Alloc(l)
  BY <1>4, EntryMove
<1> QED
  BY <1>2, <1>3, <1>4

LEMMA EntryStep == HoldInv /\ EntryInv /\ [Next]_vars => EntryInv'
<1> SUFFICES ASSUME HoldInv, EntryInv, [Next]_vars PROVE EntryInv'
  OBVIOUS
<1>1. ASSUME NEW l \in Loggers, LogStep(l) \/ Spurious(l) PROVE EntryInv'
  <2>1. CASE Begin(l) \/ Spurious(l) \/ Full(l) \/ Flush(l) \/ Finish(l)
    BY <2>1, EntryMove
  <2>2. CASE Take(l) \/ Grab(l)
    BY <2>2, EntryTake
  <2>3. CASE Log(l)
    BY <2>3, EntryLog
  <2> QED
    BY <1>1, <2>1, <2>2, <2>3 DEF LogStep
<1>2. CASE WriterStep \/ Stop \/ UNCHANGED vars
  BY <1>2, EntryWriter
<1> QED
  BY <1>1, <1>2 DEF Next

(* The texts of a stream s are whole where their entries are short.        *)
Whole(s) == \A i \in DOMAIN s : \A p \in s[i].parts : Short(p) => EntryOf(p) \subseteq s[i].parts

LEMMA WholeIs == /\ ShortEntriesWhole <=> Whole(Stream)
                 /\ ShortEntriesWhole' <=> Whole(Stream')
BY DEF ShortEntriesWhole, Whole

LEMMA WholeAppend ==
  ASSUME NEW s \in Seq(Text), NEW t \in Text, Whole(s),
         \A p \in t.parts : Short(p) => EntryOf(p) \subseteq t.parts
  PROVE  Whole(Append(s, t))
<1> DEFINE u == Append(s, t)
           n == Len(s)
<1>1. /\ n \in Nat /\ DOMAIN s = 1 .. n /\ DOMAIN u = 1 .. (n + 1)
      /\ u[n + 1] = t /\ \A i \in 1 .. n : u[i] = s[i]
  BY AppendProperties, LenProperties
<1> HIDE DEF u, n
<1>2. ASSUME NEW i \in DOMAIN u, NEW p \in u[i].parts, Short(p)
      PROVE  EntryOf(p) \subseteq u[i].parts
  <2>1. CASE i = n + 1
    <3>1. u[i] = t
      BY <1>1, <2>1
    <3> QED
      BY <1>2, <3>1
  <2>2. CASE i # n + 1
    <3>1. i \in 1 .. n
      BY <1>1, <2>2
    <3>2. i \in DOMAIN s /\ u[i] = s[i]
      BY <1>1, <3>1
    <3> QED
      BY <1>2, <3>2 DEF Whole
  <2> QED
    BY <2>1, <2>2
<1>3. Whole(u)
  BY <1>2 DEF Whole
<1> QED
  BY <1>3 DEF u

LEMMA ShortInit == Init => ShortEntriesWhole
<1>1. Init => Whole(Stream)
  BY StartEmpty DEF Whole
<1> QED
  BY <1>1, WholeIs

(* A text that is handed over has whole entries, of those that are short.  *)
LEMMA HandedWhole ==
  ASSUME HoldInv, EntryInv, NEW l \in Loggers, Flush(l) \/ Finish(l)
  PROVE  \A p \in InHand(l) : Short(p) => EntryOf(p) \subseteq InHand(l)
<1> DEFINE n == next[l]
           H == InHand(l)
<1>1. /\ ThreadAt(l) /\ EntryAt(l) /\ cur[l] # None /\ H = buf[cur[l]].parts
      /\ n \in 1 .. (Parts + 1)
  BY DEF Flush, Finish, HoldInv, TypeOK, ThreadInv, ThreadAt, EntryInv, InHand
<1>2. CASE Flush(l)
  <2>1. pc[l] = "flush"
    BY <1>2 DEF Flush
  <2>2. n \in 1 .. Parts
    <3>1. n <= Parts
      BY <1>1, <2>1 DEF ThreadAt
    <3> QED
      BY <1>1, <3>1, SizeTypes
  <2>3. H \subseteq EntryOf(n) /\ ~Short(n)
    BY <1>1, <2>1 DEF EntryAt
  <2> HIDE DEF n, H
  <2>4. \A p \in H : ~Short(p)
    BY <2>2, <2>3, EntryOfIs
  <2> QED
    BY <2>4 DEF H
<1>3. CASE Finish(l)
  <2> DEFINE m == n - 1
  <2>1. pc[l] = "finish"
    BY <1>3 DEF Finish
  <2>2. m \in 1 .. Parts /\ H \subseteq EntryOf(m) /\ (Short(m) => H = EntryOf(m))
    BY <1>1, <2>1, LogAssumption DEF EntryAt
  <2> HIDE DEF n, H, m
  <2>3. ASSUME NEW p \in H, Short(p) PROVE EntryOf(p) \subseteq H
    BY <2>2, <2>3, EntryOfIs
  <2> QED
    BY <2>3 DEF H
<1> QED
  BY <1>2, <1>3

LEMMA ShortStep == HoldInv /\ EntryInv /\ ShortEntriesWhole /\ [Next]_vars => ShortEntriesWhole'
<1> SUFFICES ASSUME HoldInv, EntryInv, Whole(Stream), [Next]_vars PROVE Whole(Stream')
  BY WholeIs
<1>1. ASSUME NEW l \in Loggers, LogStep(l) \/ Spurious(l) PROVE Whole(Stream')
  <2>1. CASE Flush(l) \/ Finish(l)
    <3> DEFINE t == TextOf(cur[l])
    <3>1. cur[l] # None
      BY <2>1 DEF Flush, Finish, HoldInv, ThreadInv, ThreadAt
    <3>2. Stream' = Append(Stream, t) /\ t \in Text /\ t.parts = InHand(l)
      BY <2>1, <3>1, QueueLogStep, StreamPut DEF LogStep
    <3>3. \A p \in t.parts : Short(p) => EntryOf(p) \subseteq t.parts
      BY <2>1, <3>2, HandedWhole
    <3> HIDE DEF t
    <3> QED
      BY <3>2, <3>3, StreamTypes, WholeAppend
  <2>2. CASE ~(Flush(l) \/ Finish(l))
    BY <1>1, <2>2, QueueLogStep, StreamSame
  <2> QED
    BY <2>1, <2>2
<1>2. CASE Write
  BY <1>2, QueueWrite, StreamSame
<1>3. CASE Open \/ Loop \/ Swap \/ Return \/ Notify \/ Stop \/ UNCHANGED vars
  BY <1>3, QueueRest, StreamSame
<1> QED
  BY <1>1, <1>2, <1>3 DEF Next, WriterStep
-----------------------------------------------------------------------------
(* The inductive invariant of the logger.                                  *)
IInv == HoldInv /\ WakeInv /\ NothingLost /\ StopInv /\ EntryInv /\ ShortEntriesWhole

(* Every step keeps it.                                                    *)
THEOREM Safety == Spec => []IInv
<1>1. Init => IInv
  BY HoldInit, WakeInit, NothingInit, StopInit, EntryInit, ShortInit DEF IInv
<1>2. IInv /\ [Next]_vars => IInv'
  BY HoldStep, WakeStep, NothingStep, StopStep, EntryStep, ShortStep DEF IInv
<1> QED
  BY <1>1, <1>2, PTL DEF Spec

(* Every variable keeps its type: the pool, the lists, the buffers and the *)
(* file; s_buferCount stays between INIT_ and MAX_LOG_BUFFER_COUNT.        *)
THEOREM TypeCorrect == Spec => []TypeOK
<1>1. IInv => TypeOK
  BY DEF IInv, HoldInv
<1> QED
  BY <1>1, Safety, PTL

(* No buffer of LogStream is ever in two places, and s_buferCount counts   *)
(* them all.                                                               *)
THEOREM HeldOnce == Spec => []OneHolder
<1>1. IInv => OneHolder
  BY DEF IInv, HoldInv
<1> QED
  BY <1>1, Safety, PTL

(* While a thread waits on s_listCV with buffers in the pool, there are    *)
(* threads awake for all of them, or setBuffers is about to notify.        *)
THEOREM NoWakeupLost == Spec => []NoLostWakeup
<1>1. IInv => NoLostWakeup
  <2>1. SUFFICES ASSUME HoldInv, WakeInv, Waiting # {}, wpc # "notify"
                 PROVE  Len(free) <= Cardinality(Awake)
    BY DEF IInv, NoLostWakeup, Awake
  <2>2. Len(free) <= Cardinality(Awake) + Returned /\ Returned = 0
    BY <2>1 DEF WakeInv, Returned
  <2> QED
    BY <2>1, <2>2, AwakeTypes, ReturnedTypes
<1> QED
  BY <1>1, Safety, PTL

(* What the threads log is in the file, on its way or in their buffers, in *)
(* the order it was logged, nothing lost and nothing twice.                *)
THEOREM AllAccountedFor == Spec => []NothingLost
<1>1. IInv => NothingLost
  BY DEF IInv
<1> QED
  BY <1>1, Safety, PTL

(* An entry whose operators all find the room they ask for in an empty     *)
(* buffer, MIN_AVAILABLE_SIZE for its numbers and its endl, reaches the    *)
(* file in one piece, with no other thread's text in the middle of it.     *)
THEOREM EntriesWhole == Spec => []ShortEntriesWhole
<1>1. IInv => ShortEntriesWhole
  BY DEF IInv
<1> QED
  BY <1>1, Safety, PTL

(* When CFileLogger's thread has ended after stop(), the file has all that *)
(* was logged by the threads that were done when stop() was called.        *)
THEOREM SavedWhenStopped == Spec => []SavedAfterStop
<1>1. IInv => SavedAfterStop
  BY StopSaves DEF IInv
<1> QED
  BY <1>1, Safety, PTL
-----------------------------------------------------------------------------
LEMMA LastInIs ==
  ASSUME NEW S \in SUBSET (1 .. Parts)
  PROVE  /\ LastIn[S] \in {0} \cup S /\ LastIn[S] \in Nat
         /\ \A p \in S : p <= LastIn[S]
<1>1. \E n \in {0} \cup S : \A p \in S : p <= n
  <2>1. CASE S = {}
    BY <2>1
  <2>2. CASE S # {}
    BY <2>2, SizeTypes, LastExists
  <2> QED
    BY <2>1, <2>2
<1>2. LastIn[S] \in {0} \cup S /\ \A p \in S : p <= LastIn[S]
  BY <1>1 DEF LastIn
<1>3. S \subseteq Nat
  BY SizeTypes
<1> DEFINE n == LastIn[S]
<1> HIDE DEF n
<1>4. n \in {0} \cup S /\ \A p \in S : p <= n
  BY <1>2 DEF n
<1>5. n \in Nat
  BY <1>3, <1>4
<1> QED
  BY <1>4, <1>5 DEF n

Sent(l) == LastIn[InStream(l)]

(* What a thread hands over are the parts of KeptParts since the last time. *)
LEMMA HandedIs ==
  ASSUME HoldInv, NothingLost, NEW l \in Loggers,
         NEW T, T = InStream(l) \cup InHand(l)
  PROVE  /\ LastIn[T] \in {Sent(l)} \cup {p \in KeptParts : Sent(l) < p}
         /\ InHand(l) = {p \in KeptParts : Sent(l) < p /\ p <= LastIn[T]}
<1> DEFINE S == InStream(l)
           H == InHand(l)
           m == Sent(l)
           n == LastIn[T]
<1>1. /\ S \subseteq 1 .. Parts /\ H \subseteq 1 .. Parts /\ T \subseteq 1 .. Parts
      /\ T = S \cup H
  BY StreamTypes
<1>2. T = {p \in KeptParts : p < next[l]} /\ \A p \in S, q \in H : p < q
  BY DEF NothingLost
<1>3. /\ m \in {0} \cup S /\ m \in Nat /\ \A p \in S : p <= m
      /\ n \in {0} \cup T /\ n \in Nat /\ \A p \in T : p <= n
  BY <1>1, LastInIs DEF Sent
<1>4. KeptParts \subseteq 1 .. Parts /\ next[l] \in Nat /\ Parts \in Nat
  BY SizeTypes DEF KeptParts, HoldInv, TypeOK
<1> HIDE DEF S, H, m, n
<1>5. \A p \in H : m < p
  BY <1>1, <1>2, <1>3, <1>4
<1>6. H \subseteq {p \in KeptParts : m < p /\ p <= n}
  BY <1>1, <1>2, <1>3, <1>5
<1>7. ASSUME NEW p \in KeptParts, m < p, p <= n PROVE p \in H
  <2>1. (p \in Nat /\ n < next[l]) \/ n = 0
    BY <1>2, <1>3, <1>4
  <2>2. p < next[l]
    <3>1. p \in 1 .. Parts /\ n # 0
      BY <1>3, <1>4, <1>7
    <3>2. n \in T /\ n < next[l]
      BY <1>2, <1>3, <3>1
    <3> QED
      BY <1>3, <1>4, <1>7, <3>1, <3>2
  <2>3. p \in T
    BY <1>2, <2>2
  <2>4. p \notin S
    <3>1. p \in Nat
      BY <1>4
    <3> QED
      BY <1>3, <1>7, <3>1
  <2> QED
    BY <1>1, <2>3, <2>4
<1>8. H = {p \in KeptParts : m < p /\ p <= n}
  BY <1>6, <1>7
<1>9. n \in {m} \cup {p \in KeptParts : m < p}
  <2>1. CASE n \in H
    BY <1>5, <1>6, <2>1
  <2>2. CASE n \in S
    <3>1. m \in T \/ m = 0
      BY <1>1, <1>3
    <3>2. m <= n
      BY <1>3, <3>1
    <3> QED
      BY <1>3, <2>2, <3>2
  <2>3. CASE n = 0
    <3>1. T = {}
      <4>1. \A p \in T : p \in 1 .. Parts /\ p <= 0
        BY <1>1, <1>3, <2>3
      <4>2. \A p \in 1 .. Parts : ~(p <= 0)
        BY <1>4
      <4> QED
        BY <4>1, <4>2
    <3> QED
      BY <1>1, <1>3, <2>3, <3>1
  <2> QED
    BY <1>1, <1>3, <2>1, <2>2, <2>3
<1> QED
  BY <1>8, <1>9 DEF S, H, m, n

SentBy == [l \in Loggers |-> LastIn[InStream(l)]]

LEMMA ChannelInit == Init => Channel!Init
<1> SUFFICES ASSUME Init PROVE Channel!Init
  OBVIOUS
<1>1. Stream = <<>> /\ Queue = <<>> /\ file = <<>>
  BY StartEmpty
<1>2. ASSUME NEW l \in Loggers PROVE LastIn[InStream(l)] = 0
  <2>1. InStream(l) = {}
    BY <1>1 DEF InStream, PartsOf
  <2>2. LastIn[{}] \in {0} \cup {}
    BY LastInIs
  <2> QED
    BY <2>1, <2>2
<1> QED
  BY <1>1, <1>2 DEF Channel!Init, Queue

LEMMA ChannelSame ==
  ASSUME HoldInv, QueueSame
  PROVE  UNCHANGED <<SentBy, Queue, file>>
BY StreamSame DEF QueueSame, SentBy, InStream

LEMMA ChannelWrite ==
  ASSUME HoldInv, QueueWritten
  PROVE  Channel!Write
<1>1. SentBy' = SentBy
  BY StreamSame DEF SentBy, InStream
<1>2. Queue # <<>> /\ file' = Append(file, Head(Queue)) /\ Queue' = Tail(Queue)
  BY DEF QueueWritten
<1> QED
  BY <1>1, <1>2 DEF Channel!Write, SentBy, Queue

LEMMA ChannelPut ==
  ASSUME HoldInv, NothingLost, NEW l \in Loggers, Flush(l) \/ Finish(l)
  PROVE  Channel!Put(l)
<1> DEFINE t == TextOf(cur[l])
           T == InStream(l) \cup InHand(l)
           n == LastIn[T]
<1>1. cur[l] # None
  BY DEF Flush, Finish, HoldInv, ThreadInv, ThreadAt
<1>2. /\ QueuePut(l) /\ Stream' = Append(Stream, t)
      /\ t \in Text /\ t.by = l /\ t.parts = InHand(l) /\ t = [by |-> l, parts |-> InHand(l)]
  <2>1. QueuePut(l)
    BY QueueLogStep DEF LogStep
  <2>2. /\ Stream' = Append(Stream, t)
        /\ t \in Text /\ t.by = l /\ t.parts = InHand(l)
    BY <1>1, <2>1, StreamPut
  <2>3. t = [by |-> t.by, parts |-> t.parts]
    BY DEF TextOf
  <2> QED
    BY <2>1, <2>2, <2>3
<1>3. /\ n \in {Sent(l)} \cup {p \in KeptParts : Sent(l) < p}
      /\ InHand(l) = {p \in KeptParts : Sent(l) < p /\ p <= n}
  BY HandedIs
<1> HIDE DEF t
<1>4. ASSUME NEW k \in Loggers PROVE InStream(k)' = IF k = l THEN T ELSE InStream(k)
  <2>1. PartsOf(Append(Stream, t), k) = PartsOf(Stream, k) \cup (IF t.by = k THEN t.parts ELSE {})
    BY <1>2, StreamTypes, PartsOfAppend
  <2>2. InStream(k)' = PartsOf(Append(Stream, t), k) /\ InStream(k) = PartsOf(Stream, k)
    BY <1>2 DEF InStream
  <2> QED
    BY <1>2, <2>1, <2>2
<1>5. SentBy' = [SentBy EXCEPT ![l] = n]
  BY <1>4 DEF SentBy
<1>6. Queue' = Append(Queue, [by |-> l, parts |-> {p \in KeptParts : SentBy[l] < p /\ p <= n}])
  BY <1>2, <1>3 DEF QueuePut, SentBy, Sent, t
<1>7. n \in {SentBy[l]} \cup {p \in KeptParts : SentBy[l] < p}
  BY <1>3 DEF SentBy, Sent
<1>8. Len(Queue') = Len(Queue) + 1 /\ file' = file
  <2>1. Queue' = Append(Queue, t) /\ file' = file
    BY <1>2 DEF QueuePut, t
  <2> QED
    BY <1>2, <2>1, QueueTypes, AppendProperties
<1> HIDE DEF n
<1> QED
  BY <1>5, <1>6, <1>7, <1>8 DEF Channel!Put, SentBy, Queue

LEMMA ChannelStep == IInv /\ [Next]_vars => [Channel!Next]_<<SentBy, Queue, file>>
<1> SUFFICES ASSUME IInv, [Next]_vars PROVE [Channel!Next]_<<SentBy, Queue, file>>
  OBVIOUS
<1>1. HoldInv /\ NothingLost
  BY DEF IInv
<1>2. ASSUME NEW l \in Loggers, LogStep(l) \/ Spurious(l)
      PROVE  Channel!Next \/ UNCHANGED <<SentBy, Queue, file>>
  <2>1. CASE Flush(l) \/ Finish(l)
    BY <1>1, <2>1, ChannelPut DEF Channel!Next
  <2>2. CASE ~(Flush(l) \/ Finish(l))
    BY <1>1, <1>2, <2>2, QueueLogStep, ChannelSame
  <2> QED
    BY <2>1, <2>2
<1>3. CASE Write
  BY <1>1, <1>3, QueueWrite, ChannelWrite DEF Channel!Next
<1>4. CASE Open \/ Loop \/ Swap \/ Return \/ Notify \/ Stop \/ UNCHANGED vars
  BY <1>1, <1>4, QueueRest, ChannelSame
<1> QED
  BY <1>2, <1>3, <1>4 DEF Next, WriterStep

(* The logger implements the channel: with what it holds in its lists seen *)
(* as one queue, every step is a hand-over, a write or no step at all.     *)
THEOREM Refinement == Spec => ImplementsChannel
<1>1. Init => Channel!Init
  BY ChannelInit
<1>2. IInv /\ [Next]_vars => [Channel!Next]_<<SentBy, Queue, file>>
  BY ChannelStep
<1> QED
  BY <1>1, <1>2, Safety, PTL DEF Spec, ImplementsChannel, Channel!Spec, SentBy, Queue
=============================================================================
