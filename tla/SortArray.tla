----------------------------- MODULE SortArray ------------------------------
(***************************************************************************)
(* CSortArray of src/algorithm: an array that is filled, shifted, rotated, *)
(* reversed and sorted in place.                                           *)
(***************************************************************************)
EXTENDS Integers, FiniteSets, FiniteSetsExt

CONSTANTS
  Values,     \* integers
  SIZE

VARIABLES
  nodes,      \* m_nodes; nodes[SIZE] is what lies behind the array
  nodesCount, \* m_nodesCount
  given,      \* history: how often each value is in the array
  sorted      \* history: sort() was the last call

vars == <<nodes, nodesCount, given, sorted>>

(* The values are integers.                                               *)
ArrayOK == SIZE \in Nat /\ Values \subseteq Int

(* An array is born with arbitrary contents.                               *)
Memory == [0 .. SIZE -> Values]

InitWith(memory) ==
  /\ nodes = memory
  /\ nodesCount = 0
  /\ given = [v \in Values |-> 0]
  /\ sorted = FALSE

End == nodesCount - 1

(* reverse: the two ends change places, then their neighbours.             *)
Reverse(a, begin, end) ==
  LET turned[k \in 0 .. SIZE] ==
        LET b == turned[k - 1]  l == begin + k - 1  r == end - k + 1 IN
          IF k = 0 THEN a ELSE IF l >= r THEN b ELSE [b EXCEPT ![l] = b[r], ![r] = b[l]]
  IN  turned[SIZE]

(* The three reversals of cycle, the first up to split.                    *)
Rotated(split) == Reverse(Reverse(Reverse(nodes, 0, split), split + 1, End), 0, End)

(* C++'s remainder has the sign of the dividend.                           *)
Rem(n, d) == IF n < 0 THEN -((-n) % d) ELSE n % d

(* shift: from the far end on, so that nothing is overwritten before it is *)
(* moved; places outside the array are clamped.                            *)
ShiftRight(a, begin, end, n) ==
  LET moved[i \in begin .. end + 1] ==
        IF i = end + 1 THEN a ELSE [moved[i + 1] EXCEPT ![Min({i + n, SIZE - 1})] = moved[i + 1][i]]
  IN  moved[begin]

(* Faulty: from the near end on.                                           *)
ShiftLeftBug(a, begin, end, n) ==
  LET moved[i \in begin .. end + 1] ==
        IF i = end + 1 THEN a ELSE [moved[i + 1] EXCEPT ![Max({i + n, 0})] = moved[i + 1][i]]
  IN  moved[begin]

ShiftLeft(a, begin, end, n) ==
  LET moved[i \in begin - 1 .. end] ==
        IF i = begin - 1 THEN a ELSE [moved[i - 1] EXCEPT ![Max({i + n, 0})] = moved[i - 1][i]]
  IN  moved[end]

(* Faulty: the place of an equal value is not after it, and is not shifted.*)
InsertedBug(b, i) ==
  LET smaller == {j \in 0 .. i - 1 : nodes[i] <= b[j]}
      j == IF smaller = {} THEN i ELSE Min(smaller)
  IN  [ShiftRight(b, Min({j + 1, i}), i - 1, 1) EXCEPT ![j] = nodes[i]]

(* One round of sort: node i goes before the first larger one of b.        *)
Inserted(b, i) ==
  LET larger == {j \in 0 .. i - 1 : nodes[i] < b[j]}
      j == IF larger = {} THEN i ELSE Min(larger)
  IN  [ShiftRight(b, j, i - 1, 1) EXCEPT ![j] = nodes[i]]

InsertAll(b) ==
  LET filled[i \in 0 .. nodesCount] == IF i = 0 THEN b ELSE Inserted(filled[i - 1], i - 1)
  IN  filled[nodesCount]
-----------------------------------------------------------------------------
AddValue(v) ==
  /\ nodesCount < SIZE
  /\ nodes' = [nodes EXCEPT ![nodesCount] = v]
  /\ nodesCount' = nodesCount + 1
  /\ given' = [given EXCEPT ![v] = @ + 1]
  /\ sorted' = FALSE

ReverseAll ==
  /\ nodes' = Reverse(nodes, 0, End)
  /\ sorted' = FALSE
  /\ UNCHANGED <<nodesCount, given>>

(* Faulty: the first part of a rotation to the left is one longer.         *)
CycleBug(n) ==
  /\ n # 0 /\ nodesCount >= 2
  /\ LET m == Rem(n, nodesCount) IN
       nodes' = Rotated(IF m > 0 THEN End - m ELSE -m)
  /\ sorted' = FALSE
  /\ UNCHANGED <<nodesCount, given>>

Cycle(n) ==
  /\ n # 0 /\ nodesCount >= 2
  /\ LET m == Rem(n, nodesCount) IN
       nodes' = Rotated(IF m > 0 THEN End - m ELSE -m - 1)
  /\ sorted' = FALSE
  /\ UNCHANGED <<nodesCount, given>>

Count(a, n) == [v \in Values |-> Cardinality({i \in 0 .. n - 1 : a[i] = v})]

(* shift moves one node more than there are, which may lie behind the      *)
(* array, and counts the places it opens or closes.  The caller keeps the  *)
(* count between 0 and SIZE.                                               *)
Shift(n) ==
  /\ n # 0 /\ nodesCount + n \in 0 .. SIZE
  /\ nodes' = IF n > 0 THEN ShiftRight(nodes, 0, nodesCount, n)
              ELSE ShiftLeft(nodes, 0, nodesCount, n)
  /\ nodesCount' = nodesCount + n
  /\ given' = Count(nodes', nodesCount')
  /\ sorted' = FALSE

(* sort fills a new array, which is as it was born from nodesCount on.     *)
Sort ==
  /\ \E memory \in [nodesCount .. SIZE -> Values] :
       nodes' = InsertAll([i \in 0 .. SIZE |-> IF i < nodesCount THEN 0 ELSE memory[i]])
  /\ sorted' = TRUE
  /\ UNCHANGED <<nodesCount, given>>

Shifts == -SIZE - 1 .. SIZE + 1

Next ==
  \/ \E v \in Values : AddValue(v)
  \/ \E n \in Shifts : Cycle(n) \/ Shift(n)
  \/ ReverseAll \/ Sort
-----------------------------------------------------------------------------
Held == 0 .. nodesCount - 1

(* sort_array_test.cpp: after sort the array ascends.                      *)
Ordered == sorted => \A i, j \in Held : i < j => nodes[i] <= nodes[j]

(* No rearrangement loses or repeats a value.                              *)
Holds == \A v \in Values : Cardinality({i \in Held : nodes[i] = v}) = given[v]

(* cycle(n) moves every value n places to the right, round the end, for n  *)
(* of both signs and beyond the size; shift(n) moves each by n, and those  *)
(* that fall off the front are lost.                                       *)
Moves ==
  /\ \A n \in Shifts : Cycle(n) => \A i \in Held : nodes'[(i + n) % nodesCount] = nodes[i]
  /\ \A n \in Shifts : Shift(n) => \A i \in Held : i + n >= 0 => nodes'[i + n] = nodes[i]
=============================================================================
