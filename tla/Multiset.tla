------------------------------ MODULE Multiset ------------------------------
(***************************************************************************)
(* What the headers of CBSTree, CHashMap and CUrlTrieTree promise: a       *)
(* multiset of keys, with the result of every call.                        *)
(***************************************************************************)
EXTENDS Integers

CONSTANTS
  Keys,
  Missing,    \* what a deletion returns for a key that is not there
  Answer(_)   \* what the removal of a key returns, given how often it was there

VARIABLES
  freq,       \* how often each key is there
  result      \* what the last call returned

Init == freq = [k \in Keys |-> 0] /\ result = 0

AddValue(k) ==
  /\ freq' = [freq EXCEPT ![k] = @ + 1]
  /\ result' = freq'[k]

DelValue(k) ==
  \/ freq[k] = 0 /\ result' = Missing /\ UNCHANGED freq
  \/ freq[k] > 0 /\ freq' = [freq EXCEPT ![k] = @ - 1] /\ result' = freq'[k]

RemoveValue(k) ==
  \/ freq[k] = 0 /\ result' = Missing /\ UNCHANGED freq
  \/ freq[k] > 0 /\ freq' = [freq EXCEPT ![k] = 0] /\ result' = Answer(freq[k])

Clear == freq' = [k \in Keys |-> 0] /\ UNCHANGED result

Next == (\E k \in Keys : AddValue(k) \/ DelValue(k) \/ RemoveValue(k)) \/ Clear

Spec == Init /\ [][Next]_<<freq, result>>
=============================================================================
