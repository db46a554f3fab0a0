------------------------------- MODULE Lists --------------------------------
(***************************************************************************)
(* The vectors and lists of pointers that pass objects between the threads *)
(* of the program: what they hold, and that they hold nothing twice.       *)
(***************************************************************************)
EXTENDS Integers, Sequences

IdsOf(s) == {s[i] : i \in DOMAIN s}

NoRepeat(s) == \A i, j \in DOMAIN s : s[i] = s[j] => i = j
=============================================================================
