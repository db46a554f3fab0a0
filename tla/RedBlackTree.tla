---------------------------- MODULE RedBlackTree ----------------------------
(***************************************************************************)
(* CRBTree of src/algorithm, which derives from CBSTree and replaces       *)
(* adjust() by one that colours and rotates.                               *)
(***************************************************************************)
EXTENDS SearchTree

(* uncle() compares the grandparent's parent, as the code does.            *)
Grandparent(t, n) == IF t.parent[n] = None THEN None ELSE t.parent[t.parent[n]]

Uncle(t, n) ==
  LET g == Grandparent(t, n) IN
    IF g = None THEN None
    ELSE IF t.parent[g] = t.left[g] THEN t.right[g] ELSE t.left[g]

(* The rotations leave n's parent, the root and the moved subtree's parent *)
(* alone.                                                                  *)
RotateLeft(t, n) ==
  LET p == t.right[n]
      u == IF t.parent[n] = None THEN t ELSE [t EXCEPT !.left[t.parent[n]] = p]
  IN  IF n = None THEN t
      ELSE [u EXCEPT !.parent[p] = t.parent[n], !.right[n] = u.left[p], !.left[p] = n]

RotateRight(t, n) ==
  LET p == t.left[n]
      u == IF t.parent[n] = None THEN t ELSE [t EXCEPT !.right[t.parent[n]] = p]
  IN  IF n = None THEN t
      ELSE [u EXCEPT !.parent[p] = t.parent[n], !.left[n] = u.right[p], !.right[p] = n]

(* The rotations of CRBTree::adjust when the uncle is black.               *)
Rotated(t, n) ==
  LET p == t.parent[n]
      g == Grandparent(t, n)
      inL == n = t.right[p] /\ p = t.left[g]
      inR == ~inL /\ n = t.left[p] /\ p = t.right[g]
      u == IF inL THEN RotateLeft(t, p) ELSE IF inR THEN RotateRight(t, p) ELSE t
      m == IF inL THEN u.left[n] ELSE IF inR THEN u.right[n] ELSE n
      c == [u EXCEPT !.red[p] = FALSE, !.red[g] = TRUE]
      mg == Grandparent(c, m)
  IN  IF m = c.left[c.parent[m]] /\ c.parent[m] = c.left[mg]
      THEN RotateRight(c, mg) ELSE RotateLeft(c, mg)

(* CRBTree::adjust                                                         *)
RECURSIVE AdjustColors(_, _)
AdjustColors(t, n) ==
  LET p == t.parent[n]
      u == Uncle(t, n)
      g == Grandparent(t, n)
      b == [t EXCEPT !.red[n] = FALSE]
  IN  IF p = None THEN b
      ELSE IF ~t.red[p] THEN t
      ELSE IF u # None /\ b.red[u]
      THEN IF g = None THEN [b EXCEPT !.red[p] = FALSE, !.red[u] = FALSE]
           ELSE AdjustColors([b EXCEPT !.red[p] = FALSE, !.red[u] = FALSE, !.red[g] = TRUE], g)
      ELSE Rotated(b, n)

AddColored(k) == AddValueBy(AdjustColors(WithNode(tree, k), k), k)

RedBlackNext == \E k \in Keys : AddColored(k) \/ DelValue(k) \/ RemoveValue(k)

RedBlackSpec == Init /\ [][RedBlackNext]_vars
-----------------------------------------------------------------------------
(* The fourth of the properties the comment on CRBTree::adjust lists: all  *)
(* the paths from a node to the leaves have the same number of blacks.     *)
RECURSIVE Blacks(_, _)
Blacks(t, n) ==
  IF n = None THEN {1}
  ELSE {b + (IF t.red[n] THEN 0 ELSE 1) : b \in Blacks(t, t.left[n]) \cup Blacks(t, t.right[n])}

SameBlacks == \A n \in Nodes : Cardinality(Blacks(tree, n)) = 1
=============================================================================
