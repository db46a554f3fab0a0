---------------------------- MODULE MCRedBlackTree ----------------------------
(* Instances of RedBlackTree for TLC.                                      *)
EXTENDS RedBlackTree, TLC
=============================================================================
