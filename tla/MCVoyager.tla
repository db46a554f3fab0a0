----------------------------- MODULE MCVoyager -----------------------------
(* Instances of Voyager for TLC.                                           *)
EXTENDS Voyager, TLC

CONSTANTS u1, u2, u3, u4

(* u1 is the entrance; it links to u2 and u3, and u2 back and to u4.       *)
MCLinks == u1 :> {u2, u3} @@ u2 :> {u1, u4} @@ u3 :> {} @@ u4 :> {}

Symmetry == Permutations(Clients) \cup Permutations(Tokens)
=============================================================================
