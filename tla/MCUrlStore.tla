----------------------------- MODULE MCUrlStore -----------------------------
(* Instances of UrlStore for TLC.                                          *)
EXTENDS UrlStore, TLC

CONSTANTS seed, a, b

(* The entrance links to a page that links to another.                     *)
MCLinks == [u \in Urls |-> IF u = seed THEN {a} ELSE IF u = a THEN {b} ELSE {}]
=============================================================================
