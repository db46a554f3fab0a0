---------------------------- MODULE MCContainers ----------------------------
(* Instances of Containers for TLC.                                        *)
EXTENDS Containers, TLC

(* Two of four keys share a bucket with a third.                           *)
MCBucket(k) == IF k = 4 THEN 2 ELSE 1

(* a, ab, aba and b: a url that begins two others, one in the middle, one  *)
(* apart.                                                                  *)
MCUrls == {<<1>>, <<1, 2>>, <<1, 2, 1>>, <<2>>}
=============================================================================
