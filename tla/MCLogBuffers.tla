---------------------------- MODULE MCLogBuffers ----------------------------
(* Instances of LogBuffers for TLC.                                        *)
EXTENDS LogBuffers, TLC

CONSTANTS own, b1, b2, b3

(* An entry of a text and an endl that just finds its room, then one of a  *)
(* text no buffer takes, a text, and an endl that no longer finds its room *)
(* beside it although a buffer could hold both.                            *)
MCSizeOf == <<3, 1, 7, 4, 1>>
MCLastOf == {2, 5}
=============================================================================
