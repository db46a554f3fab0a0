---------------------------- MODULE MCTcpSocket -----------------------------
(* Instances of TcpSocket for TLC.                                         *)
EXTENDS TcpSocket, TLC

(* Wait for ever, return at once, wait.                                    *)
MCTimeouts == {0, -1, 1}
=============================================================================
