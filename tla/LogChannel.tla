----------------------------- MODULE LogChannel -----------------------------
(***************************************************************************)
(* What the logger of src/common promises the threads that log: every      *)
(* thread's text goes to the file in the order it was logged, piece by     *)
(* piece, each piece once.  A piece is the text of one buffer.             *)
(***************************************************************************)
EXTENDS Naturals, Sequences

CONSTANTS
  Loggers,    \* threads that log
  Parts,      \* the parts 1 .. Parts each of them logs
  Kept        \* the parts that fit a buffer

VARIABLES
  sent,       \* sent[l]: the last part l has handed over
  queue,      \* handed over and not yet in the file
  file        \* the pieces in the file

Piece == [by : Loggers, parts : SUBSET Nat]

Init == sent = [l \in Loggers |-> 0] /\ queue = <<>> /\ file = <<>>

(* A thread hands over the parts it has logged since the last time, if any *)
(* of them was kept.                                                       *)
Put(l) ==
  /\ UNCHANGED file
  /\ Len(queue') = Len(queue) + 1
  /\ LET last == sent[l] IN
       \E n \in {last} \cup {p \in Kept : last < p} :
         /\ queue' = Append(queue, [by |-> l, parts |-> {p \in Kept : last < p /\ p <= n}])
         /\ sent' = [sent EXCEPT ![l] = n]

(* The writer writes the oldest piece.                                     *)
Write ==
  /\ queue # <<>>
  /\ file' = Append(file, Head(queue))
  /\ queue' = Tail(queue)
  /\ UNCHANGED sent

Next == Write \/ \E l \in Loggers : Put(l)

Spec == Init /\ [][Next]_<<sent, queue, file>>
=============================================================================
