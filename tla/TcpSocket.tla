----------------------------- MODULE TcpSocket ------------------------------
(***************************************************************************)
(* CSocketTcp of src/net: open, connect and close over the operating       *)
(* system's side of one handle, which goes on between the calls: the peer  *)
(* may answer before, during and after select.                             *)
(***************************************************************************)
EXTENDS Integers

CONSTANTS
  Timeouts,   \* what _timeout may be
  MaxCalls,   \* bound: how often connect is called
  EFAIL, EALREADY, EISCONN  \* errno; EFAIL for a peer that refuses or is not there

VARIABLES
  conn,       \* the connection: "none" without a handle, "idle", "trying", "up" or "down"
  soError,    \* its pending error, SO_ERROR
  blocking,   \* whether the handle blocks
  pc,         \* where the caller is: in ::connect, in select, in isConnect, or out
  timeout,    \* _timeout
  ready,      \* isConnect's readSet or writeSet has the handle
  result,     \* what the last connect() returned
  calls,      \* how often connect was called
  made        \* history: the peer accepted since the handle was opened

os == <<conn, soError>>
vars == <<conn, soError, blocking, pc, timeout, ready, result, calls, made>>

Init ==
  /\ conn = "none" /\ soError = 0 /\ blocking = TRUE
  /\ pc = "out" /\ timeout = 0 /\ ready = FALSE
  /\ result = -1 /\ calls = 0 /\ made = FALSE
-----------------------------------------------------------------------------
(* The peer accepts, refuses, or goes away later.  A failure is pending    *)
(* until somebody asks for it.                                             *)
Accepted ==
  /\ conn = "trying"
  /\ conn' = "up" /\ made' = TRUE
  /\ UNCHANGED <<soError, blocking, pc, timeout, ready, result, calls>>

Failed ==
  /\ conn \in {"trying", "up"}
  /\ conn' = "down" /\ soError' = EFAIL
  /\ UNCHANGED <<blocking, pc, timeout, ready, result, calls, made>>
-----------------------------------------------------------------------------
(* open() closes what it holds; the system may have no handle left.        *)
Open ==
  /\ pc = "out"
  /\ conn' \in {"none", "idle"}
  /\ soError' = 0 /\ blocking' = TRUE /\ made' = FALSE
  /\ result' = -1
  /\ UNCHANGED <<pc, timeout, ready, calls>>

Close ==
  /\ pc = "out" /\ conn # "none"
  /\ conn' = "none" /\ soError' = 0 /\ made' = FALSE
  /\ result' = -1
  /\ UNCHANGED <<blocking, pc, timeout, ready, calls>>

Return(r) == pc' = "out" /\ result' = r

(* connect() sets the mode and calls ::connect, which begins to connect an *)
(* idle handle, tells why it cannot, or hands over a pending error.        *)
Connect(t) ==
  /\ pc = "out" /\ conn # "none" /\ calls < MaxCalls
  /\ blocking' = (t = 0)
  /\ timeout' = t
  /\ calls' = calls + 1
  /\ \/ conn = "idle" /\ conn' = "trying" /\ pc' = "connect" /\ UNCHANGED <<soError, result>>
     \/ conn = "idle" /\ Return(EFAIL) /\ UNCHANGED os
     \/ conn = "trying" /\ Return(EALREADY) /\ UNCHANGED os
     \/ conn = "up" /\ Return(EISCONN) /\ UNCHANGED os
     \/ conn = "down" /\ Return(EFAIL) /\ conn' = "idle" /\ soError' = 0
  /\ UNCHANGED <<ready, made>>

(* ::connect returns at the end of a blocking attempt, or at once: with    *)
(* what has come of the attempt already, or with EWOULDBLOCK.              *)
Connected ==
  /\ pc = "connect"
  /\ \/ conn = "up" /\ Return(0) /\ UNCHANGED os
     \/ conn = "down" /\ Return(EFAIL) /\ conn' = "idle" /\ soError' = 0
     \/ ~blocking /\ pc' = "select" /\ UNCHANGED <<os, result>>
  /\ UNCHANGED <<blocking, timeout, ready, calls, made>>

(* select refuses a negative time; otherwise it ends when the attempt has  *)
(* ended, or with the time.                                                *)
Select ==
  /\ pc = "select"
  /\ \/ timeout < 0 /\ Return(-1) /\ UNCHANGED ready
     \/ timeout > 0 /\ ready' = (conn \in {"up", "down"}) /\ pc' = "isConnect" /\ UNCHANGED result
  /\ UNCHANGED <<conn, soError, blocking, timeout, calls, made>>

(* isConnect reads SO_ERROR, which clears it, and returns it when the time *)
(* was up; otherwise it reads it again, over the first one, and returns 0  *)
(* unless the reading itself fails.                                        *)
IsConnect ==
  /\ pc = "isConnect"
  /\ Return(IF ready THEN 0 ELSE soError)
  /\ soError' = 0
  /\ conn' = IF conn = "down" THEN "idle" ELSE conn
  /\ UNCHANGED <<blocking, timeout, ready, calls, made>>

Next ==
  \/ Open \/ Close \/ \E t \in Timeouts : Connect(t)
  \/ Connected \/ Select \/ IsConnect
  \/ Accepted \/ Failed

Spec == Init /\ [][Next]_vars
-----------------------------------------------------------------------------
(* socket_base.h: connect() waits until success or fail, and 0 is success: *)
(* when it returns 0, the peer has accepted.                               *)
ZeroMeansConnected == result = 0 => made
=============================================================================
