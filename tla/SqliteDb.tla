------------------------------ MODULE SqliteDb ------------------------------
(***************************************************************************)
(* CSqlLiteDB of src/common: one SQLite connection, which all the threads  *)
(* of a CBasicManager share, with the flag m_hasTransaction beside the     *)
(* transaction SQLite itself knows of.  The table is a value; a statement  *)
(* is one step (SQLite serialises the calls on a connection) and gives a   *)
(* result z.                                                               *)
(*                                                                         *)
(* Another process may hold a lock on the database file.  openDB asks for  *)
(* WAL and ignores what it got, so the journal may be a rollback journal,  *)
(* where a reader refuses a commit.                                        *)
(***************************************************************************)
EXTENDS Naturals

CONSTANTS
  Wal,        \* the journal mode is WAL
  MaxFault    \* bound: writes that fail for good, ends of the connection, and
              \* what the modules that extend this one count as a fault

ASSUME SqliteAssumption == Wal \in BOOLEAN /\ MaxFault \in Nat

VARIABLES
  disk,       \* the committed table
  view,       \* the table as the connection sees it
  inTx,       \* SQLite has a transaction open
  dirty,      \* ... that holds the write lock
  hasTx,      \* m_hasTransaction
  faults,     \* how many there were
  other       \* the lock of the other process: "none", "read" or "write"

db == <<disk, view, inTx, dirty, hasTx, faults, other>>

Result == {"ok", "busy", "error"}
-----------------------------------------------------------------------------
OpenDB(table) ==
  /\ disk = table /\ view = table
  /\ inTx = FALSE /\ dirty = FALSE /\ hasTx = FALSE
  /\ faults = 0

(* The file without the connection: what is not committed is gone.         *)
Closed ==
  /\ faults < MaxFault /\ faults' = faults + 1
  /\ view' = disk /\ inTx' = FALSE /\ dirty' = FALSE /\ hasTx' = FALSE
  /\ UNCHANGED <<disk, other>>

OtherProcess ==
  /\ \/ other = "none" /\ (other' = "read" \/ (~dirty /\ other' = "write"))
     \/ other # "none" /\ other' = "none"
  /\ UNCHANGED <<disk, view, inTx, dirty, hasTx, faults>>

(* A failure for good (SQLITE_FULL, SQLITE_IOERR) undoes the statement or  *)
(* the whole transaction.                                                  *)
Failed(z) ==
  /\ faults < MaxFault /\ faults' = faults + 1
  /\ z = "error"
  /\ \/ UNCHANGED <<view, inTx, dirty>>
     \/ view' = disk /\ inTx' = FALSE /\ dirty' = FALSE
  /\ UNCHANGED disk

(* A statement that changes the table, in the open transaction if there is *)
(* one and committed at once if not.                                       *)
Blocked ==
  \/ other = "write" /\ ~dirty
  \/ other = "read" /\ ~inTx /\ ~Wal

Write(table, z) ==
  /\ \/ Blocked /\ z = "busy" /\ UNCHANGED <<disk, view, inTx, dirty, faults>>
     \/ /\ ~Blocked /\ z = "ok"
        /\ view' = table
        /\ disk' = IF inTx THEN disk ELSE table
        /\ dirty' = inTx
        /\ UNCHANGED <<inTx, faults>>
     \/ ~Blocked /\ Failed(z)
  /\ UNCHANGED <<hasTx, other>>

(* A SELECT is refused while the other process writes the file itself.     *)
Read(z) ==
  /\ \/ z = "ok"
     \/ z = "busy" /\ other = "write" /\ ~dirty /\ ~Wal
  /\ UNCHANGED db

(* beginTransact: SQLite refuses a transaction within a transaction.       *)
BeginTransact(z) ==
  /\ \/ inTx /\ z = "error" /\ UNCHANGED <<inTx, hasTx>>
     \/ ~inTx /\ z = "ok" /\ inTx' = TRUE /\ hasTx' = TRUE
  /\ UNCHANGED <<disk, view, dirty, faults, other>>

(* Faulty: every transaction counts as committed.                          *)
CommitBug(z) ==
  /\ z = "ok"
  /\ \/ disk' = view /\ inTx' = FALSE /\ dirty' = FALSE
     \/ UNCHANGED <<disk, inTx, dirty>>
  /\ hasTx' = FALSE
  /\ UNCHANGED <<view, faults, other>>

(* commit: m_hasTransaction is reset whatever SQLite answers.              *)
Commit(z) ==
  \/ ~hasTx /\ z = "ok" /\ UNCHANGED db
  \/ /\ hasTx /\ hasTx' = FALSE
     /\ \/ ~inTx /\ z = "error" /\ UNCHANGED <<disk, view, inTx, dirty, faults>>
        \/ /\ inTx /\ dirty /\ other = "read" /\ ~Wal /\ z = "busy"
           /\ UNCHANGED <<disk, view, inTx, dirty, faults>>
        \/ /\ inTx /\ ~(dirty /\ other = "read" /\ ~Wal) /\ z = "ok"
           /\ disk' = view /\ inTx' = FALSE /\ dirty' = FALSE
           /\ UNCHANGED <<view, faults>>
        \/ inTx /\ dirty /\ Failed(z)
     /\ UNCHANGED other

(* close, which commits first.                                             *)
Close ==
  IF hasTx /\ inTx /\ ~(dirty /\ other = "read" /\ ~Wal)
  THEN /\ faults < MaxFault /\ faults' = faults + 1
       /\ disk' = view
       /\ inTx' = FALSE /\ dirty' = FALSE /\ hasTx' = FALSE
       /\ UNCHANGED <<view, other>>
  ELSE Closed
=============================================================================
